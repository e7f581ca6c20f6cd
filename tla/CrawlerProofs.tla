---------------------------- MODULE CrawlerProofs ----------------------------
(***************************************************************************)
(* The names and values of the crawler, for all sets of names and files,   *)
(* any number of edits and pulses.                                         *)
(***************************************************************************)
EXTENDS Crawler, TLAPS, FiniteSetTheorems, SequenceTheorems

(***************************************************************************)
(* Lists and what is counted in them.                                      *)
(***************************************************************************)
\* A function on 1 .. n is a list of length n.
LEMMA FunctionIsList ==
  ASSUME NEW S, NEW n \in Nat, NEW f \in [1 .. n -> S]
  PROVE  f \in Seq(S) /\ Len(f) = n /\ DOMAIN f = 1 .. n
<1>1. f \in Seq(S)  BY SeqDef
<1>2. Len(f) \in Nat /\ DOMAIN f = 1 .. Len(f)  BY <1>1, LenProperties
<1> QED BY <1>1, <1>2

\* A list is a function on 1 .. Len, and its named entries are counted.
LEMMA NamedFinite ==
  ASSUME NEW names \in NameList
  PROVE  /\ Len(names) \in Nat /\ DOMAIN names = 1 .. Len(names)
         /\ Named(names) \subseteq 1 .. Len(names)
         /\ IsFiniteSet(Named(names)) /\ Cardinality(Named(names)) \in Nat
<1>1. Len(names) \in Nat /\ DOMAIN names = 1 .. Len(names)
  BY LenProperties DEF NameList
<1>2. Named(names) \subseteq 1 .. Len(names)  BY <1>1 DEF Named
<1>3. IsFiniteSet(1 .. Len(names))  BY <1>1, FS_Interval
<1>4. IsFiniteSet(Named(names))  BY <1>2, <1>3, FS_Subset
<1> QED BY <1>1, <1>2, <1>4, FS_CardinalityType

\* Freeing the entries of a whole list frees all copies in it.
LEMMA FreedAll ==
  ASSUME NEW names \in NameList
  PROVE  Freed(names, Len(names)) = Cardinality(Named(names))
<1>1. {i \in Named(names) : i <= Len(names)} = Named(names)
  BY NamedFinite
<1> QED BY <1>1 DEF Freed

\* Freeing some of them frees no more.
LEMMA FreedSome ==
  ASSUME NEW names \in NameList, NEW n \in Nat
  PROVE  /\ Freed(names, n) \in Nat
         /\ Freed(names, n) <= Cardinality(Named(names))
<1>1. {i \in Named(names) : i <= n} \subseteq Named(names)  OBVIOUS
<1>2. IsFiniteSet({i \in Named(names) : i <= n})
  BY <1>1, NamedFinite, FS_Subset
<1> QED BY <1>1, <1>2, NamedFinite, FS_Subset, FS_CardinalityType DEF Freed

\* compute_metric fills the list of values, with names that have a value.
LEMMA compute_metricType ==
  ASSUME NEW names \in NameList, NEW values \in ValueList, NEW failed
  PROVE  /\ compute_metric(names, values, failed) \in ValueList
         /\ Len(compute_metric(names, values, failed)) = Len(values)
<1> DEFINE v == compute_metric(names, values, failed)
<1>1. /\ Len(values) \in Nat /\ DOMAIN values = 1 .. Len(values)
      /\ \A i \in 1 .. Len(values) : values[i] \in Name \cup {Garbage}
  BY LenProperties, ElementOfSeq DEF ValueList
<1>2. ASSUME NEW i \in Measured(names, failed) PROVE names[i] \in Name
  <2>1. i \in DOMAIN names /\ i \in Int
    BY NamedFinite DEF Measured
  <2>2. i \notin Unsupported(names)  BY <2>1 DEF Measured
  <2>3. names[i] \in callbacks \cup PAPI
    BY <2>1, <2>2 DEF Unsupported, get_value
  <2> QED BY <2>3, CrawlerAssumption
<1>3. v \in [1 .. Len(values) -> Name \cup {Garbage}]
  BY <1>1, <1>2 DEF compute_metric
<1> QED BY <1>1, <1>3, FunctionIsList DEF ValueList

(***************************************************************************)
(* Types, of every field.                                                  *)
(***************************************************************************)
EventType == [timestamp : Int, quit : BOOLEAN, update_file : BOOLEAN,
              metrics_nr : Nat, gather_info : ValueList]

DataType == [metrics_nr : Nat, gather_info : ValueList]

LeafStep == {"number", "names", "stopped", "destroyed", "exited", "crashed"}

InnerStep == {"idle", "number", "names", "memory", "submit", "stopped",
              "destroyed", "exited", "crashed"}

Typed ==
  /\ file \in Files \cup {Empty, Missing}
  /\ numbers \in Seq(Nat)
  /\ since \in Int
  /\ torn \in [Process -> BOOLEAN]
  /\ pc \in [Process -> InnerStep]
  /\ pc["leaf"] \in LeafStep
  /\ round \in {"own", "next"}
  /\ counter \in [Process -> Nat]
  /\ total_metrics \in [Process -> Nat]
  /\ old_nr_of_metrics \in [Process -> Nat]
  /\ desired_metrics \in [Process -> NameList]
  /\ live \in [Process -> Nat]
  /\ data \in [Process -> DataType]
  /\ link \in Seq(EventType)
  /\ event \in EventType
  /\ merged \in [theirs : EventType, own : DataType]

\* Every entry of a list of values is as malloc left it.
Unfilled(values) == \A i \in 1 .. Len(values) : values[i] = Garbage

(***************************************************************************)
(* The list of names of p: how long it is, what is in it and how many      *)
(* copies there are; between the readings, that it is empty and as long as *)
(* the file that was read, if no edit fell between.                        *)
(***************************************************************************)
ListInv(p) ==
  /\ pc[p] # "destroyed" =>
       /\ Len(desired_metrics[p]) = total_metrics[p]
       /\ live[p] = Cardinality(Named(desired_metrics[p]))
  /\ pc[p] = "names" =>
       /\ Named(desired_metrics[p]) = {}
       /\ Len(data[p].gather_info) = total_metrics[p]
       /\ Unfilled(data[p].gather_info)
       /\ ~torn[p] => Present /\ Len(file) = total_metrics[p]
  /\ pc[p] \in {"exited", "crashed"} => torn[p]

NamesInv == Typed /\ \A p \in Process : ListInv(p)
-----------------------------------------------------------------------------
(***************************************************************************)
(* The two readings.                                                       *)
(***************************************************************************)
Edit == Truncate \/ Remove \/ Write

\* A file that is there and not truncated is a list of names.
LEMMA FileIsList ==
  ASSUME Typed, Present
  PROVE  /\ file \in Files /\ file \in Seq(Name) /\ Len(file) \in Nat
         /\ DOMAIN file = 1 .. Len(file)
         /\ \A i \in 1 .. Len(file) : file[i] \in Name /\ file[i] # NULL
<1>1. file \in Files /\ file \in Seq(Name)
  BY CrawlerAssumption DEF Typed, Present
<1> QED BY <1>1, LenProperties, ElementOfSeq, CrawlerAssumption

\* The list after the second reading.
LEMMA NewNamesList ==
  ASSUME NamesInv, NEW p \in Process, pc[p] = "names", Present
  PROVE  /\ NewNames(p) \in NameList /\ Len(NewNames(p)) = total_metrics[p]
         /\ Named(NewNames(p)) = NamesRead(p)
         /\ IsFiniteSet(NamesRead(p))
         /\ Len(file) = total_metrics[p] => NewNames(p) = file
<1>1. /\ desired_metrics[p] \in NameList /\ total_metrics[p] \in Nat
      /\ Len(desired_metrics[p]) = total_metrics[p]
      /\ Named(desired_metrics[p]) = {}
  BY DEF NamesInv, Typed, ListInv
<1>2. /\ DOMAIN desired_metrics[p] = 1 .. total_metrics[p]
      /\ \A i \in 1 .. total_metrics[p] : desired_metrics[p][i] = NULL
  BY <1>1, NamedFinite DEF Named
<1>3. /\ Len(file) \in Nat /\ DOMAIN file = 1 .. Len(file)
      /\ \A i \in 1 .. Len(file) : file[i] \in Name /\ file[i] # NULL
      /\ file \in Seq(Name)
  BY FileIsList DEF NamesInv
<1>4. NamesRead(p) = {i \in 1 .. Len(file) : i <= total_metrics[p]}
  BY <1>3 DEF NamesRead
<1>5. NewNames(p) \in [1 .. total_metrics[p] -> Name \cup {NULL}]
  BY <1>2, <1>3, <1>4 DEF NewNames
<1>6. /\ NewNames(p) \in NameList /\ Len(NewNames(p)) = total_metrics[p]
      /\ DOMAIN NewNames(p) = 1 .. total_metrics[p]
  BY <1>1, <1>5, FunctionIsList DEF NameList
<1>7. Named(NewNames(p)) = NamesRead(p)
  <2>1. \A i \in 1 .. total_metrics[p] :
          NewNames(p)[i] # NULL <=> i \in NamesRead(p)
    BY <1>2, <1>3, <1>4 DEF NewNames
  <2>2. NamesRead(p) \subseteq 1 .. total_metrics[p]  BY <1>1, <1>3, <1>4
  <2> QED BY <1>6, <2>1, <2>2 DEF Named
<1>8. IsFiniteSet(NamesRead(p))  BY <1>6, <1>7, NamedFinite
<1>9. Len(file) = total_metrics[p] => NewNames(p) = file
  <2> SUFFICES ASSUME Len(file) = total_metrics[p] PROVE NewNames(p) = file
    OBVIOUS
  <2>1. \A i \in 1 .. Len(file) : NewNames(p)[i] = file[i]
    BY <1>3, <1>4 DEF NewNames
  <2> QED BY <1>3, <1>5, <2>1
<1> QED BY <1>6, <1>7, <1>8, <1>9

\* The first reading of p.
LEMMA NumberNames ==
  ASSUME NamesInv, NEW p \in Process,
         initialize_metrics_crawler_number_from_file(p)
  PROVE  /\ NamesInv'
         /\ total_metrics'[p] = IF file = Empty THEN data[p].metrics_nr ELSE Len(file)
         /\ data'[p].metrics_nr = total_metrics'[p]
<1> DEFINE nr == IF file = Empty THEN data[p].metrics_nr ELSE Len(file)
           list == [i \in 1 .. nr |-> NULL]
           vals == [i \in 1 .. nr |-> Garbage]
           d == [metrics_nr |-> nr, gather_info |-> vals]
           f == Freed(desired_metrics[p], total_metrics[p])
<1>1. Typed /\ ListInv(p) /\ pc[p] = "number" /\ (file # Empty => Present)
  BY DEF NamesInv, Present, initialize_metrics_crawler_number_from_file
<1>2. data[p] \in DataType /\ data[p].metrics_nr \in Nat
  BY <1>1 DEF Typed, DataType
<1>3. nr \in Nat  BY <1>1, <1>2, FileIsList
<1>4. /\ old_nr_of_metrics' = [old_nr_of_metrics EXCEPT ![p] = total_metrics[p]]
      /\ total_metrics' = [total_metrics EXCEPT ![p] = nr]
      /\ live' = [live EXCEPT ![p] = live[p] - f]
      /\ desired_metrics' = [desired_metrics EXCEPT ![p] = list]
      /\ data' = [data EXCEPT ![p] = d]
      /\ torn' = [torn EXCEPT ![p] = file = Empty]
      /\ pc' = [pc EXCEPT ![p] = "names"]
      /\ UNCHANGED <<file, numbers, since, round, counter, link, event, merged>>
  BY DEF initialize_metrics_crawler_number_from_file, OldNumber, fileVars,
         eventVars
<1>5. live[p] - f = 0 /\ total_metrics[p] \in Nat
  <2>1. /\ desired_metrics[p] \in NameList /\ live[p] \in Nat
        /\ total_metrics[p] \in Nat
    BY <1>1 DEF Typed
  <2>2. f = live[p]  BY <1>1, <2>1, FreedAll DEF ListInv
  <2> QED BY <2>1, <2>2
<1>6. /\ list \in NameList /\ Len(list) = nr
      /\ Named(list) = {} /\ Cardinality(Named(list)) = 0
  <2>1. list \in [1 .. nr -> Name \cup {NULL}]  OBVIOUS
  <2>2. list \in NameList /\ Len(list) = nr /\ DOMAIN list = 1 .. nr
    BY <1>3, <2>1, FunctionIsList DEF NameList
  <2>3. Named(list) = {}  BY <2>2 DEF Named
  <2> QED BY <2>2, <2>3, FS_EmptySet
<1>7. vals \in ValueList /\ Len(vals) = nr /\ Unfilled(vals)
  <2>1. vals \in [1 .. nr -> Name \cup {Garbage}]  OBVIOUS
  <2>2. vals \in ValueList /\ Len(vals) = nr
    BY <1>3, <2>1, FunctionIsList DEF ValueList
  <2> QED BY <2>2 DEF Unfilled
<1>8. d \in DataType /\ d.metrics_nr = nr /\ d.gather_info = vals
  BY <1>3, <1>7 DEF DataType
<1> HIDE DEF nr, list, vals, d, f
<1>9. Typed'
  BY <1>1, <1>3, <1>4, <1>5, <1>6, <1>8 DEF Typed, InnerStep, LeafStep
<1>10. /\ pc'[p] = "names" /\ total_metrics'[p] = nr /\ live'[p] = 0
       /\ desired_metrics'[p] = list /\ data'[p] = d
       /\ torn'[p] = (file = Empty)
  BY <1>1, <1>4, <1>5 DEF Typed
<1>11. ListInv(p)'
  BY <1>1, <1>4, <1>6, <1>7, <1>8, <1>10 DEF ListInv, nr, Present
<1>12. ASSUME NEW q \in Process, q # p PROVE ListInv(q)'
  <2>1. /\ pc'[q] = pc[q] /\ total_metrics'[q] = total_metrics[q]
        /\ live'[q] = live[q] /\ desired_metrics'[q] = desired_metrics[q]
        /\ data'[q] = data[q] /\ torn'[q] = torn[q] /\ file' = file
    BY <1>1, <1>4, <1>12 DEF Typed
  <2> QED BY <2>1 DEF NamesInv, ListInv, Unfilled, Present
<1> QED BY <1>8, <1>9, <1>10, <1>11, <1>12 DEF NamesInv, nr

\* The second reading of p, after which it makes another call.
LEMMA ReadNamesNames ==
  ASSUME NamesInv, NEW p \in Process, NEW failed, ReadNames(p, failed),
         NEW s \in InnerStep \ {"names", "exited", "crashed"},
         pc' = [pc EXCEPT ![p] = s]
  PROVE  /\ \A q \in Process : ListInv(q)'
         /\ desired_metrics' \in [Process -> NameList]
         /\ live' \in [Process -> Nat] /\ data' \in [Process -> DataType]
         /\ pc' \in [Process -> InnerStep] /\ pc'[p] = s
         /\ desired_metrics'[p] = NewNames(p)
         /\ data'[p] = [metrics_nr |-> data[p].metrics_nr,
                        gather_info |-> Values(p, NewNames(p), failed)]
         /\ \A q \in Process : q # p =>
              /\ desired_metrics'[q] = desired_metrics[q] /\ data'[q] = data[q]
              /\ pc'[q] = pc[q]
         /\ Values(p, NewNames(p), failed) \in ValueList
<1> DEFINE list == NewNames(p)
           vals == Values(p, NewNames(p), failed)
           k == Cardinality(NamesRead(p))
           d == [metrics_nr |-> data[p].metrics_nr, gather_info |-> vals]
<1>1. /\ Typed /\ ListInv(p) /\ pc[p] = "names" /\ Present
      /\ total_metrics[p] \in Nat
  BY DEF NamesInv, ReadNames, Typed
<1>2. /\ list \in NameList /\ Len(list) = total_metrics[p]
      /\ Named(list) = NamesRead(p)
      /\ k = Cardinality(Named(list)) /\ k \in Nat
  BY <1>1, NewNamesList, NamedFinite
<1>3. /\ data \in [Process -> DataType] /\ data[p] \in DataType
      /\ data[p].metrics_nr \in Nat /\ data[p].gather_info \in ValueList
  BY <1>1 DEF Typed, DataType
<1>4. vals \in ValueList  BY <1>2, <1>3, compute_metricType DEF Values
<1>5. d \in DataType  BY <1>3, <1>4 DEF DataType
<1>6. data' = [data EXCEPT ![p] = d]
  <2>1. data' = [data EXCEPT ![p].gather_info = vals]  BY DEF ReadNames
  <2>2. [data[p] EXCEPT !.gather_info = vals] = d
    <3> HIDE DEF vals
    <3> QED BY <1>3 DEF DataType
  <2> HIDE DEF vals, d
  <2> QED BY <2>1, <2>2
<1>7. /\ desired_metrics' = [desired_metrics EXCEPT ![p] = list]
      /\ live' = [live EXCEPT ![p] = live[p] + k]
      /\ UNCHANGED <<file, torn, total_metrics>>
  BY DEF ReadNames, fileVars
<1>8. live[p] = 0
  <2>1. Cardinality({}) = 0  BY FS_EmptySet
  <2> QED BY <1>1, <2>1 DEF ListInv
<1> HIDE DEF list, vals, k, d
<1>9. /\ desired_metrics' \in [Process -> NameList]
      /\ live' \in [Process -> Nat] /\ data' \in [Process -> DataType]
      /\ pc' \in [Process -> InnerStep] /\ pc'[p] = s
      /\ desired_metrics'[p] = list /\ live'[p] = k /\ data'[p] = d
  BY <1>1, <1>2, <1>5, <1>6, <1>7, <1>8 DEF Typed
<1>10. ListInv(p)'  BY <1>2, <1>7, <1>9 DEF ListInv
<1>11. ASSUME NEW q \in Process, q # p
       PROVE  /\ desired_metrics'[q] = desired_metrics[q] /\ data'[q] = data[q]
              /\ pc'[q] = pc[q] /\ ListInv(q)'
  <2>1. /\ pc'[q] = pc[q] /\ desired_metrics'[q] = desired_metrics[q]
        /\ live'[q] = live[q] /\ data'[q] = data[q]
    BY <1>1, <1>6, <1>7, <1>11 DEF Typed
  <2>2. ListInv(q)  BY <1>11 DEF NamesInv
  <2>3. ListInv(q)'  BY <1>7, <2>1, <2>2 DEF ListInv, Unfilled, Present
  <2> QED BY <2>1, <2>3
<1> QED BY <1>4, <1>9, <1>10, <1>11 DEF list, vals, d

\* Steps of p that leave all lists alone and end in no reading.
LEMMA ListsKept ==
  ASSUME NamesInv, UNCHANGED <<file, torn, crawlerVars>>,
         NEW p \in Process, NEW s \in InnerStep \ {"names"},
         pc' = [pc EXCEPT ![p] = s], pc[p] # "destroyed",
         s \in {"exited", "crashed"} => torn[p],
         \A q \in Process : q # p => data'[q] = data[q]
  PROVE  /\ \A q \in Process : ListInv(q)'
         /\ pc' \in [Process -> InnerStep] /\ pc'[p] = s
         /\ \A q \in Process : q # p => pc'[q] = pc[q]
<1>1. Typed /\ ListInv(p)  BY DEF NamesInv
<1>2. /\ pc' \in [Process -> InnerStep] /\ pc'[p] = s
      /\ \A q \in Process : q # p => pc'[q] = pc[q]
  BY <1>1 DEF Typed
<1>3. ListInv(p)'  BY <1>1, <1>2 DEF ListInv, crawlerVars
<1>4. ASSUME NEW q \in Process, q # p PROVE ListInv(q)'
  <2>1. /\ ListInv(q) /\ pc'[q] = pc[q] /\ data'[q] = data[q]
        /\ UNCHANGED <<file, torn, total_metrics, desired_metrics, live>>
    BY <1>2, <1>4 DEF NamesInv, crawlerVars
  <2>2. Present' = Present  BY <2>1 DEF Present
  <2> QED BY <2>1, <2>2 DEF ListInv, Unfilled
<1> QED BY <1>2, <1>3, <1>4

\* An edit: it touches what a process has read of the file in this pulse.
LEMMA TouchNames ==
  ASSUME NamesInv, NEW contents \in Files \cup {Empty, Missing}, Touch(contents),
         numbers' \in Seq(Nat)
  PROVE  /\ NamesInv'
         /\ since' = IF pc["leaf"] = "names" THEN counter["leaf"] + 1
                                             ELSE counter["leaf"]
<1>1. /\ Typed /\ file' = contents
      /\ since' = IF pc["leaf"] = "names" THEN counter["leaf"] + 1
                                          ELSE counter["leaf"]
      /\ torn' = [p \in Process |-> torn[p] \/ pc[p] = "names"]
      /\ UNCHANGED <<pc, round, counter, total_metrics, old_nr_of_metrics,
                     desired_metrics, live, data, link, event, merged>>
  BY DEF NamesInv, Touch, crawlerVars, eventVars
<1>2. since' \in Int  BY <1>1 DEF Typed, Process
<1>3. torn' \in [Process -> BOOLEAN]  BY <1>1 DEF Typed
<1>4. Typed'  BY <1>1, <1>2, <1>3 DEF Typed
<1>5. ASSUME NEW p \in Process PROVE ListInv(p)'
  <2>1. torn'[p] = (torn[p] \/ pc[p] = "names")  BY <1>1
  <2> QED BY <1>1, <2>1 DEF NamesInv, ListInv, Unfilled
<1> QED BY <1>1, <1>4, <1>5 DEF NamesInv
-----------------------------------------------------------------------------
(***************************************************************************)
(* The initial states and every action.                                    *)
(***************************************************************************)
\* No name is there before the first reading.
LEMMA InitNames == Init => NamesInv
<1> SUFFICES ASSUME Init PROVE NamesInv  OBVIOUS
<1>1. <<>> \in ValueList /\ <<>> \in NameList /\ Len(<<>>) = 0
      /\ <<>> \in Seq(EventType)
  BY EmptySeq DEF ValueList, NameList
<1>2. file \in Files /\ Present /\ Len(file) \in Nat
  BY CrawlerAssumption, LenProperties DEF Init, Present
<1>3. NoEvent \in EventType  BY <1>1 DEF NoEvent, EventType
<1>4. PICK nr \in Uninitialized :
        /\ data = [leaf  |-> [metrics_nr |-> nr, gather_info |-> <<>>],
                   inner |-> [metrics_nr |-> 0,  gather_info |-> <<>>]]
        /\ numbers = <<nr, Len(file)>>
  BY DEF Init
<1>5. nr \in Nat  BY DEF Uninitialized
<1>6. /\ [metrics_nr |-> nr, gather_info |-> <<>>] \in DataType
      /\ [metrics_nr |-> 0, gather_info |-> <<>>] \in DataType
  BY <1>1, <1>5 DEF DataType
<1>7. data \in [Process -> DataType]
      /\ data["inner"] = [metrics_nr |-> 0, gather_info |-> <<>>]
  <2> DEFINE a == [metrics_nr |-> nr, gather_info |-> <<>>]
             b == [metrics_nr |-> 0, gather_info |-> <<>>]
  <2>1. data = [leaf |-> a, inner |-> b] /\ a \in DataType /\ b \in DataType
    BY <1>4, <1>6
  <2> HIDE DEF a, b
  <2>2. data \in [Process -> DataType] /\ data["inner"] = b
    BY <2>1 DEF Process
  <2> QED BY <2>2 DEF b
<1>8. merged \in [theirs : EventType, own : DataType]
  <2>1. merged = [theirs |-> NoEvent, own |-> data["inner"]] /\ data["inner"] \in DataType
    BY <1>6, <1>7 DEF Init
  <2> QED BY <1>3, <2>1
<1>9. numbers \in Seq(Nat)  BY <1>2, <1>4, <1>5
<1>10. pc \in [Process -> InnerStep] /\ pc["leaf"] = "number" /\ pc["inner"] = "idle"
  BY DEF Init, Process, InnerStep
<1>11. Typed
  BY <1>1, <1>2, <1>3, <1>7, <1>8, <1>9, <1>10 DEF Init, Typed, LeafStep
<1>12. ASSUME NEW p \in Process PROVE ListInv(p)
  <2>1. /\ desired_metrics[p] = <<>> /\ total_metrics[p] = 0 /\ live[p] = 0
        /\ pc[p] \in {"number", "idle"}
    BY <1>10 DEF Init, Process
  <2>2. Named(<<>>) = {}  BY <1>1, NamedFinite
  <2> QED BY <1>1, <2>1, <2>2, FS_EmptySet DEF ListInv
<1> QED BY <1>11, <1>12 DEF NamesInv

\* What a leaf's turn does.
LEMMA start_communicationNames ==
  ASSUME NamesInv, start_communication
  PROVE  /\ NamesInv'
         /\ \E quit \in BOOLEAN, failed \in SUBSET DOMAIN desired_metrics["leaf"],
               e \in EventType :
              /\ MayFail(NewNames("leaf"), failed)
              /\ counter["leaf"] = MaxPulses - 1 => quit
              /\ e.timestamp = counter["leaf"]
              /\ e.update_file = needs_sync("leaf")
              /\ e.gather_info = Values("leaf", NewNames("leaf"), failed)
              /\ link' = Append(link, e)
              /\ pc' = [pc EXCEPT !["leaf"] = IF quit THEN "stopped" ELSE "number"]
         /\ data'["leaf"].metrics_nr = data["leaf"].metrics_nr
<1> DEFINE p == "leaf"
<1>1. Typed /\ p \in Process
  BY DEF NamesInv, Process
<1>2. PICK quit \in BOOLEAN, failed \in SUBSET DOMAIN desired_metrics[p] :
        /\ ReadNames(p, failed)
        /\ counter[p] = MaxPulses - 1 => quit
        /\ link' = Append(link, [timestamp   |-> counter[p],
                                 quit        |-> quit,
                                 update_file |-> needs_sync(p),
                                 metrics_nr  |-> data[p].metrics_nr,
                                 gather_info |-> Values(p, NewNames(p), failed)])
        /\ pc' = [pc EXCEPT ![p] = IF quit THEN "stopped" ELSE "number"]
  BY DEF start_communication
<1>3. PICK s \in InnerStep \ {"names", "exited", "crashed"} :
        /\ s = IF quit THEN "stopped" ELSE "number"
        /\ s \in LeafStep
  BY DEF InnerStep, LeafStep
<1>4. pc' = [pc EXCEPT ![p] = s]  BY <1>2, <1>3
<1>5. /\ \A q \in Process : ListInv(q)'
      /\ desired_metrics' \in [Process -> NameList]
      /\ live' \in [Process -> Nat] /\ data' \in [Process -> DataType]
      /\ pc' \in [Process -> InnerStep] /\ pc'[p] = s
      /\ data'[p] = [metrics_nr |-> data[p].metrics_nr,
                     gather_info |-> Values(p, NewNames(p), failed)]
      /\ Values(p, NewNames(p), failed) \in ValueList
  <2>1. ReadNames(p, failed)  BY <1>2
  <2> QED BY <1>1, <1>3, <1>4, <2>1, ReadNamesNames
<1>6. PICK v \in ValueList : v = Values(p, NewNames(p), failed)  BY <1>5
<1>7. PICK u \in BOOLEAN : u = needs_sync(p)  BY DEF needs_sync
<1>8. PICK nr \in Nat : nr = data[p].metrics_nr
  BY <1>1 DEF Typed, DataType
<1>9. PICK e : e = [timestamp |-> counter[p], quit |-> quit, update_file |-> u,
                    metrics_nr |-> nr, gather_info |-> v]
  OBVIOUS
<1>10. counter[p] \in Nat  BY <1>1 DEF Typed
<1>11. /\ e \in EventType /\ e.timestamp = counter[p] /\ e.update_file = u
       /\ e.gather_info = v
  BY <1>9, <1>10 DEF EventType
<1>12. link' = Append(link, e)  BY <1>2, <1>6, <1>7, <1>8, <1>9
<1>13. /\ counter' = [counter EXCEPT ![p] = counter[p] + 1]
       /\ UNCHANGED <<file, numbers, since, torn, total_metrics,
                      old_nr_of_metrics, round, event, merged>>
       /\ MayFail(NewNames(p), failed)
  BY <1>2 DEF start_communication, ReadNames, fileVars
<1>14. link' \in Seq(EventType)
  BY <1>1, <1>11, <1>12, AppendProperties DEF Typed
<1>15. Typed'
  BY <1>1, <1>3, <1>5, <1>10, <1>13, <1>14, SMTT(20) DEF Typed
<1>16. NamesInv'  BY <1>5, <1>15 DEF NamesInv
<1>17. /\ counter[p] = MaxPulses - 1 => quit
       /\ e.timestamp = counter[p] /\ e.update_file = needs_sync(p)
       /\ e.gather_info = Values(p, NewNames(p), failed) /\ link' = Append(link, e)
       /\ pc' = [pc EXCEPT ![p] = IF quit THEN "stopped" ELSE "number"]
       /\ e \in EventType
  BY <1>2, <1>6, <1>7, <1>11, <1>12
<1>18. data'[p].metrics_nr = data[p].metrics_nr  BY <1>5
<1> QED BY <1>13, <1>16, <1>17, <1>18, Zenon

\* The inner process takes an event.
LEMMA TakeEventNames ==
  ASSUME NamesInv, TakeEvent
  PROVE  /\ NamesInv' /\ link # <<>> /\ event' = Head(link)
         /\ link' = Tail(link) /\ round' = "own"
         /\ pc' = [pc EXCEPT !["inner"] = IF Recomputes(event') THEN Source(event')
                                                                ELSE "submit"]
<1> DEFINE p == "inner"
           s == IF Recomputes(event') THEN Source(event') ELSE "submit"
<1>1. Typed /\ p \in Process /\ p # "leaf"  BY DEF NamesInv, Process
<1>2. s \in {"number", "memory", "submit"}  BY DEF Source
<1>3. /\ pc[p] = "idle" /\ link # <<>> /\ event' = Head(link)
      /\ link' = Tail(link) /\ round' = "own" /\ pc' = [pc EXCEPT ![p] = s]
      /\ UNCHANGED <<file, numbers, since, torn, counter, total_metrics,
                     old_nr_of_metrics, desired_metrics, live, data, merged>>
  BY DEF TakeEvent, fileVars, crawlerVars
<1> HIDE DEF s
<1>4. /\ \A q \in Process : ListInv(q)'
      /\ pc' \in [Process -> InnerStep] /\ pc'["leaf"] = pc["leaf"]
  BY <1>1, <1>2, <1>3, ListsKept DEF InnerStep, Process, crawlerVars
<1>5. event' \in EventType /\ link' \in Seq(EventType)
  BY <1>1, <1>3, HeadTailProperties DEF Typed
<1>6. Typed'  BY <1>1, <1>3, <1>4, <1>5 DEF Typed
<1> QED BY <1>3, <1>4, <1>6 DEF NamesInv, s

\* The inner process fills its own event from the file.
LEMMA FromFileNames == NamesInv /\ FromFile => NamesInv'
<1> SUFFICES ASSUME NamesInv, FromFile PROVE NamesInv'  OBVIOUS
<1> DEFINE p == "inner"
<1>1. Typed /\ p \in Process /\ p # "leaf"
  BY DEF NamesInv, Process
<1>0. PICK failed \in SUBSET DOMAIN desired_metrics[p] : ReadNames(p, failed)
  BY DEF FromFile
<1>2. Filled \in InnerStep \ {"names", "exited", "crashed"}
  BY DEF Filled, InnerStep
<1>3. /\ pc' = [pc EXCEPT ![p] = Filled]
      /\ UNCHANGED <<file, numbers, since, torn, total_metrics,
                     old_nr_of_metrics, round, counter, link, event, merged>>
  BY <1>0 DEF FromFile, ReadNames, fileVars, eventVars
<1>4. /\ \A q \in Process : ListInv(q)'
      /\ desired_metrics' \in [Process -> NameList]
      /\ live' \in [Process -> Nat] /\ data' \in [Process -> DataType]
      /\ pc' \in [Process -> InnerStep] /\ pc'["leaf"] = pc["leaf"]
  BY <1>0, <1>1, <1>2, <1>3, ReadNamesNames DEF Process
<1>5. Typed'  BY <1>1, <1>3, <1>4 DEF Typed
<1> QED BY <1>4, <1>5 DEF NamesInv

\* The inner process fills its own event from the names in memory.
LEMMA FromMemoryNames ==
  ASSUME NamesInv, FromMemory
  PROVE  /\ NamesInv' /\ pc["inner"] = "memory"
         /\ pc' = [pc EXCEPT !["inner"] = Filled]
         /\ \E failed \in SUBSET DOMAIN desired_metrics["inner"] :
              /\ MayFail(desired_metrics["inner"], failed)
              /\ data'["inner"].gather_info
                   = Values("inner", desired_metrics["inner"], failed)
         /\ data'["leaf"] = data["leaf"]
<1> DEFINE p == "inner"
<1>0. PICK failed \in SUBSET DOMAIN desired_metrics[p] :
        /\ MayFail(desired_metrics[p], failed)
        /\ data' = [data EXCEPT ![p] =
                      [metrics_nr  |-> total_metrics[p],
                       gather_info |-> Values(p, desired_metrics[p], failed)]]
  BY DEF FromMemory
<1> DEFINE vals == Values(p, desired_metrics[p], failed)
           d == [metrics_nr |-> total_metrics[p], gather_info |-> vals]
<1>1. /\ Typed /\ p \in Process /\ p # "leaf" /\ "leaf" \in Process
      /\ pc[p] = "memory"
  BY DEF NamesInv, FromMemory, Process
<1>2. Filled \in InnerStep \ {"names", "exited", "crashed"}
  BY DEF Filled, InnerStep
<1>3. /\ pc' = [pc EXCEPT ![p] = Filled] /\ data' = [data EXCEPT ![p] = d]
      /\ UNCHANGED <<file, numbers, since, torn, total_metrics,
                     old_nr_of_metrics, desired_metrics, live, round, counter,
                     link, event, merged>>
  BY <1>0 DEF FromMemory, fileVars, crawlerVars, eventVars
<1>4. /\ desired_metrics[p] \in NameList /\ data[p].gather_info \in ValueList
      /\ total_metrics[p] \in Nat
  BY <1>1 DEF Typed, DataType
<1>5. vals \in ValueList  BY <1>4, compute_metricType DEF Values
<1>6. d \in DataType /\ d.gather_info = vals
  <2> HIDE DEF vals
  <2> QED BY <1>4, <1>5 DEF DataType
<1> HIDE DEF d, vals
<1>7. data' \in [Process -> DataType] /\ data'[p] = d
      /\ \A q \in Process : q # p => data'[q] = data[q]
  BY <1>1, <1>3, <1>6 DEF Typed
<1>8. /\ \A q \in Process : ListInv(q)'
      /\ pc' \in [Process -> InnerStep] /\ pc'["leaf"] = pc["leaf"]
  BY <1>1, <1>2, <1>3, <1>7, ListsKept DEF crawlerVars
<1>9. Typed'  BY <1>1, <1>3, <1>7, <1>8 DEF Typed
<1> QED BY <1>0, <1>1, <1>3, <1>6, <1>7, <1>8, <1>9 DEF NamesInv, vals

\* The inner process submits its own event.
LEMMA SubmitNames ==
  ASSUME NamesInv, Submit
  PROVE  /\ NamesInv' /\ pc["inner"] = "submit"
         /\ merged'.theirs = event /\ merged'.own = data["inner"]
         /\ pc' = [pc EXCEPT !["inner"] = IF event.quit THEN "stopped"
                                                        ELSE NextSource]
<1> DEFINE p == "inner"
           s == IF event.quit THEN "stopped" ELSE NextSource
<1>1. Typed /\ p \in Process /\ p # "leaf" /\ "leaf" \in Process /\ pc[p] = "submit"
  BY DEF NamesInv, Submit, Process
<1>2. s \in {"stopped", "number", "memory"}  BY DEF NextSource, Source
<1>3. /\ pc' = [pc EXCEPT ![p] = s] /\ round' = "next"
      /\ counter' = [counter EXCEPT ![p] = counter[p] + 1]
      /\ merged' = [theirs |-> event, own |-> data[p]]
      /\ UNCHANGED <<file, numbers, since, torn, total_metrics,
                     old_nr_of_metrics, desired_metrics, live, data,
                     link, event>>
  BY DEF Submit, fileVars, crawlerVars
<1> HIDE DEF s
<1>4. /\ \A q \in Process : ListInv(q)'
      /\ pc' \in [Process -> InnerStep] /\ pc'["leaf"] = pc["leaf"]
  BY <1>1, <1>2, <1>3, ListsKept DEF InnerStep, crawlerVars
<1>5. PICK d \in DataType : d = data[p]  BY <1>1 DEF Typed
<1>6. /\ merged' \in [theirs : EventType, own : DataType]
      /\ merged'.theirs = event /\ merged'.own = d
  BY <1>1, <1>3, <1>5 DEF Typed
<1>7. counter' \in [Process -> Nat]  BY <1>1, <1>3 DEF Typed
<1>8. Typed'  BY <1>1, <1>3, <1>4, <1>6, <1>7 DEF Typed
<1> QED BY <1>1, <1>3, <1>4, <1>5, <1>6, <1>8 DEF NamesInv, s

\* A reading that ends the process.
LEMMA DownNames ==
  ASSUME NamesInv, NEW p \in Process, Exit(p) \/ Crash(p)
  PROVE  NamesInv' /\ torn[p] /\ pc[p] = "names"
         /\ \E s \in {"exited", "crashed"} : pc' = [pc EXCEPT ![p] = s]
<1>1. Typed /\ ListInv(p) /\ pc[p] = "names"
      /\ UNCHANGED <<file, numbers, since, torn, total_metrics,
                     old_nr_of_metrics, desired_metrics, live, data, round,
                     counter, link, event, merged>>
  BY DEF NamesInv, Exit, Crash, fileVars, crawlerVars, eventVars
<1>2. PICK s \in {"exited", "crashed"} : pc' = [pc EXCEPT ![p] = s]
  BY DEF Exit, Crash
<1>3. torn[p]
  <2>1. CASE Exit(p)
    BY <1>1, <2>1 DEF Exit, ListInv
  <2>2. CASE Crash(p)
    <3> SUFFICES ASSUME ~torn[p] PROVE FALSE  OBVIOUS
    <3>1. Present /\ Len(file) = total_metrics[p] /\ ReadsNull(NewNames(p), {})
      BY <1>1, <2>2 DEF Crash, ListInv
    <3>2. NewNames(p) = file  BY <1>1, <3>1, NewNamesList
    <3>3. PICK i \in Unsupported(file) : file[i] = NULL
      BY <3>1, <3>2 DEF ReadsNull
    <3>4. i \in DOMAIN file  BY <3>3 DEF Unsupported
    <3> QED BY <1>1, <3>1, <3>3, <3>4, FileIsList
  <2> QED BY <2>1, <2>2
<1>4. /\ \A q \in Process : ListInv(q)'
      /\ pc' \in [Process -> InnerStep] /\ pc'[p] = s
      /\ \A q \in Process : q # p => pc'[q] = pc[q]
  BY <1>1, <1>2, <1>3, ListsKept DEF InnerStep, crawlerVars
<1>5. pc'["leaf"] \in LeafStep
  BY <1>1, <1>2, <1>4 DEF Typed, LeafStep, Process
<1>6. Typed'  BY <1>1, <1>4, <1>5 DEF Typed
<1> QED BY <1>1, <1>2, <1>3, <1>4, <1>6 DEF NamesInv

\* A first reading that ends the process.
LEMMA NoNumberNames ==
  ASSUME NamesInv, NEW p \in Process, NoNumber(p)
  PROVE  NamesInv' /\ pc' = [pc EXCEPT ![p] = "exited"] /\ pc[p] = "number"
<1>1. /\ Typed /\ ListInv(p) /\ pc[p] = "number"
      /\ pc' = [pc EXCEPT ![p] = "exited"]
      /\ torn' = [torn EXCEPT ![p] = TRUE]
      /\ UNCHANGED <<file, numbers, since, total_metrics, old_nr_of_metrics,
                     desired_metrics, live, data, round, counter, link, event,
                     merged>>
  BY DEF NamesInv, NoNumber, fileVars, crawlerVars, eventVars
<1>2. Typed'  BY <1>1 DEF Typed, InnerStep, LeafStep
<1>3. pc'[p] = "exited" /\ torn'[p]  BY <1>1 DEF Typed
<1>4. ListInv(p)'  BY <1>1, <1>3 DEF ListInv
<1>5. ASSUME NEW q \in Process, q # p PROVE ListInv(q)'
  <2>1. pc'[q] = pc[q] /\ torn'[q] = torn[q]  BY <1>1, <1>5 DEF Typed
  <2> QED BY <1>1, <2>1 DEF NamesInv, ListInv, Unfilled, Present
<1> QED BY <1>1, <1>2, <1>4, <1>5 DEF NamesInv

\* The names are freed for good.
LEMMA destroyNames ==
  ASSUME NamesInv, NEW p \in Process, destroy_metrics_aggregator(p)
  PROVE  /\ NamesInv' /\ pc[p] = "stopped"
         /\ pc' = [pc EXCEPT ![p] = "destroyed"]
         /\ old_nr_of_metrics[p] = total_metrics[p] => live'[p] = 0
         /\ \A q \in Process : q # p => /\ live'[q] = live[q]
                                        /\ desired_metrics'[q] = desired_metrics[q]
<1> DEFINE f == Freed(desired_metrics[p], old_nr_of_metrics[p])
<1>1. /\ Typed /\ ListInv(p) /\ pc[p] = "stopped"
      /\ desired_metrics[p] \in NameList /\ old_nr_of_metrics[p] \in Nat
      /\ live[p] \in Nat
      /\ live[p] = Cardinality(Named(desired_metrics[p]))
      /\ Len(desired_metrics[p]) = total_metrics[p]
  BY DEF NamesInv, destroy_metrics_aggregator, Typed, ListInv
<1>2. /\ live' = [live EXCEPT ![p] = live[p] - f]
      /\ desired_metrics' = [desired_metrics EXCEPT ![p] = <<>>]
      /\ pc' = [pc EXCEPT ![p] = "destroyed"]
      /\ UNCHANGED <<file, numbers, since, torn, total_metrics,
                     old_nr_of_metrics, data, round, counter, link, event,
                     merged>>
  BY DEF destroy_metrics_aggregator, fileVars, eventVars
<1>3. live[p] - f \in Nat
  <2>1. f \in Nat /\ f <= Cardinality(Named(desired_metrics[p]))
    BY <1>1, FreedSome
  <2> HIDE DEF f
  <2> QED BY <1>1, <2>1
<1>4. old_nr_of_metrics[p] = total_metrics[p] => live[p] - f = 0
  BY <1>1, FreedAll
<1>5. <<>> \in NameList  BY EmptySeq DEF NameList
<1> HIDE DEF f
<1>6. Typed'
  BY <1>1, <1>2, <1>3, <1>5 DEF Typed, InnerStep, LeafStep
<1>7. /\ pc'[p] = "destroyed" /\ live'[p] = live[p] - f
      /\ \A q \in Process : q # p =>
           /\ pc'[q] = pc[q] /\ live'[q] = live[q]
           /\ desired_metrics'[q] = desired_metrics[q]
  BY <1>1, <1>2 DEF Typed
<1>8. \A q \in Process : ListInv(q)'
  BY <1>2, <1>7 DEF NamesInv, ListInv, Unfilled, Present
<1> QED BY <1>1, <1>2, <1>4, <1>6, <1>7, <1>8 DEF NamesInv

\* NamesInv is inductive.
LEMMA NamesKeptUp == NamesInv /\ [Next]_vars => NamesInv'
<1> SUFFICES ASSUME NamesInv, [Next]_vars PROVE NamesInv'  OBVIOUS
<1>1. CASE Truncate \/ Remove
  <2>1. numbers' \in Seq(Nat)
    BY <1>1 DEF Truncate, Remove, NamesInv, Typed
  <2> QED BY <1>1, <2>1, TouchNames DEF Truncate, Remove
<1>2. CASE Write
  <2>1. PICK names \in Files : Touch(names) /\ numbers' = Append(numbers, Len(names))
    BY <1>2 DEF Write
  <2>2. Len(names) \in Nat /\ numbers \in Seq(Nat)
    BY CrawlerAssumption, LenProperties DEF NamesInv, Typed
  <2>3. numbers' \in Seq(Nat)  BY <2>1, <2>2, AppendProperties
  <2> QED BY <2>1, <2>3, TouchNames
<1>3. ASSUME NEW p \in Process, initialize_metrics_crawler_number_from_file(p)
      PROVE  NamesInv'
  BY <1>3, NumberNames
<1>4. ASSUME NEW p \in Process, NoNumber(p) \/ Exit(p) \/ Crash(p)
      PROVE  NamesInv'
  BY <1>4, NoNumberNames, DownNames
<1>5. ASSUME NEW p \in Process, destroy_metrics_aggregator(p) PROVE NamesInv'
  BY <1>5, destroyNames
<1>6. CASE start_communication  BY <1>6, start_communicationNames
<1>7. CASE TakeEvent  BY <1>7, TakeEventNames
<1>8. CASE FromFile  BY <1>8, FromFileNames
<1>9. CASE FromMemory  BY <1>9, FromMemoryNames
<1>10. CASE Submit  BY <1>10, SubmitNames
<1>11. CASE UNCHANGED vars
  <2>1. UNCHANGED <<file, numbers, since, torn, pc, round, counter, total_metrics,
                    old_nr_of_metrics, desired_metrics, live, data, link, event,
                    merged>>
    BY <1>11 DEF vars, fileVars, crawlerVars, eventVars
  <2>2. Typed'  BY <2>1 DEF NamesInv, Typed
  <2>3. \A p \in Process : ListInv(p)'
    BY <2>1 DEF NamesInv, ListInv, Unfilled, Present
  <2> QED BY <2>2, <2>3 DEF NamesInv
<1> QED BY <1>1, <1>2, <1>3, <1>4, <1>5, <1>6, <1>7, <1>8, <1>9, <1>10, <1>11
        DEF Next

(***************************************************************************)
(* Names are neither lost nor freed twice: for every process, file and     *)
(* number of edits, the copies not freed are those in desired_metrics.     *)
(***************************************************************************)
THEOREM NamesKeptCorrect == Spec => []NamesKept
<1>1. NamesInv => NamesKept  BY DEF NamesInv, ListInv, NamesKept
<1> QED BY <1>1, InitNames, NamesKeptUp, PTL DEF Spec

(***************************************************************************)
(* A process goes down in a reading only if an edit fell into its pulse:   *)
(* else both readings found the same file, and all names are there.        *)
(***************************************************************************)
THEOREM DownOnlyIfTornCorrect == Spec => []DownOnlyIfTorn
<1>1. NamesInv => DownOnlyIfTorn  BY DEF NamesInv, ListInv, DownOnlyIfTorn
<1> QED BY <1>1, InitNames, NamesKeptUp, PTL DEF Spec
-----------------------------------------------------------------------------
(***************************************************************************)
(* Which pulse each process is in, and which events are on their way.      *)
(***************************************************************************)
\* The last pulse for which the leaf has opened the file.
Begun == IF pc["leaf"] \in {"names", "exited", "crashed"} THEN counter["leaf"]
                                                          ELSE counter["leaf"] - 1

\* The inner process has an event that it has not merged yet.
Handling == /\ pc["inner"] \in {"number", "names", "memory", "submit",
                                "exited", "crashed"}
            /\ round = "own"

OrderInv ==
  /\ \A i \in 1 .. Len(link) :
       link[i].timestamp = counter["leaf"] - Len(link) + i - 1
  /\ counter["inner"] + Len(link) + (IF Handling THEN 1 ELSE 0) = counter["leaf"]
  /\ event.timestamp = counter["inner"] - (IF Handling THEN 0 ELSE 1)
  /\ pc["inner"] = "submit" => round = "own"
  /\ merged.theirs.timestamp < counter["inner"]
  /\ counter["leaf"] <= MaxPulses
  /\ pc["leaf"] \notin {"stopped", "destroyed"} => counter["leaf"] < MaxPulses
  /\ -1 <= since /\ since <= Begun + 1

\* The types of what OrderInv counts.
LEMMA OrderTypes ==
  ASSUME Typed
  PROVE  /\ "leaf" \in Process /\ "inner" \in Process
         /\ counter["leaf"] \in Nat /\ counter["inner"] \in Nat
         /\ Len(link) \in Nat /\ link \in Seq(EventType)
         /\ event.timestamp \in Int /\ since \in Int /\ Begun \in Int
         /\ merged.theirs \in EventType /\ merged.theirs.timestamp \in Int
         /\ MaxPulses \in Nat \ {0}
<1>1. "leaf" \in Process /\ "inner" \in Process  BY DEF Process
<1>2. counter["leaf"] \in Nat /\ counter["inner"] \in Nat
  BY <1>1 DEF Typed
<1>3. Len(link) \in Nat /\ link \in Seq(EventType)
  BY LenProperties DEF Typed
<1>4. event \in EventType /\ merged.theirs \in EventType  BY DEF Typed
<1>5. event.timestamp \in Int /\ merged.theirs.timestamp \in Int
  BY <1>4 DEF EventType
<1> QED BY <1>1, <1>2, <1>3, <1>4, <1>5, CrawlerAssumption DEF Typed, Begun

\* Steps that neither begin nor end a pulse.
LEMMA OrderSame ==
  ASSUME Typed, OrderInv, UNCHANGED <<counter, link, event, merged>>,
         Handling' = Handling, -1 <= since', since' <= Begun' + 1,
         pc'["inner"] = "submit" => round' = "own",
         pc["leaf"] \in {"stopped", "destroyed"}
           <=> pc'["leaf"] \in {"stopped", "destroyed"}
  PROVE  OrderInv'
BY DEF OrderInv

\* OrderInv is inductive, given NamesInv.
LEMMA OrderKept == NamesInv /\ NamesInv' /\ OrderInv /\ [Next]_vars => OrderInv'
<1> SUFFICES ASSUME NamesInv, NamesInv', OrderInv, [Next]_vars
             PROVE  OrderInv'
  OBVIOUS
<1>1. /\ Typed /\ Typed' /\ "leaf" \in Process /\ "inner" \in Process
      /\ counter["leaf"] \in Nat /\ counter["inner"] \in Nat
      /\ Len(link) \in Nat /\ link \in Seq(EventType)
      /\ event.timestamp \in Int /\ since \in Int /\ Begun \in Int
      /\ MaxPulses \in Nat /\ pc \in [Process -> InnerStep]
  BY OrderTypes DEF NamesInv, Typed
<1>2. ASSUME NEW contents, Touch(contents) PROVE OrderInv'
  <2>1. /\ UNCHANGED <<pc, round, counter, link, event, merged>>
        /\ since' = IF pc["leaf"] = "names" THEN counter["leaf"] + 1
                                            ELSE counter["leaf"]
    BY <1>2 DEF Touch, eventVars
  <2>2. -1 <= since' /\ since' <= Begun' + 1  BY <1>1, <2>1 DEF Begun
  <2>3. Handling' = Handling  BY <2>1 DEF Handling
  <2> QED BY <1>1, <2>1, <2>2, <2>3, OrderSame DEF OrderInv
<1>3. ASSUME NEW p \in Process, initialize_metrics_crawler_number_from_file(p)
      PROVE  OrderInv'
  <2>1. /\ pc[p] = "number" /\ pc' = [pc EXCEPT ![p] = "names"]
        /\ UNCHANGED <<since, round, counter, link, event, merged>>
    BY <1>3 DEF initialize_metrics_crawler_number_from_file, fileVars, eventVars
  <2>2. pc'[p] = "names" /\ \A q \in Process : q # p => pc'[q] = pc[q]
    BY <1>1, <2>1
  <2>3. Handling' = Handling
    BY <1>1, <2>1, <2>2, Zenon DEF Handling
  <2>4. -1 <= since' /\ since' <= Begun' + 1
    BY <1>1, <2>1, <2>2 DEF OrderInv, Begun
  <2> QED BY <1>1, <2>1, <2>2, <2>3, <2>4, OrderSame DEF OrderInv
<1>4. ASSUME NEW p \in Process, NoNumber(p) \/ Exit(p) \/ Crash(p)
      PROVE  OrderInv'
  <2>1. /\ pc[p] \in {"number", "names"}
        /\ UNCHANGED <<since, round, counter, link, event, merged>>
    BY <1>4 DEF NoNumber, Exit, Crash, fileVars, eventVars
  <2>2. PICK s \in {"exited", "crashed"} : pc' = [pc EXCEPT ![p] = s]
    BY <1>4 DEF NoNumber, Exit, Crash
  <2>3. pc'[p] = s /\ \A q \in Process : q # p => pc'[q] = pc[q]
    BY <1>1, <2>2
  <2>4. Handling' = Handling
    BY <1>1, <2>1, <2>2, <2>3, Zenon DEF Handling
  <2>5. -1 <= since' /\ since' <= Begun' + 1
    BY <1>1, <2>1, <2>2, <2>3 DEF OrderInv, Begun
  <2> QED BY <1>1, <2>1, <2>2, <2>3, <2>4, <2>5, OrderSame DEF OrderInv
<1>5. ASSUME NEW p \in Process, destroy_metrics_aggregator(p) PROVE OrderInv'
  <2>1. /\ pc[p] = "stopped" /\ pc' = [pc EXCEPT ![p] = "destroyed"]
        /\ UNCHANGED <<since, round, counter, link, event, merged>>
    BY <1>5 DEF destroy_metrics_aggregator, fileVars, eventVars
  <2>2. pc'[p] = "destroyed" /\ \A q \in Process : q # p => pc'[q] = pc[q]
    BY <1>1, <2>1
  <2>3. Handling' = Handling
    BY <1>1, <2>1, <2>2, Zenon DEF Handling
  <2>4. -1 <= since' /\ since' <= Begun' + 1
    BY <1>1, <2>1, <2>2 DEF OrderInv, Begun
  <2> QED BY <1>1, <2>1, <2>2, <2>3, <2>4, OrderSame DEF OrderInv
<1>6. CASE start_communication
  <2>1. PICK quit \in BOOLEAN, e \in EventType :
          /\ counter["leaf"] = MaxPulses - 1 => quit
          /\ e.timestamp = counter["leaf"] /\ link' = Append(link, e)
          /\ pc' = [pc EXCEPT !["leaf"] = IF quit THEN "stopped" ELSE "number"]
    BY <1>6, start_communicationNames
  <2>2. /\ counter' = [counter EXCEPT !["leaf"] = counter["leaf"] + 1]
        /\ pc["leaf"] = "names" /\ UNCHANGED <<since, round, event, merged>>
    BY <1>6 DEF start_communication, ReadNames, fileVars
  <2>3. /\ pc'["leaf"] = (IF quit THEN "stopped" ELSE "number")
        /\ pc'["inner"] = pc["inner"]
        /\ counter'["leaf"] = counter["leaf"] + 1
        /\ counter'["inner"] = counter["inner"]
    BY <1>1, <2>1, <2>2 DEF Typed
  <2>4. /\ Len(link') = Len(link) + 1 /\ link'[Len(link) + 1] = e
        /\ \A i \in 1 .. Len(link) : link'[i] = link[i]
    BY <1>1, <2>1, AppendProperties
  <2>5. \A i \in 1 .. Len(link') :
          link'[i].timestamp = counter'["leaf"] - Len(link') + i - 1
    <3> SUFFICES ASSUME NEW i \in 1 .. Len(link) + 1
                 PROVE  link'[i].timestamp = counter["leaf"] - Len(link) + i - 1
      BY <1>1, <2>3, <2>4
    <3>1. CASE i = Len(link) + 1  BY <1>1, <2>1, <2>4, <3>1
    <3>2. CASE i # Len(link) + 1
      <4>1. i \in 1 .. Len(link)  BY <1>1, <3>2
      <4> QED BY <2>4, <4>1 DEF OrderInv
    <3> QED BY <3>1, <3>2
  <2>6. Handling' = Handling  BY <2>2, <2>3 DEF Handling
  <2>7. Begun' = Begun  BY <1>1, <2>2, <2>3 DEF Begun
  <2>8. /\ counter["inner"] + Len(link') + (IF Handling THEN 1 ELSE 0)
              = counter["leaf"] + 1
        /\ counter["leaf"] + 1 <= MaxPulses
        /\ pc'["leaf"] # "stopped" => counter["leaf"] + 1 < MaxPulses
    <3>1. counter["leaf"] < MaxPulses  BY <2>2 DEF OrderInv
    <3>2. counter["leaf"] + 1 <= MaxPulses  BY <1>1, <3>1
    <3>3. ASSUME pc'["leaf"] # "stopped" PROVE counter["leaf"] + 1 < MaxPulses
      <4>1. ~quit  BY <2>3, <3>3
      <4>2. counter["leaf"] # MaxPulses - 1  BY <2>1, <4>1
      <4> QED BY <1>1, <3>1, <4>2
    <3>4. counter["inner"] + Len(link') + (IF Handling THEN 1 ELSE 0)
            = counter["leaf"] + 1
      <4>1. counter["inner"] + Len(link) + (IF Handling THEN 1 ELSE 0)
              = counter["leaf"]
        BY DEF OrderInv
      <4>2. PICK k \in 0 .. 1 : k = IF Handling THEN 1 ELSE 0  OBVIOUS
      <4>3. counter["inner"] + (Len(link) + 1) + k = counter["leaf"] + 1
        BY <1>1, <4>1, <4>2, SMTT(20)
      <4> QED BY <2>4, <4>2, <4>3
    <3> QED BY <3>2, <3>3, <3>4
  <2> QED BY <2>2, <2>3, <2>5, <2>6, <2>7, <2>8 DEF OrderInv
<1>7. CASE TakeEvent
  <2>1. /\ link # <<>> /\ event' = Head(link) /\ link' = Tail(link)
        /\ pc["inner"] = "idle" /\ round' = "own"
        /\ UNCHANGED <<since, counter, merged>>
    BY <1>7 DEF TakeEvent, fileVars
  <2>2. /\ pc'["inner"] \in {"number", "memory", "submit"}
        /\ pc'["leaf"] = pc["leaf"]
    BY <1>1, <1>7, TakeEventNames DEF Source
  <2>3. /\ Len(link') = Len(link) - 1 /\ event' = link[1]
        /\ \A i \in 1 .. Len(link') : link'[i] = link[i + 1]
        /\ Len(link) >= 1
    BY <1>1, <2>1, HeadTailProperties, EmptySeq
  <2>4. Handling' /\ ~Handling  BY <2>1, <2>2 DEF Handling
  <2>5. event'.timestamp = counter["inner"]
    BY <1>1, <2>3, <2>4 DEF OrderInv
  <2>6. \A i \in 1 .. Len(link') :
          link'[i].timestamp = counter["leaf"] - Len(link') + i - 1
    <3> SUFFICES ASSUME NEW i \in 1 .. Len(link) - 1
                 PROVE  link[i + 1].timestamp
                          = counter["leaf"] - (Len(link) - 1) + i - 1
      BY <1>1, <2>3
    <3>1. i + 1 \in 1 .. Len(link)  BY <1>1
    <3>2. link[i + 1].timestamp = counter["leaf"] - Len(link) + (i + 1) - 1
      BY <3>1 DEF OrderInv
    <3>3. PICK l \in Nat, c \in Nat : l = Len(link) /\ c = counter["leaf"]
      BY <1>1
    <3>4. i \in Int  BY <3>1
    <3>5. c - l + (i + 1) - 1 = c - (l - 1) + i - 1  BY <3>4
    <3> QED BY <3>2, <3>3, <3>5
  <2>7. counter["inner"] + Len(link') + 1 = counter["leaf"]
    BY <1>1, <2>3, <2>4 DEF OrderInv
  <2>8. event'.timestamp = counter["inner"] - 0  BY <1>1, <2>5
  <2>9. Begun' = Begun  BY <2>1, <2>2 DEF Begun
  <2> QED BY <2>1, <2>2, <2>4, <2>6, <2>7, <2>8, <2>9 DEF OrderInv
<1>8. CASE FromFile \/ FromMemory
  <2>1. /\ pc["inner"] \in {"names", "memory"}
        /\ pc' = [pc EXCEPT !["inner"] = Filled]
        /\ UNCHANGED <<since, round, counter, link, event, merged>>
    BY <1>8 DEF FromFile, ReadNames, FromMemory, fileVars, eventVars
  <2>2. pc'["inner"] = Filled /\ pc'["leaf"] = pc["leaf"]
    BY <1>1, <2>1
  <2>3. Handling' = Handling /\ (pc'["inner"] = "submit" => round' = "own")
    BY <1>1, <2>1, <2>2 DEF Handling, Filled, Typed
  <2>4. Begun' = Begun  BY <2>1, <2>2 DEF Begun
  <2> QED BY <1>1, <2>1, <2>2, <2>3, <2>4, OrderSame DEF OrderInv
<1>9. CASE Submit
  <2>1. /\ counter' = [counter EXCEPT !["inner"] = counter["inner"] + 1]
        /\ round' = "next" /\ pc["inner"] = "submit"
        /\ UNCHANGED <<since, link, event>>
        /\ merged'.theirs = event
        /\ pc' = [pc EXCEPT !["inner"] = IF event.quit THEN "stopped"
                                                       ELSE NextSource]
    BY <1>9, SubmitNames DEF Submit, fileVars
  <2>2. /\ pc'["leaf"] = pc["leaf"] /\ counter'["leaf"] = counter["leaf"]
        /\ counter'["inner"] = counter["inner"] + 1
        /\ pc'["inner"] # "submit"
    BY <1>1, <2>1 DEF Typed, NextSource, Source
  <2>3. Handling /\ ~Handling'  BY <2>1 DEF OrderInv, Handling
  <2>4. Begun' = Begun  BY <2>2 DEF Begun
  <2>5. /\ counter'["inner"] + Len(link) + 0 = counter["leaf"]
        /\ event.timestamp = counter'["inner"] - 1
        /\ event.timestamp < counter'["inner"]
    BY <1>1, <2>2, <2>3 DEF OrderInv
  <2> QED BY <2>1, <2>2, <2>3, <2>4, <2>5 DEF OrderInv
<1>10. CASE UNCHANGED vars
  <2>1. UNCHANGED <<since, pc, round, counter, link, event, merged>>
    BY <1>10 DEF vars, fileVars, eventVars
  <2>2. Handling' = Handling /\ Begun' = Begun  BY <2>1 DEF Handling, Begun
  <2> QED BY <2>1, <2>2 DEF OrderInv
<1> QED BY <1>2, <1>3, <1>4, <1>5, <1>6, <1>7, <1>8, <1>9, <1>10
        DEF Next, Edit, Truncate, Remove, Write

\* OrderInv holds at the start.
LEMMA InitOrder == Init => OrderInv
<1> SUFFICES ASSUME Init PROVE OrderInv  OBVIOUS
<1>1. /\ link = <<>> /\ event = NoEvent /\ since = -1 /\ round = "own"
      /\ pc["leaf"] = "number" /\ pc["inner"] = "idle"
      /\ counter["leaf"] = 0 /\ counter["inner"] = 0
      /\ merged.theirs = NoEvent
  BY DEF Init, Process
<1>2. Len(link) = 0 /\ MaxPulses \in Nat \ {0}
  BY <1>1, EmptySeq, CrawlerAssumption
<1>3. ~Handling /\ Begun = -1  BY <1>1 DEF Handling, Begun
<1>4. event.timestamp = -1 /\ merged.theirs.timestamp = -1
  BY <1>1 DEF NoEvent
<1> QED BY <1>1, <1>2, <1>3, <1>4 DEF OrderInv

CountInv == NamesInv /\ OrderInv

\* The types, lists and counts hold throughout.
LEMMA CountHolds == Spec => []CountInv
<1>1. Init => CountInv  BY InitNames, InitOrder DEF CountInv
<1>2. CountInv /\ [Next]_vars => CountInv'
  BY NamesKeptUp, OrderKept DEF CountInv
<1> QED BY <1>1, <1>2, PTL DEF Spec

(***************************************************************************)
(* The types, among them the order of the leaf's events: the inner process *)
(* has never counted further than the leaf, so that the timestamps of both *)
(* stay within the leaf's pulses.                                          *)
(***************************************************************************)
THEOREM CrawlerTypeCorrect == Spec => []TypeOK
<1>1. CountInv => TypeOK
  <2> SUFFICES ASSUME CountInv PROVE TypeOK  OBVIOUS
  <2>1. /\ Typed /\ OrderInv /\ "leaf" \in Process /\ "inner" \in Process
        /\ counter["leaf"] \in Nat /\ counter["inner"] \in Nat
        /\ Len(link) \in Nat /\ link \in Seq(EventType)
        /\ since \in Int /\ MaxPulses \in Nat \ {0}
    BY OrderTypes DEF CountInv, NamesInv
  <2>2. PICK k \in 0 .. 1 : k = IF Handling THEN 1 ELSE 0  OBVIOUS
  <2>3. counter["inner"] + Len(link) + k = counter["leaf"]
    BY <2>1, <2>2 DEF OrderInv
  <2>4. counter["leaf"] <= MaxPulses  BY <2>1 DEF OrderInv
  <2>5. counter["inner"] <= MaxPulses  BY <2>1, <2>3, <2>4
  <2>6. counter \in [Process -> 0 .. MaxPulses]
    BY <2>1, <2>4, <2>5 DEF Typed, Process
  <2>7. since \in -1 .. MaxPulses
    <3>1. -1 <= since /\ since <= Begun + 1  BY <2>1 DEF OrderInv
    <3>2. Begun + 1 <= MaxPulses
      <4>1. CASE pc["leaf"] \in {"names", "exited", "crashed"}
        <5>1. counter["leaf"] < MaxPulses  BY <2>1, <4>1 DEF OrderInv
        <5> QED BY <2>1, <4>1, <5>1 DEF Begun
      <4>2. CASE pc["leaf"] \notin {"names", "exited", "crashed"}
        BY <2>1, <2>4, <4>2 DEF Begun
      <4> QED BY <4>1, <4>2
    <3> QED BY <2>1, <3>1, <3>2, OrderTypes
  <2>8. ASSUME NEW i \in DOMAIN link
        PROVE  /\ link[i].timestamp \in 0 .. MaxPulses - 1
               /\ link[i].gather_info \in ValueList
    <3>1. i \in 1 .. Len(link)  BY <2>1, LenProperties
    <3>2. link[i] \in EventType  BY <2>1, <3>1, ElementOfSeq
    <3>3. link[i].timestamp = counter["leaf"] - Len(link) + i - 1
      BY <2>1, <3>1 DEF OrderInv
    <3>4. link[i].timestamp \in 0 .. MaxPulses - 1
      <4>1. PICK t \in Int : t = link[i].timestamp  BY <3>2 DEF EventType
      <4>2. i \in Int /\ 1 <= i /\ i <= Len(link)  BY <2>1, <3>1
      <4>3. t <= MaxPulses - 1  BY <2>1, <2>4, <3>3, <4>1, <4>2
      <4>4. counter["leaf"] - Len(link) >= 0  BY <2>1, <2>2, <2>3
      <4>5. 0 <= t  BY <2>1, <3>3, <4>1, <4>2, <4>4
      <4> QED BY <2>1, <4>1, <4>3, <4>5
    <3> QED BY <3>2, <3>4 DEF EventType
  <2>9. ASSUME NEW p \in Process
        PROVE  /\ total_metrics[p] \in Nat /\ old_nr_of_metrics[p] \in Nat
               /\ live[p] \in Nat /\ desired_metrics[p] \in NameList
               /\ data[p].gather_info \in ValueList
    BY <2>1 DEF Typed, DataType
  <2>10. /\ pc["leaf"] \in LeafStep /\ pc["inner"] \in InnerStep
    BY <2>1 DEF Typed
  <2> QED BY <2>1, <2>6, <2>7, <2>8, <2>9, <2>10
          DEF TypeOK, Typed, LeafStep, InnerStep
<1> QED BY <1>1, CountHolds, PTL
-----------------------------------------------------------------------------
(***************************************************************************)
(* What the processes know of the file.  After an edit First is the first  *)
(* pulse the leaf begins; lists of ever new lengths let it notice the edit *)
(* in this pulse, and its event then makes its parent read the file twice. *)
(* A list without names is noticed by nobody: the loop over the names is   *)
(* what sets update_file.                                                  *)
(***************************************************************************)
First == IF since < 0 THEN 0 ELSE since

\* The last of numbers is the length of the file.  With a truncated file no
\* pulse ends.
EditInv ==
  /\ Len(numbers) >= 2
  /\ Present => numbers[Len(numbers)] = Len(file)
  /\ ~Present => counter["leaf"] <= since

\* The leaf's metrics_nr was in the file, before the last edit if the leaf
\* has not begun a pulse since.
Known(j) ==
  /\ data["leaf"].metrics_nr = numbers[j]
  /\ Present /\ Begun < First => j < Len(numbers)

LeafInv ==
  /\ \E j \in 1 .. Len(numbers) : Known(j)
  /\ pc["leaf"] \notin {"exited", "crashed"} =>
       total_metrics["leaf"] = IF Begun < 0 THEN 0 ELSE data["leaf"].metrics_nr
  /\ Present /\ pc["leaf"] \notin {"exited", "crashed"} =>
       /\ pc["leaf"] = "names" /\ Begun >= First => file \notin Unnumbered
       /\ Begun >= First => total_metrics["leaf"] = Len(file)
       /\ Begun > First => old_nr_of_metrics["leaf"] = Len(file)
       /\ pc["leaf"] = "names" /\ Begun = First /\ AllLengthsNew =>
            old_nr_of_metrics["leaf"] # Len(file)

\* An event begun after the last edit has the values of the file, and the
\* first of them says so.
SentWell(e) ==
  e.timestamp >= First =>
    /\ Exact(e.gather_info, file)
    /\ AllLengthsNew /\ e.timestamp = First => e.update_file

SentInv == /\ \A i \in 1 .. Len(link) : SentWell(link[i])
           /\ SentWell(event)

\* The inner process has the names and the values of the file.
NamesExact == /\ desired_metrics["inner"] = file
         /\ Exact(data["inner"].gather_info, file)
         /\ total_metrics["inner"] = Len(file)

Filling == pc["inner"] \in {"submit", "memory", "idle", "stopped"}

\* It has read the file before.
Again == round = "next" \/ event.timestamp > First

\* It has read the file at least twice.
Twice == pc["inner"] \in {"memory", "idle"} \/ event.timestamp > First

InnerExact ==
  /\ Filling => NamesExact
  /\ pc["inner"] = "names" => total_metrics["inner"] = Len(file)
  /\ pc["inner"] = "number" /\ Again => total_metrics["inner"] = Len(file)
  /\ pc["inner"] = "names" /\ Again => old_nr_of_metrics["inner"] = Len(file)
  /\ (Filling \/ pc["inner"] = "destroyed") /\ Twice =>
       old_nr_of_metrics["inner"] = total_metrics["inner"]
  /\ pc["inner"] = "memory" => event.timestamp > First

InnerInv == AllLengthsNew /\ event.timestamp >= First => InnerExact

MergedInv == AllLengthsNew /\ merged.theirs.timestamp >= First => MergedExactly

LeafEnded == pc["leaf"] \in {"stopped", "destroyed"}

\* The event with quit is the leaf's last.
QuitInv ==
  /\ \A i \in 1 .. Len(link) : link[i].quit => i = Len(link) /\ LeafEnded
  /\ event.quit => link = <<>> /\ LeafEnded
  /\ pc["inner"] \in {"stopped", "destroyed"} => event.quit

FreedInv ==
  \A p \in Process :
    pc[p] = "destroyed" /\ old_nr_of_metrics[p] = total_metrics[p] => live[p] = 0

ExactInv == EditInv /\ LeafInv /\ SentInv /\ InnerInv /\ MergedInv
            /\ QuitInv /\ FreedInv
-----------------------------------------------------------------------------
\* An edit, and only an edit, changes what First and Expected speak about.
LEMMA FileSame ==
  ASSUME UNCHANGED <<file, numbers, since>>
  PROVE  First' = First /\ AllLengthsNew' = AllLengthsNew
BY DEF First, AllLengthsNew

\* Measuring the names of the file fills a list of values that is unfilled
\* or has these values already.
LEMMA Measures ==
  ASSUME NEW names \in Seq(Name), NEW values \in ValueList,
         Unfilled(values) \/ Exact(values, names), Len(values) = Len(names),
         NEW failed \in SUBSET DOMAIN names, MayFail(names, failed)
  PROVE  Exact(compute_metric(names, values, failed), names)
<1> DEFINE v == compute_metric(names, values, failed)
           \* What entry i may be.
           Fit(x, i) == \/ x = Expected(names)[i]
                        \/ x = Garbage /\ \E j \in 1 .. i : names[j] \in PAPI
<1>1. /\ Len(names) \in Nat /\ DOMAIN names = 1 .. Len(names)
      /\ DOMAIN values = 1 .. Len(names)
  BY LenProperties DEF ValueList
<1>2. names \in NameList /\ Len(v) = Len(names)
  <2>1. names \in NameList
    <3>1. \A i \in 1 .. Len(names) : names[i] \in Name \cup {NULL}
      BY ElementOfSeq
    <3>2. names \in [1 .. Len(names) -> Name \cup {NULL}]
      BY <1>1, <3>1, LenProperties
    <3> QED BY <1>1, <3>2, FunctionIsList DEF NameList
  <2> QED BY <2>1, compute_metricType
<1>3. ASSUME NEW i \in 1 .. Len(names), i \in Measured(names, failed)
      PROVE  Expected(names)[i] = names[i]
  <2>1. ASSUME NEW j \in 1 .. i PROVE names[j] \in callbacks \cup PAPI
    <3>1. j \in DOMAIN names /\ ~(i < j)  BY <1>1
    <3>2. j \notin Unsupported(names)  BY <1>3, <3>1 DEF Measured
    <3> QED BY <3>1, <3>2 DEF Unsupported, get_value
  <2> QED BY <1>1, <2>1 DEF Expected
<1>4. ASSUME NEW i \in 1 .. Len(names), i \notin Measured(names, failed),
             Unfilled(values)
      PROVE  Fit(Garbage, i)
  <2>1. PICK j \in Unsupported(names) \cup failed : ~(i < j)
    BY <1>1, <1>4 DEF Measured
  <2>2. j \in 1 .. i  BY <1>1, <2>1 DEF Unsupported
  <2>3. CASE j \in failed
    <3>1. names[j] \in PAPI  BY <2>3 DEF MayFail
    <3> QED BY <2>2, <3>1
  <2>4. CASE j \in Unsupported(names)
    <3>1. names[j] \notin callbacks \cup PAPI
      BY <2>4 DEF Unsupported, get_value
    <3> QED BY <1>1, <2>2, <3>1 DEF Expected
  <2> QED BY <2>1, <2>3, <2>4
<1>5. ASSUME NEW i \in 1 .. Len(names) PROVE Fit(v[i], i)
  <2>1. v[i] = IF i \in Measured(names, failed) THEN names[i] ELSE values[i]
    BY <1>1 DEF compute_metric
  <2>2. CASE i \in Measured(names, failed)  BY <1>3, <2>1, <2>2
  <2>3. CASE i \notin Measured(names, failed) /\ Unfilled(values)
    <3>1. values[i] = Garbage  BY <1>1, <2>3 DEF Unfilled
    <3> QED BY <1>4, <2>1, <2>3, <3>1
  <2>4. CASE i \notin Measured(names, failed) /\ Exact(values, names)
    BY <1>1, <2>1, <2>4 DEF Exact
  <2> QED BY <2>2, <2>3, <2>4
<1> QED BY <1>1, <1>2, <1>5 DEF Exact

\* The second reading of the file whose number the first has read.
LEMMA ReadingExact ==
  ASSUME NamesInv, NEW p \in Process, pc[p] = "names", Present,
         total_metrics[p] = Len(file),
         NEW failed \in SUBSET DOMAIN desired_metrics[p],
         MayFail(NewNames(p), failed)
  PROVE  NewNames(p) = file /\ Exact(Values(p, NewNames(p), failed), file)
<1>1. NewNames(p) = file /\ file \in Seq(Name)
  BY NewNamesList, FileIsList DEF NamesInv
<1>2. data[p].gather_info \in ValueList  BY DEF NamesInv, Typed, DataType
<1>3. /\ Unfilled(data[p].gather_info)
      /\ Len(data[p].gather_info) = Len(file)
  BY DEF NamesInv, ListInv
<1>4. DOMAIN desired_metrics[p] = DOMAIN file
  <2>1. /\ desired_metrics[p] \in NameList
        /\ Len(desired_metrics[p]) = Len(file)
    BY DEF NamesInv, Typed, ListInv
  <2> QED BY <2>1, NamedFinite, FileIsList DEF NamesInv
<1> QED BY <1>1, <1>2, <1>3, <1>4, Measures DEF Values

\* All events begun so far are older than the leaf's next.
LEMMA Earlier ==
  ASSUME Typed, OrderInv
  PROVE  /\ \A i \in 1 .. Len(link) : link[i].timestamp < counter["leaf"]
         /\ event.timestamp < counter["leaf"]
         /\ merged.theirs.timestamp < counter["leaf"]
         /\ counter["inner"] <= counter["leaf"]
<1>1. /\ counter["leaf"] \in Nat /\ counter["inner"] \in Nat
      /\ Len(link) \in Nat /\ event.timestamp \in Int
      /\ merged.theirs.timestamp \in Int
  BY OrderTypes
<1>2. PICK k \in 0 .. 1 : k = IF Handling THEN 1 ELSE 0  OBVIOUS
<1>3. counter["inner"] + Len(link) + k = counter["leaf"]
  BY <1>2 DEF OrderInv
<1>4. event.timestamp = counter["inner"] - (1 - k)
  BY <1>1, <1>2 DEF OrderInv
<1>5. merged.theirs.timestamp < counter["inner"]  BY DEF OrderInv
<1>6. ASSUME NEW i \in 1 .. Len(link)
      PROVE  link[i].timestamp < counter["leaf"]
  <2>1. link[i].timestamp = counter["leaf"] - Len(link) + i - 1
    BY DEF OrderInv
  <2> QED BY <1>1, <2>1
<1> QED BY <1>1, <1>2, <1>3, <1>4, <1>5, <1>6

\* With a pulse begun since the last edit the file is there.
LEMMA NotEmpty ==
  ASSUME Typed, EditInv, NEW t \in Int, t < counter["leaf"], t >= First
  PROVE  Present
<1>1. since \in Int /\ counter["leaf"] \in Nat  BY OrderTypes
<1> QED BY <1>1 DEF EditInv, First
-----------------------------------------------------------------------------
(***************************************************************************)
(* Who does what: the steps of one process leave the other alone.          *)
(***************************************************************************)
LeafFrame == UNCHANGED <<file, numbers, since, counter["leaf"], pc["leaf"],
                         total_metrics["leaf"], old_nr_of_metrics["leaf"],
                         data["leaf"]>>

InnerFrame == UNCHANGED <<file, numbers, since, event, merged, round,
                          counter["inner"], pc["inner"],
                          total_metrics["inner"], old_nr_of_metrics["inner"],
                          desired_metrics["inner"], data["inner"]>>

\* The calls that both kinds of processes make.
Either(p) == \/ initialize_metrics_crawler_number_from_file(p)
             \/ NoNumber(p)
             \/ Exit(p)
             \/ Crash(p)
             \/ destroy_metrics_aggregator(p)

LeafStepped == Either("leaf") \/ start_communication

InnerStepped == Either("inner") \/ TakeEvent \/ FromFile \/ FromMemory \/ Submit

\* Every step is an edit, one of the leaf, or one of the inner process.
LEMMA WhoSteps ==
  ASSUME [Next]_vars
  PROVE  Edit \/ LeafStepped \/ InnerStepped \/ UNCHANGED vars
BY DEF Next, Process, Edit, Either, LeafStepped, InnerStepped

\* A call of p changes no field of the other process.
LEMMA OthersKept ==
  ASSUME Typed, NEW p \in Process, Either(p), NEW q \in Process, q # p
  PROVE  /\ UNCHANGED <<file, numbers, since, round, counter, link, event, merged>>
         /\ pc'[q] = pc[q] /\ total_metrics'[q] = total_metrics[q]
         /\ old_nr_of_metrics'[q] = old_nr_of_metrics[q]
         /\ desired_metrics'[q] = desired_metrics[q] /\ data'[q] = data[q]
         /\ live'[q] = live[q]
<1>1. CASE initialize_metrics_crawler_number_from_file(p)
  BY <1>1 DEF initialize_metrics_crawler_number_from_file, Typed, fileVars, eventVars
<1>2. CASE NoNumber(p) \/ Exit(p)
  BY <1>2 DEF NoNumber, Exit, Typed, fileVars, crawlerVars, eventVars
<1>3. CASE Crash(p)
  BY <1>3 DEF Crash, Typed, fileVars, crawlerVars, eventVars
<1>4. CASE destroy_metrics_aggregator(p)
  BY <1>4 DEF destroy_metrics_aggregator, Typed, fileVars, eventVars
<1> QED BY <1>1, <1>2, <1>3, <1>4 DEF Either

\* A second reading by p leaves the other's fields alone.
LEMMA ReadOthers ==
  ASSUME Typed, NEW p \in Process, NEW failed, ReadNames(p, failed), NEW q \in Process, q # p
  PROVE  /\ UNCHANGED <<file, numbers, since, total_metrics, old_nr_of_metrics>>
         /\ desired_metrics'[q] = desired_metrics[q]
         /\ data'[q] = data[q] /\ live'[q] = live[q]
BY DEF ReadNames, Typed, fileVars

\* The leaf does not touch what the inner process has.
LEMMA LeafSteps ==
  ASSUME Typed, LeafStepped
  PROVE  InnerFrame /\ live'["inner"] = live["inner"]
<1>1. "leaf" \in Process /\ "inner" \in Process /\ "leaf" # "inner"
  BY DEF Process
<1>2. CASE Either("leaf")  BY <1>1, <1>2, OthersKept DEF InnerFrame
<1>3. CASE start_communication
  <2>1. /\ \E failed : ReadNames("leaf", failed)
        /\ UNCHANGED <<round, event, merged>>
        /\ counter' = [counter EXCEPT !["leaf"] = @ + 1]
        /\ \E s : pc' = [pc EXCEPT !["leaf"] = s]
    BY <1>3 DEF start_communication
  <2>2. pc'["inner"] = pc["inner"] /\ counter'["inner"] = counter["inner"]
    BY <1>1, <2>1 DEF Typed
  <2> QED BY <1>1, <2>1, <2>2, ReadOthers DEF InnerFrame
<1> QED BY <1>2, <1>3 DEF LeafStepped

\* The inner process does not touch what the leaf has.
LEMMA InnerSteps ==
  ASSUME NamesInv, InnerStepped
  PROVE  LeafFrame /\ live'["leaf"] = live["leaf"]
<1>1. /\ Typed /\ "leaf" \in Process /\ "inner" \in Process
      /\ "leaf" # "inner"
  BY DEF NamesInv, Process
<1>2. CASE Either("inner")  BY <1>1, <1>2, OthersKept DEF LeafFrame
<1>3. CASE TakeEvent
  <2>1. pc'["leaf"] = pc["leaf"]
    BY <1>1, <1>3 DEF TakeEvent, Typed
  <2> QED BY <1>3, <2>1 DEF TakeEvent, fileVars, crawlerVars, LeafFrame
<1>4. CASE FromFile
  <2>1. (\E failed : ReadNames("inner", failed)) /\ UNCHANGED counter
        /\ pc' = [pc EXCEPT !["inner"] = Filled]
    BY <1>4 DEF FromFile
  <2>2. pc'["leaf"] = pc["leaf"]  BY <1>1, <2>1 DEF Typed
  <2> QED BY <1>1, <2>1, <2>2, ReadOthers DEF LeafFrame
<1>5. CASE FromMemory
  <2>1. pc'["leaf"] = pc["leaf"] /\ data'["leaf"] = data["leaf"]
    BY <1>1, <1>5 DEF FromMemory, Typed
  <2> QED BY <1>5, <2>1 DEF FromMemory, fileVars, crawlerVars, LeafFrame
<1>6. CASE Submit
  <2>1. pc'["leaf"] = pc["leaf"] /\ counter'["leaf"] = counter["leaf"]
    BY <1>1, <1>6 DEF Submit, Typed
  <2> QED BY <1>6, <2>1 DEF Submit, fileVars, crawlerVars, LeafFrame
<1> QED BY <1>2, <1>3, <1>4, <1>5, <1>6 DEF InnerStepped

\* An edit moves First to a pulse that the leaf has not begun.
LEMMA TouchFirst ==
  ASSUME Typed, NEW contents, Touch(contents)
  PROVE  /\ file' = contents /\ First' \in Int
         /\ since' = First' /\ counter["leaf"] <= First'
         /\ pc["leaf"] \notin {"exited", "crashed"} => Begun < First'
         /\ Begun' = Begun
         /\ UNCHANGED <<pc, round, counter, total_metrics, old_nr_of_metrics,
                        desired_metrics, live, data, link, event, merged>>
<1>1. /\ file' = contents
      /\ since' = IF pc["leaf"] = "names" THEN counter["leaf"] + 1
                                          ELSE counter["leaf"]
      /\ UNCHANGED <<pc, round, counter, total_metrics, old_nr_of_metrics,
                     desired_metrics, live, data, link, event, merged>>
  BY DEF Touch, crawlerVars, eventVars
<1>2. counter["leaf"] \in Nat  BY OrderTypes
<1>3. since' = First' /\ First' \in Int /\ counter["leaf"] <= First'
  BY <1>1, <1>2 DEF First
<1>4. Begun' = Begun  BY <1>1 DEF Begun
<1>5. pc["leaf"] \notin {"exited", "crashed"} => Begun < First'
  BY <1>1, <1>2, <1>3 DEF Begun
<1> QED BY <1>1, <1>3, <1>4, <1>5
-----------------------------------------------------------------------------
(***************************************************************************)
(* The leaf.                                                               *)
(***************************************************************************)
\* The types of First and Begun.
LEMMA FirstType ==
  ASSUME Typed
  PROVE  First \in Int /\ 0 <= First /\ since <= First
         /\ Begun \in Int /\ counter["leaf"] \in Nat
BY OrderTypes DEF First

\* What the leaf knows stays true while others step.
LEMMA LeafSame ==
  ASSUME EditInv, LeafInv, LeafFrame
  PROVE  EditInv' /\ LeafInv'
<1>1. UNCHANGED <<file, numbers, since>>  BY DEF LeafFrame
<1>2. First' = First /\ AllLengthsNew' = AllLengthsNew  BY <1>1, FileSame
<1>3. Begun' = Begun  BY DEF LeafFrame, Begun
<1>4. \A j : Known(j) => Known(j)'
  BY <1>1, <1>2, <1>3 DEF Known, LeafFrame, Present
<1>5. EditInv'  BY DEF EditInv, LeafFrame, Present
<1> QED BY <1>1, <1>2, <1>3, <1>4, <1>5 DEF LeafInv, LeafFrame, Present

\* An edit.
LEMMA TouchLeaf ==
  ASSUME Typed, EditInv, LeafInv, Edit
  PROVE  EditInv' /\ LeafInv'
<1> DEFINE p == "leaf"
<1>1. PICK contents : Touch(contents)  BY DEF Edit, Truncate, Remove, Write
<1>2. /\ file' = contents /\ First' \in Int /\ since' = First'
      /\ counter[p] <= First' /\ Begun' = Begun
      /\ pc[p] \notin {"exited", "crashed"} => Begun < First'
      /\ UNCHANGED <<pc, counter, total_metrics, old_nr_of_metrics, data>>
  BY <1>1, TouchFirst
<1>3. numbers \in Seq(Nat) /\ Len(numbers) \in Nat /\ Begun \in Int
      /\ counter[p] \in Nat
  BY LenProperties, FirstType DEF Typed
<1>4. /\ Len(numbers') >= Len(numbers) /\ Len(numbers') \in Nat
      /\ \A j \in 1 .. Len(numbers) : numbers'[j] = numbers[j]
      /\ Present' => /\ Len(numbers') = Len(numbers) + 1
                          /\ numbers'[Len(numbers')] = Len(file')
  <2>1. CASE Truncate \/ Remove
    <3>1. ~Present' /\ numbers' = numbers
      BY <2>1 DEF Truncate, Remove, Touch, Present
    <3> QED BY <1>3, <3>1
  <2>2. CASE Write
    <3>1. PICK names \in Files :
            file' = names /\ numbers' = Append(numbers, Len(names))
      BY <2>2 DEF Write, Touch
    <3>2. Len(names) \in Nat  BY CrawlerAssumption, LenProperties
    <3>3. /\ Len(numbers') = Len(numbers) + 1
          /\ numbers'[Len(numbers) + 1] = Len(names)
          /\ \A j \in 1 .. Len(numbers) : numbers'[j] = numbers[j]
      BY <1>3, <3>1, <3>2, AppendProperties
    <3> QED BY <1>3, <3>1, <3>3
  <2> QED BY <2>1, <2>2 DEF Edit
<1>5. EditInv'  BY <1>2, <1>3, <1>4 DEF EditInv
<1>6. PICK j \in 1 .. Len(numbers) : Known(j)  BY DEF LeafInv
<1>7. j \in 1 .. Len(numbers') /\ Known(j)'
  BY <1>2, <1>3, <1>4, <1>6 DEF Known
<1>8. ASSUME pc'[p] \notin {"exited", "crashed"}
      PROVE  ~(Begun' >= First') /\ ~(Begun' > First') /\ Begun' # First'
  BY <1>2, <1>3, <1>8
<1>9. pc'[p] \notin {"exited", "crashed"} =>
        total_metrics'[p] = IF Begun' < 0 THEN 0 ELSE data'[p].metrics_nr
  BY <1>2 DEF LeafInv
<1> QED BY <1>5, <1>7, <1>8, <1>9 DEF LeafInv

\* The first reading.
LEMMA NumberLeaf ==
  ASSUME NamesInv, OrderInv, EditInv, LeafInv, <<>> \notin Files,
         initialize_metrics_crawler_number_from_file("leaf")
  PROVE  EditInv' /\ LeafInv'
<1> DEFINE p == "leaf"
<1>1. /\ Typed /\ p \in Process /\ pc[p] = "number"
      /\ UNCHANGED <<file, numbers, since, counter>>
      /\ pc' = [pc EXCEPT ![p] = "names"]
      /\ old_nr_of_metrics' = [old_nr_of_metrics EXCEPT ![p] = total_metrics[p]]
      /\ file \notin Unnumbered /\ (file # Empty => Present)
  BY DEF NamesInv, Process, initialize_metrics_crawler_number_from_file, fileVars,
         OldNumber, Present
<1>2. /\ total_metrics'[p] = IF file = Empty THEN data[p].metrics_nr ELSE Len(file)
      /\ data'[p].metrics_nr = total_metrics'[p]
  BY <1>1, NumberNames
<1>3. pc'[p] = "names" /\ old_nr_of_metrics'[p] = total_metrics[p]
  BY <1>1 DEF Typed
<1>4. /\ First' = First /\ AllLengthsNew' = AllLengthsNew
      /\ First \in Int /\ 0 <= First /\ Begun \in Int /\ counter[p] \in Nat
  BY <1>1, FileSame, FirstType
<1>5. Begun' = Begun + 1 /\ Begun' = counter[p]  BY <1>1, <1>3, <1>4 DEF Begun
<1>6. First <= Begun' /\ 0 <= Begun'
  <2>1. since <= Begun + 1  BY DEF OrderInv
  <2>2. Begun' \in Int /\ 0 <= Begun' /\ since <= Begun'
    BY <1>4, <1>5, <2>1
  <2> QED BY <2>2 DEF First
<1>7. EditInv'  BY <1>1 DEF EditInv, Present
<1>8. PICK j \in 1 .. Len(numbers) : Known(j)  BY DEF LeafInv
<1>9. \E i \in 1 .. Len(numbers') : Known(i)'
  <2>1. CASE file = Empty  BY <1>1, <1>2, <1>8, <2>1 DEF Known, Present
  <2>2. CASE file # Empty
    <3>1. /\ Len(numbers) \in 1 .. Len(numbers)
          /\ numbers[Len(numbers)] = Len(file)
      BY <1>1, <2>2, LenProperties DEF EditInv, Typed
    <3>2. ~(Begun' < First')  BY <1>4, <1>5, <1>6
    <3>3. Known(Len(numbers))'  BY <1>1, <1>2, <2>2, <3>1, <3>2 DEF Known
    <3> QED BY <1>1, <3>1, <3>3
  <2> QED BY <2>1, <2>2
<1>10. total_metrics'[p] = IF Begun' < 0 THEN 0 ELSE data'[p].metrics_nr
  BY <1>2, <1>4, <1>5, <1>6
<1>11. ASSUME Present
       PROVE  /\ total_metrics'[p] = Len(file)
              /\ Begun' > First => total_metrics[p] = Len(file)
              /\ Begun' = First /\ AllLengthsNew => total_metrics[p] # Len(file)
  <2>1. ASSUME Begun' > First PROVE total_metrics[p] = Len(file)
    <3>1. Begun >= First  BY <1>4, <1>5, <2>1
    <3> QED BY <1>1, <1>11, <3>1 DEF LeafInv
  <2>2. ASSUME Begun' = First, AllLengthsNew PROVE total_metrics[p] # Len(file)
    <3>1. CASE Begun < 0
      <4>1. total_metrics[p] = 0  BY <1>1, <3>1 DEF LeafInv
      <4>2. file \in Files /\ file \in Seq(Name)  BY <1>1, <1>11, FileIsList
      <4>3. Len(file) # 0  BY <4>2, EmptySeq
      <4> QED BY <4>1, <4>3
    <3>2. CASE ~(Begun < 0)
      <4>1. total_metrics[p] = numbers[j]
        BY <1>1, <1>8, <3>2 DEF LeafInv, Known
      <4>2. Begun < First  BY <1>4, <1>5, <2>2
      <4>3. j < Len(numbers)  BY <1>8, <1>11, <4>2 DEF Known
      <4>4. /\ Len(numbers) \in Nat /\ DOMAIN numbers = 1 .. Len(numbers)
            /\ numbers[Len(numbers)] = Len(file)
        BY <1>1, <1>11, LenProperties DEF EditInv, Typed
      <4>5. numbers[j] # numbers[Len(numbers)]
        <5>1. j \in DOMAIN numbers /\ j # Len(numbers)
              /\ Len(numbers) \in DOMAIN numbers
          <6>1. j \in Int /\ 1 <= j /\ j <= Len(numbers)  BY <1>8, <4>4
          <6>2. j # Len(numbers)
            <7>1. PICK n \in Nat : n = Len(numbers)  BY <4>4
            <7>2. j < n  BY <4>3, <7>1
            <7> QED BY <6>1, <7>1, <7>2
          <6>3. Len(numbers) \in 1 .. Len(numbers)  BY <4>4, <6>1
          <6> QED BY <1>8, <4>4, <6>2, <6>3
        <5> QED BY <2>2, <5>1 DEF AllLengthsNew
      <4> QED BY <4>1, <4>4, <4>5
    <3> QED BY <3>1, <3>2
  <2> QED BY <1>2, <1>11, <2>1, <2>2 DEF Present
<1>12. Present' = Present /\ Begun' \in Int
  BY <1>1, <1>4, <1>5 DEF Present
<1> QED BY <1>1, <1>3, <1>4, <1>7, <1>9, <1>10, <1>11, <1>12 DEF LeafInv

\* A step that leaves the readings behind.
LEMMA RestLeaf ==
  ASSUME EditInv, LeafInv, UNCHANGED <<file, numbers, since>>,
         total_metrics'["leaf"] = total_metrics["leaf"],
         old_nr_of_metrics'["leaf"] = old_nr_of_metrics["leaf"],
         data'["leaf"].metrics_nr = data["leaf"].metrics_nr,
         Begun' = Begun, pc'["leaf"] # "names",
         pc["leaf"] \in {"exited", "crashed"} => pc'["leaf"] \in {"exited", "crashed"},
         ~Present => counter'["leaf"] <= since
  PROVE  EditInv' /\ LeafInv'
<1>1. First' = First /\ AllLengthsNew' = AllLengthsNew  BY FileSame
<1>2. Present' = Present  BY DEF Present
<1>3. \A j : Known(j) => Known(j)'  BY <1>1, <1>2 DEF Known
<1>4. EditInv'  BY <1>2 DEF EditInv
<1> QED BY <1>1, <1>2, <1>3, <1>4 DEF LeafInv

\* What the leaf knows of the file is inductive.
LEMMA LeafKept ==
  ASSUME NamesInv, OrderInv, EditInv, LeafInv, <<>> \notin Files, [Next]_vars
  PROVE  EditInv' /\ LeafInv'
<1> DEFINE p == "leaf"
<1>1. Typed /\ p \in Process /\ counter[p] \in Nat
  BY FirstType DEF NamesInv, Process
<1>2. CASE Edit  BY <1>1, <1>2, TouchLeaf
<1>3. CASE initialize_metrics_crawler_number_from_file(p)
  BY <1>3, NumberLeaf
<1>0. CASE NoNumber(p)
  <2>1. pc'[p] = "exited" /\ pc[p] = "number"
        /\ UNCHANGED <<file, numbers, since, counter, total_metrics,
                       old_nr_of_metrics, data>>
    BY <1>0, <1>1 DEF Typed, NoNumber, fileVars, crawlerVars
  <2>2. First' = First /\ First \in Int /\ Begun' = Begun + 1 /\ Begun \in Int
    BY <1>1, <2>1, FirstType DEF First, Begun
  <2>3. \A j : Known(j) => Known(j)'  BY <2>1, <2>2 DEF Known, Present
  <2> QED BY <2>1, <2>3 DEF EditInv, LeafInv, Present
<1>4. CASE Exit(p) \/ Crash(p)
  <2>1. PICK s \in {"exited", "crashed"} : pc' = [pc EXCEPT ![p] = s]
    BY <1>1, <1>4, DownNames
  <2>2. pc'[p] = s /\ pc[p] = "names"
        /\ UNCHANGED <<file, numbers, since, counter, total_metrics,
                       old_nr_of_metrics, data>>
    BY <1>1, <1>4, <2>1 DEF Typed, Exit, Crash, fileVars, crawlerVars
  <2>3. Begun' = Begun  BY <2>2 DEF Begun
  <2> QED BY <2>2, <2>3, RestLeaf DEF EditInv
<1>5. CASE destroy_metrics_aggregator(p)
  <2>1. pc'[p] = "destroyed" /\ pc[p] = "stopped"
        /\ UNCHANGED <<file, numbers, since, counter, total_metrics,
                       old_nr_of_metrics, data>>
    BY <1>1, <1>5 DEF Typed, destroy_metrics_aggregator, fileVars
  <2>2. Begun' = Begun  BY <2>1 DEF Begun
  <2> QED BY <2>1, <2>2, RestLeaf DEF EditInv
<1>6. CASE start_communication
  <2>1. data'[p].metrics_nr = data[p].metrics_nr
    BY <1>6, start_communicationNames
  <2>2. PICK s \in {"stopped", "number"} : pc' = [pc EXCEPT ![p] = s]
    BY <1>6 DEF start_communication
  <2>3. /\ pc'[p] = s /\ pc[p] = "names" /\ Present
        /\ counter'[p] = counter[p] + 1
        /\ UNCHANGED <<file, numbers, since, total_metrics, old_nr_of_metrics>>
    BY <1>1, <1>6, <2>2 DEF Typed, start_communication, ReadNames, fileVars
  <2>4. Begun' = Begun  BY <1>1, <2>3 DEF Begun
  <2> QED BY <2>1, <2>3, <2>4, RestLeaf
<1>7. CASE InnerStepped  BY <1>7, InnerSteps, LeafSame
<1>8. CASE UNCHANGED vars
  <2>1. LeafFrame  BY <1>8 DEF LeafFrame, vars, fileVars, crawlerVars
  <2> QED BY <2>1, LeafSame
<1> QED BY <1>0, <1>2, <1>3, <1>4, <1>5, <1>6, <1>7, <1>8, WhoSteps
        DEF LeafStepped, Either
-----------------------------------------------------------------------------
(***************************************************************************)
(* The events of the leaf.                                                 *)
(***************************************************************************)
\* An event on its way, and the one that is handled, are kept as they are.
LEMMA SentSame ==
  ASSUME SentInv, UNCHANGED <<file, numbers, since, link, event>>
  PROVE  SentInv'
<1>1. /\ First' = First /\ AllLengthsNew' = AllLengthsNew
      /\ file' = file
  BY FileSame
<1> QED BY <1>1 DEF SentInv, SentWell

\* The leaf's next event.
LEMMA SendWell ==
  ASSUME NamesInv, OrderInv, LeafInv, <<>> \notin Files,
         start_communication, NEW e \in EventType,
         e.timestamp = counter["leaf"], e.update_file = needs_sync("leaf"),
         NEW failed \in SUBSET DOMAIN desired_metrics["leaf"],
         MayFail(NewNames("leaf"), failed),
         e.gather_info = Values("leaf", NewNames("leaf"), failed)
  PROVE  SentWell(e)
<1> DEFINE p == "leaf"
<1>1. /\ Typed /\ p \in Process /\ pc[p] = "names" /\ Present
  BY DEF NamesInv, Process, start_communication, ReadNames
<1>2. First \in Int /\ counter[p] \in Nat /\ Begun = counter[p]
  BY <1>1, FirstType DEF Begun
<1> SUFFICES ASSUME e.timestamp >= First
             PROVE  /\ Exact(e.gather_info, file)
                    /\ AllLengthsNew /\ e.timestamp = First => e.update_file
  BY DEF SentWell
<1>3. total_metrics[p] = Len(file)  BY <1>1, <1>2 DEF LeafInv
<1>4. Exact(e.gather_info, file)  BY <1>1, <1>3, ReadingExact
<1>5. ASSUME AllLengthsNew, e.timestamp = First PROVE needs_sync(p)
  <2>1. old_nr_of_metrics[p] # number
    BY <1>1, <1>2, <1>5 DEF LeafInv, number
  <2>2. /\ file \in Files /\ file \in Seq(Name) /\ Len(file) \in Nat
        /\ DOMAIN file = 1 .. Len(file)
    BY <1>1, FileIsList
  <2>3. Len(file) # 0  BY <2>2, EmptySeq
  <2>4. 1 \in NamesRead(p)  BY <1>3, <2>2, <2>3 DEF NamesRead
  <2> QED BY <2>1, <2>4 DEF needs_sync
<1> QED BY <1>4, <1>5

\* No step spoils an event, and no leaf sends a spoilt one.
LEMMA SentKept ==
  ASSUME NamesInv, OrderInv, EditInv, LeafInv, SentInv, <<>> \notin Files,
         [Next]_vars
  PROVE  SentInv'
<1>1. /\ Typed /\ "leaf" \in Process /\ "inner" \in Process
      /\ link \in Seq(EventType) /\ Len(link) \in Nat
      /\ event.timestamp \in Int /\ counter["leaf"] \in Nat
  BY OrderTypes DEF NamesInv
<1>2. CASE Edit
  <2>1. PICK contents : Touch(contents)  BY <1>2 DEF Edit, Truncate, Remove, Write
  <2>2. /\ First' \in Int /\ counter["leaf"] <= First'
        /\ UNCHANGED <<link, event>>
    BY <1>1, <2>1, TouchFirst
  <2>3. ~(event.timestamp >= First')  BY <1>1, <2>2, Earlier
  <2>4. ASSUME NEW i \in 1 .. Len(link)
        PROVE  ~(link[i].timestamp >= First')
    <3>1. link[i] \in EventType  BY <1>1, ElementOfSeq
    <3>2. link[i].timestamp \in Int  BY <3>1 DEF EventType
    <3> QED BY <1>1, <2>2, <3>2, Earlier
  <2> QED BY <2>2, <2>3, <2>4 DEF SentInv, SentWell
<1>3. ASSUME NEW p \in Process, Either(p) PROVE SentInv'
  <2>1. PICK q \in Process : q # p  BY <1>1
  <2>2. UNCHANGED <<file, numbers, since, link, event>>
    BY <1>1, <1>3, <2>1, OthersKept
  <2> QED BY <2>2, SentSame
<1>4. CASE start_communication
  <2>1. PICK e \in EventType, failed \in SUBSET DOMAIN desired_metrics["leaf"] :
          /\ MayFail(NewNames("leaf"), failed)
          /\ e.timestamp = counter["leaf"] /\ e.update_file = needs_sync("leaf")
          /\ e.gather_info = Values("leaf", NewNames("leaf"), failed)
          /\ link' = Append(link, e)
    BY <1>4, start_communicationNames
  <2>2. SentWell(e)  BY <1>4, <2>1, SendWell
  <2>3. /\ Len(link') = Len(link) + 1 /\ link'[Len(link) + 1] = e
        /\ \A i \in 1 .. Len(link) : link'[i] = link[i]
    BY <1>1, <2>1, AppendProperties
  <2>4. UNCHANGED <<file, numbers, since, event>>
    BY <1>4 DEF start_communication, ReadNames, fileVars
  <2>5. /\ First' = First /\ AllLengthsNew' = AllLengthsNew
        /\ file' = file
    BY <2>4, FileSame
  <2>6. SentWell(event)'  BY <2>4, <2>5 DEF SentInv, SentWell
  <2>7. ASSUME NEW i \in 1 .. Len(link') PROVE SentWell(link[i])'
    <3>1. CASE i = Len(link) + 1
      BY <2>2, <2>3, <2>5, <3>1 DEF SentWell
    <3>2. CASE i # Len(link) + 1
      <4>1. i \in 1 .. Len(link)  BY <1>1, <2>3, <3>2
      <4> QED BY <2>3, <2>5, <4>1 DEF SentInv, SentWell
    <3> QED BY <3>1, <3>2
  <2> QED BY <2>6, <2>7 DEF SentInv
<1>5. CASE TakeEvent
  <2>1. /\ link # <<>> /\ event' = Head(link) /\ link' = Tail(link)
        /\ UNCHANGED <<file, numbers, since>>
    BY <1>5 DEF TakeEvent, fileVars
  <2>2. /\ Len(link') = Len(link) - 1 /\ event' = link[1] /\ Len(link) >= 1
        /\ \A i \in 1 .. Len(link') : link'[i] = link[i + 1]
    BY <1>1, <2>1, HeadTailProperties, EmptySeq
  <2>3. /\ First' = First /\ AllLengthsNew' = AllLengthsNew
        /\ file' = file
    BY <2>1, FileSame
  <2>4. 1 \in 1 .. Len(link) /\ \A i \in 1 .. Len(link') : i + 1 \in 1 .. Len(link)
    BY <1>1, <2>2
  <2>5. SentWell(event)'  BY <2>2, <2>3, <2>4 DEF SentInv, SentWell
  <2>6. ASSUME NEW i \in 1 .. Len(link') PROVE SentWell(link[i])'
    <3>1. link'[i] = link[i + 1] /\ i + 1 \in 1 .. Len(link)  BY <2>2, <2>4
    <3> QED BY <2>3, <3>1 DEF SentInv, SentWell
  <2> QED BY <2>5, <2>6 DEF SentInv
<1>6. CASE FromFile \/ FromMemory \/ Submit
  <2>1. UNCHANGED <<file, numbers, since, link, event>>
    BY <1>6 DEF FromFile, ReadNames, FromMemory, Submit, fileVars, eventVars
  <2> QED BY <2>1, SentSame
<1>7. CASE UNCHANGED vars
  BY <1>7, SentSame DEF vars, fileVars, eventVars
<1> QED BY <1>1, <1>2, <1>3, <1>4, <1>5, <1>6, <1>7, WhoSteps
        DEF LeafStepped, InnerStepped
-----------------------------------------------------------------------------
(***************************************************************************)
(* The inner process.                                                      *)
(***************************************************************************)
\* Whatever the leaf does, the inner process has what it has.
LEMMA InnerSame ==
  ASSUME InnerInv, InnerFrame
  PROVE  InnerInv'
<1>1. /\ First' = First /\ AllLengthsNew' = AllLengthsNew
      /\ file' = file
  BY FileSame DEF InnerFrame
<1>2. NamesExact' = NamesExact  BY <1>1 DEF NamesExact, InnerFrame
<1>3. Filling' = Filling /\ Again' = Again /\ Twice' = Twice
  BY <1>1 DEF Filling, Again, Twice, InnerFrame
<1> QED BY <1>1, <1>2, <1>3 DEF InnerInv, InnerExact, InnerFrame

\* With an event begun since the last edit it finds the file.
LEMMA InnerFile ==
  ASSUME NamesInv, OrderInv, EditInv, event.timestamp >= First
  PROVE  Present
BY OrderTypes, Earlier, NotEmpty DEF NamesInv

\* The first reading.
LEMMA NumberInner ==
  ASSUME NamesInv, OrderInv, EditInv, InnerInv,
         initialize_metrics_crawler_number_from_file("inner")
  PROVE  InnerInv'
<1> DEFINE p == "inner"
<1>1. /\ Typed /\ p \in Process /\ pc[p] = "number"
      /\ UNCHANGED <<file, numbers, since, round, event>>
      /\ pc' = [pc EXCEPT ![p] = "names"]
      /\ old_nr_of_metrics' = [old_nr_of_metrics EXCEPT ![p] = total_metrics[p]]
  BY DEF NamesInv, Process, initialize_metrics_crawler_number_from_file, fileVars,
         eventVars, OldNumber
<1>2. pc'[p] = "names" /\ old_nr_of_metrics'[p] = total_metrics[p]
  BY <1>1 DEF Typed
<1>3. First' = First /\ AllLengthsNew' = AllLengthsNew  BY <1>1, FileSame
<1> SUFFICES ASSUME AllLengthsNew, event.timestamp >= First PROVE InnerExact'
  BY <1>1, <1>3 DEF InnerInv
<1>4. total_metrics'[p] = Len(file)
  BY <1>1, InnerFile, NumberNames DEF Present
<1>5. Again' = Again /\ ~Filling'  BY <1>1, <1>2, <1>3 DEF Again, Filling
<1>6. Again => total_metrics[p] = Len(file)
  BY <1>1 DEF InnerInv, InnerExact
<1> QED BY <1>1, <1>2, <1>4, <1>5, <1>6 DEF InnerExact

\* The second reading, of all names.
LEMMA FromFileInner ==
  ASSUME NamesInv, OrderInv, EditInv, InnerInv, FromFile
  PROVE  InnerInv'
<1> DEFINE p == "inner"
<1>0. PICK failed \in SUBSET DOMAIN desired_metrics[p] : ReadNames(p, failed)
  BY DEF FromFile
<1>1. /\ Typed /\ p \in Process /\ pc[p] = "names" /\ Present
      /\ MayFail(NewNames(p), failed) /\ pc' = [pc EXCEPT ![p] = Filled]
      /\ UNCHANGED <<file, numbers, since, round, event, total_metrics,
                     old_nr_of_metrics>>
  BY <1>0 DEF NamesInv, Process, FromFile, ReadNames, fileVars, eventVars
<1>2. pc'[p] = Filled  BY <1>1 DEF Typed
<1>3. /\ First' = First /\ AllLengthsNew' = AllLengthsNew
      /\ file' = file
  BY <1>1, FileSame
<1> SUFFICES ASSUME AllLengthsNew, event.timestamp >= First PROVE InnerExact'
  BY <1>1, <1>3 DEF InnerInv
<1>4. /\ total_metrics[p] = Len(file)
      /\ Again => old_nr_of_metrics[p] = Len(file)
  BY <1>1 DEF InnerInv, InnerExact
<1>5. NamesExact'
  <2>1. NewNames(p) = file /\ Exact(Values(p, NewNames(p), failed), file)
    BY <1>1, <1>4, ReadingExact
  <2>2. Filled \in InnerStep \ {"names", "exited", "crashed"}
    BY DEF Filled, InnerStep
  <2>3. /\ desired_metrics'[p] = NewNames(p)
        /\ data'[p] = [metrics_nr |-> data[p].metrics_nr,
                       gather_info |-> Values(p, NewNames(p), failed)]
    BY <1>0, <1>1, <2>2, ReadNamesNames
  <2>4. Exact(data'[p].gather_info, file)  BY <2>1, <2>3
  <2> QED BY <1>1, <1>3, <1>4, <2>1, <2>3, <2>4 DEF NamesExact
<1>6. pc'[p] \in {"submit", "idle"} /\ (pc'[p] = "idle" => round = "next")
  BY <1>1, <1>2 DEF Filled, Typed
<1>7. Twice' => Again  BY <1>1, <1>3, <1>6 DEF Twice, Again
<1> QED BY <1>1, <1>4, <1>5, <1>6, <1>7 DEF InnerExact, Filling

\* The values of the names in memory.
LEMMA FromMemoryInner ==
  ASSUME NamesInv, OrderInv, EditInv, InnerInv, FromMemory
  PROVE  InnerInv'
<1> DEFINE p == "inner"
<1>0. PICK failed \in SUBSET DOMAIN desired_metrics[p] :
        /\ MayFail(desired_metrics[p], failed)
        /\ data'[p].gather_info = Values(p, desired_metrics[p], failed)
  BY FromMemoryNames
<1>1. /\ Typed /\ p \in Process /\ pc[p] = "memory"
      /\ pc' = [pc EXCEPT ![p] = Filled]
      /\ UNCHANGED <<file, numbers, since, round, event, total_metrics,
                     old_nr_of_metrics, desired_metrics>>
  BY FromMemoryNames DEF NamesInv, Process, FromMemory, fileVars, crawlerVars,
                         eventVars
<1>2. pc'[p] = Filled  BY <1>1 DEF Typed
<1>3. /\ First' = First /\ AllLengthsNew' = AllLengthsNew
      /\ file' = file
  BY <1>1, FileSame
<1> SUFFICES ASSUME AllLengthsNew, event.timestamp >= First PROVE InnerExact'
  BY <1>1, <1>3 DEF InnerInv
<1>4. NamesExact /\ event.timestamp > First
      /\ old_nr_of_metrics[p] = total_metrics[p]
  BY <1>1 DEF InnerInv, InnerExact, Filling, Twice
<1>5. Exact(Values(p, desired_metrics[p], failed), file)
  <2>1. file \in Seq(Name) /\ Len(file) \in Nat /\ DOMAIN file = 1 .. Len(file)
    BY <1>1, InnerFile, FileIsList
  <2>2. /\ desired_metrics[p] = file
        /\ Exact(data[p].gather_info, file)
        /\ data[p].gather_info \in ValueList
    BY <1>1, <1>4 DEF NamesExact, Typed, DataType
  <2>3. Len(data[p].gather_info) = Len(file)  BY <2>2 DEF Exact
  <2> QED BY <1>0, <2>1, <2>2, <2>3, Measures DEF Values
<1>6. NamesExact'  BY <1>0, <1>1, <1>3, <1>4, <1>5 DEF NamesExact
<1>7. pc'[p] \in {"submit", "idle"}  BY <1>2 DEF Filled
<1> QED BY <1>1, <1>4, <1>6, <1>7 DEF InnerExact

\* The next event: the first since an edit sends it to the file.
LEMMA TakeEventInner ==
  ASSUME NamesInv, OrderInv, EditInv, SentInv, InnerInv, TakeEvent
  PROVE  InnerInv'
<1> DEFINE p == "inner"
<1>1. /\ Typed /\ p \in Process /\ pc[p] = "idle" /\ link # <<>>
      /\ event' = Head(link) /\ round' = "own"
      /\ pc' = [pc EXCEPT ![p] = IF Recomputes(event') THEN Source(event')
                                                       ELSE "submit"]
      /\ UNCHANGED <<file, numbers, since, total_metrics, old_nr_of_metrics,
                     desired_metrics, data>>
  BY DEF NamesInv, Process, TakeEvent, fileVars, crawlerVars
<1>2. pc'[p] = IF Recomputes(event') THEN Source(event') ELSE "submit"
  BY <1>1 DEF Typed
<1>3. /\ First' = First /\ AllLengthsNew' = AllLengthsNew
      /\ file' = file
  BY <1>1, FileSame
<1> SUFFICES ASSUME AllLengthsNew, event'.timestamp >= First PROVE InnerExact'
  BY <1>1, <1>3 DEF InnerInv
<1>4. link \in Seq(EventType) /\ Len(link) \in Nat /\ First \in Int
      /\ counter["leaf"] \in Nat /\ counter[p] \in Nat
  BY <1>1, OrderTypes, FirstType
<1>5. event' = link[1] /\ 1 \in 1 .. Len(link) /\ event' \in EventType
  BY <1>1, <1>4, HeadTailProperties, EmptySeq, ElementOfSeq
<1>6. /\ event'.timestamp \in Int /\ event'.timestamp = event.timestamp + 1
      /\ event.timestamp \in Int
  <2>1. ~Handling  BY <1>1 DEF Handling
  <2>2. event.timestamp = counter[p] - 1
    BY <1>4, <2>1 DEF OrderInv
  <2>3. counter[p] + Len(link) = counter["leaf"]
    BY <1>4, <2>1 DEF OrderInv
  <2>4. link[1].timestamp = counter["leaf"] - Len(link) + 1 - 1
    BY <1>5 DEF OrderInv
  <2> QED BY <1>4, <1>5, <2>2, <2>3, <2>4
<1>7. CASE event'.timestamp = First
  <2>1. event'.update_file  BY <1>5, <1>7 DEF SentInv, SentWell
  <2>2. pc'[p] = "number"  BY <1>2, <2>1 DEF Recomputes, Source
  <2>3. ~Again'  BY <1>1, <1>3, <1>4, <1>7 DEF Again
  <2> QED BY <2>2, <2>3 DEF InnerExact, Filling
<1>8. CASE event'.timestamp > First
  <2>1. event.timestamp >= First  BY <1>4, <1>6, <1>8
  <2>2. InnerExact  BY <2>1 DEF InnerInv
  <2>3. NamesExact /\ old_nr_of_metrics[p] = total_metrics[p]
    BY <1>1, <2>2 DEF InnerExact, Filling, Twice
  <2>4. NamesExact'  BY <1>1, <1>3, <2>3 DEF NamesExact
  <2>5. pc'[p] \in {"number", "memory", "submit"}
    BY <1>2 DEF Source
  <2>6. total_metrics[p] = Len(file)  BY <2>3 DEF NamesExact
  <2> QED BY <1>1, <1>3, <1>8, <2>3, <2>4, <2>5, <2>6 DEF InnerExact
<1> QED BY <1>4, <1>6, <1>7, <1>8

\* The event is merged; the next own event is prepared.
LEMMA SubmitInner ==
  ASSUME NamesInv, OrderInv, SentInv, InnerInv, Submit
  PROVE  InnerInv'
<1> DEFINE p == "inner"
<1>1. /\ Typed /\ p \in Process /\ pc[p] = "submit" /\ round' = "next"
      /\ pc' = [pc EXCEPT ![p] = IF event.quit THEN "stopped" ELSE NextSource]
      /\ UNCHANGED <<file, numbers, since, event, total_metrics,
                     old_nr_of_metrics, desired_metrics, data>>
  BY DEF NamesInv, Process, Submit, fileVars, crawlerVars
<1>2. pc'[p] = IF event.quit THEN "stopped" ELSE NextSource
  BY <1>1 DEF Typed
<1>3. /\ First' = First /\ AllLengthsNew' = AllLengthsNew
      /\ file' = file
  BY <1>1, FileSame
<1> SUFFICES ASSUME AllLengthsNew, event.timestamp >= First PROVE InnerExact'
  BY <1>1, <1>3 DEF InnerInv
<1>4. NamesExact /\ (event.timestamp > First => old_nr_of_metrics[p] = total_metrics[p])
  BY <1>1 DEF InnerInv, InnerExact, Filling, Twice
<1>5. NamesExact'  BY <1>1, <1>3, <1>4 DEF NamesExact
<1>6. total_metrics[p] = Len(file)  BY <1>4 DEF NamesExact
<1>7. pc'[p] \in {"stopped", "number", "memory"}
  BY <1>2 DEF NextSource, Source
<1>8. pc'[p] = "memory" => event.timestamp > First
  <2> SUFFICES ASSUME pc'[p] = "memory" PROVE event.timestamp > First
    OBVIOUS
  <2>1. ~event.update_file  BY <1>2 DEF NextSource, Source
  <2>2. event.timestamp # First  BY <2>1 DEF SentInv, SentWell
  <2> QED BY <1>1, <2>2, OrderTypes, FirstType
<1>9. Twice' => event.timestamp > First
  BY <1>1, <1>3, <1>7, <1>8 DEF Twice
<1> QED BY <1>1, <1>3, <1>4, <1>5, <1>6, <1>7, <1>8, <1>9 DEF InnerExact, Filling

\* What the inner process knows of the file is inductive.
LEMMA InnerKept ==
  ASSUME NamesInv, OrderInv, EditInv, LeafInv, SentInv, InnerInv, [Next]_vars
  PROVE  InnerInv'
<1> DEFINE p == "inner"
<1>1. Typed /\ p \in Process /\ event.timestamp \in Int
  BY OrderTypes DEF NamesInv
<1>2. CASE Edit
  <2>1. PICK contents : Touch(contents)  BY <1>2 DEF Edit, Truncate, Remove, Write
  <2>2. /\ First' \in Int /\ counter["leaf"] <= First' /\ UNCHANGED event
        /\ counter["leaf"] \in Nat
    BY <1>1, <2>1, TouchFirst, FirstType
  <2>3. ~(event'.timestamp >= First')  BY <1>1, <2>2, Earlier
  <2> QED BY <2>3 DEF InnerInv
<1>3. CASE LeafStepped  BY <1>1, <1>3, LeafSteps, InnerSame
<1>4. CASE initialize_metrics_crawler_number_from_file(p)
  BY <1>4, NumberInner
<1>5. CASE NoNumber(p) \/ Exit(p) \/ Crash(p)
  <2>1. /\ \E s \in {"exited", "crashed"} : pc' = [pc EXCEPT ![p] = s]
        /\ UNCHANGED <<file, numbers, since, event>>
    BY <1>5 DEF NoNumber, Exit, Crash, fileVars, eventVars
  <2>2. pc'[p] \in {"exited", "crashed"}  BY <1>1, <2>1 DEF Typed
  <2> QED BY <2>2 DEF InnerInv, InnerExact, Filling
<1>6. CASE destroy_metrics_aggregator(p)
  <2>1. /\ pc[p] = "stopped" /\ pc'[p] = "destroyed"
        /\ UNCHANGED <<file, numbers, since, event, round, total_metrics,
                       old_nr_of_metrics>>
    BY <1>1, <1>6 DEF Typed, destroy_metrics_aggregator, fileVars, eventVars
  <2>2. First' = First /\ AllLengthsNew' = AllLengthsNew
    BY <2>1, FileSame
  <2> SUFFICES ASSUME AllLengthsNew, event.timestamp >= First
               PROVE  InnerExact'
    BY <2>1, <2>2 DEF InnerInv
  <2>3. Twice' => event.timestamp > First  BY <2>1, <2>2 DEF Twice
  <2>4. event.timestamp > First => old_nr_of_metrics[p] = total_metrics[p]
    BY <2>1 DEF InnerInv, InnerExact, Filling, Twice
  <2> QED BY <2>1, <2>3, <2>4 DEF InnerExact, Filling
<1>7. CASE TakeEvent  BY <1>7, TakeEventInner
<1>8. CASE FromFile  BY <1>8, FromFileInner
<1>9. CASE FromMemory  BY <1>9, FromMemoryInner
<1>10. CASE Submit  BY <1>10, SubmitInner
<1>11. CASE UNCHANGED vars
  BY <1>11, InnerSame DEF InnerFrame, vars, fileVars, crawlerVars, eventVars
<1> QED BY <1>2, <1>3, <1>4, <1>5, <1>6, <1>7, <1>8, <1>9, <1>10, <1>11, WhoSteps
        DEF InnerStepped, Either

\* What is merged, the inner process submits it with values of the file.
LEMMA MergedKept ==
  ASSUME NamesInv, OrderInv, EditInv, SentInv, InnerInv, MergedInv, [Next]_vars
  PROVE  MergedInv'
<1>1. Typed /\ "inner" \in Process /\ "leaf" \in Process
      /\ merged.theirs.timestamp \in Int /\ counter["leaf"] \in Nat
  BY OrderTypes DEF NamesInv
<1>2. CASE Edit
  <2>1. PICK contents : Touch(contents)  BY <1>2 DEF Edit, Truncate, Remove, Write
  <2>2. /\ First' \in Int /\ counter["leaf"] <= First' /\ UNCHANGED merged
    BY <1>1, <2>1, TouchFirst
  <2>3. ~(merged'.theirs.timestamp >= First')  BY <1>1, <2>2, Earlier
  <2> QED BY <2>3 DEF MergedInv
<1>3. ASSUME UNCHANGED <<file, numbers, since, merged>> PROVE MergedInv'
  <2>1. /\ First' = First /\ AllLengthsNew' = AllLengthsNew
        /\ file' = file
    BY <1>3, FileSame
  <2> QED BY <1>3, <2>1 DEF MergedInv, MergedExactly
<1>4. CASE LeafStepped
  <2>1. UNCHANGED <<file, numbers, since, merged>>
    BY <1>1, <1>4, LeafSteps DEF InnerFrame
  <2> QED BY <1>3, <2>1
<1>5. CASE Either("inner")
  <2>1. UNCHANGED <<file, numbers, since, merged>>
    BY <1>1, <1>5, OthersKept
  <2> QED BY <1>3, <2>1
<1>6. CASE TakeEvent \/ FromFile \/ FromMemory
  <2>1. UNCHANGED <<file, numbers, since, merged>>
    BY <1>6 DEF TakeEvent, FromFile, ReadNames, FromMemory, fileVars, eventVars
  <2> QED BY <1>3, <2>1
<1>7. CASE Submit
  <2>1. /\ UNCHANGED <<file, numbers, since>> /\ pc["inner"] = "submit"
        /\ merged'.theirs = event /\ merged'.own = data["inner"]
    BY <1>7, SubmitNames DEF Submit, fileVars
  <2>2. /\ First' = First /\ AllLengthsNew' = AllLengthsNew
        /\ file' = file
    BY <2>1, FileSame
  <2> SUFFICES ASSUME AllLengthsNew, event.timestamp >= First
               PROVE  MergedExactly'
    BY <2>1, <2>2 DEF MergedInv
  <2>3. Exact(event.gather_info, file)  BY DEF SentInv, SentWell
  <2>4. Exact(data["inner"].gather_info, file)
    BY <2>1 DEF InnerInv, InnerExact, Filling, NamesExact
  <2> QED BY <2>1, <2>2, <2>3, <2>4 DEF MergedExactly
<1>8. CASE UNCHANGED vars
  BY <1>3, <1>8 DEF vars, fileVars, eventVars
<1> QED BY <1>2, <1>4, <1>5, <1>6, <1>7, <1>8, WhoSteps DEF InnerStepped
-----------------------------------------------------------------------------
(***************************************************************************)
(* The end.                                                                *)
(***************************************************************************)
\* An event with quit stays the last one.
LEMMA QuitKept ==
  ASSUME NamesInv, QuitInv, [Next]_vars
  PROVE  QuitInv'
<1>1. Typed /\ "inner" \in Process /\ "leaf" \in Process /\ Len(link) \in Nat
      /\ link \in Seq(EventType)
  BY OrderTypes DEF NamesInv
<1>2. ASSUME UNCHANGED <<link, event>>, LeafEnded => LeafEnded',
             pc'["inner"] \in {"stopped", "destroyed"} =>
               event.quit \/ pc["inner"] \in {"stopped", "destroyed"}
      PROVE  QuitInv'
  BY <1>2 DEF QuitInv
<1>3. CASE Edit
  <2>1. UNCHANGED <<link, event, pc>>
    BY <1>3 DEF Edit, Truncate, Remove, Write, Touch, eventVars
  <2> QED BY <1>2, <2>1 DEF LeafEnded
<1>4. ASSUME NEW p \in Process, Either(p) PROVE QuitInv'
  <2>1. UNCHANGED <<link, event>> /\ \A q \in Process : q # p => pc'[q] = pc[q]
    <3>1. PICK q \in Process : q # p  BY <1>1
    <3> QED BY <1>1, <1>4, <3>1, OthersKept
  <2>2. \/ pc[p] \in {"number", "names"}
           /\ pc'[p] \in {"names", "exited", "crashed"}
        \/ pc[p] = "stopped" /\ pc'[p] = "destroyed"
    BY <1>1, <1>4 DEF Either, initialize_metrics_crawler_number_from_file, NoNumber,
                      Exit, Crash, destroy_metrics_aggregator, Typed
  <2>3. LeafEnded => LeafEnded'  BY <1>1, <2>1, <2>2 DEF LeafEnded
  <2>4. pc'["inner"] \in {"stopped", "destroyed"} =>
          pc["inner"] \in {"stopped", "destroyed"}
    BY <1>1, <2>1, <2>2
  <2> QED BY <1>2, <2>1, <2>3, <2>4
<1>5. CASE start_communication
  <2>1. pc["leaf"] = "names" /\ UNCHANGED event
    BY <1>5 DEF start_communication, ReadNames
  <2>0. PICK quit \in BOOLEAN :
          /\ \E t, u, nr, v :
               link' = Append(link, [timestamp |-> t, quit |-> quit,
                                     update_file |-> u, metrics_nr |-> nr,
                                     gather_info |-> v])
          /\ pc' = [pc EXCEPT !["leaf"] = IF quit THEN "stopped" ELSE "number"]
    BY <1>5, Zenon DEF start_communication
  <2>2. PICK t, u, nr, v :
          link' = Append(link, [timestamp |-> t, quit |-> quit,
                                update_file |-> u, metrics_nr |-> nr,
                                gather_info |-> v])
    BY <2>0
  <2>3. PICK e : e = [timestamp |-> t, quit |-> quit, update_file |-> u,
                      metrics_nr |-> nr, gather_info |-> v]
    OBVIOUS
  <2>4. link' = Append(link, e) /\ e.quit = quit  BY <2>2, <2>3
  <2>5. /\ Len(link') = Len(link) + 1
        /\ \A i \in 1 .. Len(link') :
             link'[i] = IF i = Len(link) + 1 THEN e ELSE link[i]
    BY <1>1, <2>4
  <2>6. ~LeafEnded  BY <2>1 DEF LeafEnded
  <2>7. pc'["leaf"] = (IF quit THEN "stopped" ELSE "number")
        /\ pc'["inner"] = pc["inner"]
    BY <1>1, <2>0 DEF Typed
  <2>8. \A i \in 1 .. Len(link) : ~link[i].quit  BY <2>6 DEF QuitInv
  <2>9. ASSUME NEW i \in 1 .. Len(link'), link'[i].quit
        PROVE  i = Len(link') /\ LeafEnded'
    <3>1. i = Len(link) + 1
      <4> SUFFICES ASSUME i # Len(link) + 1 PROVE FALSE  OBVIOUS
      <4>1. i \in 1 .. Len(link) /\ link'[i] = link[i]  BY <1>1, <2>5
      <4> QED BY <2>8, <2>9, <4>1
    <3>2. quit  BY <2>4, <2>5, <2>9, <3>1
    <3> QED BY <2>5, <2>7, <3>1, <3>2 DEF LeafEnded
  <2>10. ~event.quit /\ pc["inner"] \notin {"stopped", "destroyed"}
    BY <2>6 DEF QuitInv
  <2> QED BY <2>1, <2>7, <2>9, <2>10 DEF QuitInv
<1>6. CASE TakeEvent
  <2>1. /\ link # <<>> /\ event' = Head(link) /\ link' = Tail(link)
        /\ pc'["leaf"] = pc["leaf"]
        /\ pc'["inner"] \in {"number", "memory", "submit"}
    BY <1>1, <1>6 DEF TakeEvent, Source, Typed
  <2>2. /\ Len(link') = Len(link) - 1 /\ event' = link[1] /\ Len(link) >= 1
        /\ \A i \in 1 .. Len(link') : link'[i] = link[i + 1]
    BY <1>1, <2>1, HeadTailProperties, EmptySeq
  <2>3. LeafEnded' = LeafEnded  BY <2>1 DEF LeafEnded
  <2>4. ASSUME NEW i \in 1 .. Len(link'), link'[i].quit
        PROVE  i = Len(link') /\ LeafEnded'
    <3>1. i + 1 \in 1 .. Len(link) /\ link[i + 1].quit  BY <1>1, <2>2, <2>4
    <3>2. i + 1 = Len(link) /\ LeafEnded  BY <3>1 DEF QuitInv
    <3> QED BY <1>1, <2>2, <2>3, <3>2
  <2>5. ASSUME event'.quit PROVE link' = <<>> /\ LeafEnded'
    <3>1. 1 \in 1 .. Len(link) /\ link[1].quit  BY <1>1, <2>2, <2>5
    <3>2. 1 = Len(link) /\ LeafEnded  BY <3>1 DEF QuitInv
    <3>3. Len(link') = 0 /\ link' \in Seq(EventType)
      BY <1>1, <2>1, <2>2, <3>2, HeadTailProperties
    <3> QED BY <2>3, <3>2, <3>3, EmptySeq
  <2> QED BY <2>1, <2>4, <2>5 DEF QuitInv
<1>7. CASE FromFile \/ FromMemory
  <2>1. /\ UNCHANGED <<link, event>> /\ pc'["leaf"] = pc["leaf"]
        /\ pc'["inner"] \in {"submit", "idle"}
    BY <1>1, <1>7 DEF FromFile, ReadNames, FromMemory, Filled, Typed, eventVars
  <2> QED BY <1>2, <2>1 DEF LeafEnded
<1>8. CASE Submit
  <2>1. /\ UNCHANGED <<link, event>> /\ pc'["leaf"] = pc["leaf"]
        /\ pc'["inner"] = IF event.quit THEN "stopped" ELSE NextSource
    BY <1>1, <1>8 DEF Submit, Typed
  <2>2. pc'["inner"] \in {"stopped", "destroyed"} => event.quit
    BY <2>1 DEF NextSource, Source
  <2> QED BY <1>2, <2>1, <2>2 DEF LeafEnded
<1>9. CASE UNCHANGED vars
  BY <1>2, <1>9 DEF vars, eventVars, LeafEnded
<1> QED BY <1>1, <1>3, <1>4, <1>5, <1>6, <1>7, <1>8, <1>9, WhoSteps
        DEF LeafStepped, InnerStepped

\* A list freed to its length leaves no copy.
LEMMA FreedKept ==
  ASSUME NamesInv, FreedInv, [Next]_vars
  PROVE  FreedInv'
<1>1. Typed /\ "inner" \in Process /\ "leaf" \in Process /\ "leaf" # "inner"
  BY DEF NamesInv, Process
<1>2. ASSUME NEW p \in Process, pc'[p] = "destroyed",
             old_nr_of_metrics'[p] = total_metrics'[p]
      PROVE  live'[p] = 0
  <2>1. CASE destroy_metrics_aggregator(p)
    <3>1. old_nr_of_metrics[p] = total_metrics[p]
      BY <1>2, <2>1 DEF destroy_metrics_aggregator
    <3> QED BY <2>1, <3>1, destroyNames
  <2>2. CASE ~destroy_metrics_aggregator(p)
    <3>1. /\ pc[p] = "destroyed" /\ live'[p] = live[p]
          /\ old_nr_of_metrics'[p] = old_nr_of_metrics[p]
          /\ total_metrics'[p] = total_metrics[p]
      <4>1. CASE Edit
        BY <1>2, <4>1 DEF Edit, Truncate, Remove, Write, Touch, crawlerVars
      <4>2. CASE Either(p)
        BY <1>1, <1>2, <2>2, <4>2
           DEF Either, initialize_metrics_crawler_number_from_file, NoNumber, Exit,
               Crash, Typed
      <4>3. ASSUME NEW q \in Process, q # p, Either(q)
            PROVE  /\ pc[p] = "destroyed" /\ live'[p] = live[p]
                   /\ old_nr_of_metrics'[p] = old_nr_of_metrics[p]
                   /\ total_metrics'[p] = total_metrics[p]
        BY <1>1, <1>2, <4>3, OthersKept
      <4>4. CASE start_communication
        <5>1. /\ \E s \in {"stopped", "number"} : pc' = [pc EXCEPT !["leaf"] = s]
              /\ \E failed : ReadNames("leaf", failed)
          BY <4>4 DEF start_communication
        <5>2. p # "leaf"  BY <1>1, <1>2, <5>1 DEF Typed
        <5> QED BY <1>1, <1>2, <5>1, <5>2, ReadOthers DEF Typed
      <4>5. CASE FromFile
        <5>1. /\ pc' = [pc EXCEPT !["inner"] = Filled]
              /\ \E failed : ReadNames("inner", failed)
          BY <4>5 DEF FromFile
        <5>2. p # "inner"  BY <1>1, <1>2, <5>1 DEF Typed, Filled
        <5> QED BY <1>1, <1>2, <5>1, <5>2, ReadOthers DEF Typed
      <4>6. CASE TakeEvent \/ FromMemory \/ Submit
        <5>1. /\ UNCHANGED <<live, old_nr_of_metrics, total_metrics>>
              /\ \E s \in InnerStep \ {"destroyed"} : pc' = [pc EXCEPT !["inner"] = s]
          BY <4>6 DEF TakeEvent, FromMemory, Submit, crawlerVars, Source, Filled,
                      NextSource, InnerStep
        <5> QED BY <1>1, <1>2, <5>1 DEF Typed
      <4>7. CASE UNCHANGED vars  BY <1>2, <4>7 DEF vars, crawlerVars
      <4> QED BY <1>1, <4>1, <4>2, <4>3, <4>4, <4>5, <4>6, <4>7, WhoSteps
              DEF LeafStepped, InnerStepped
    <3> QED BY <1>2, <3>1 DEF FreedInv
  <2> QED BY <2>1, <2>2
<1> QED BY <1>2 DEF FreedInv
-----------------------------------------------------------------------------
\* Nothing has been read or sent, and the file has not been edited.
LEMMA InitExact == Init => ExactInv
<1> SUFFICES ASSUME Init PROVE ExactInv  OBVIOUS
<1> DEFINE p == "leaf"
<1>1. /\ file \in Files /\ Present /\ Len(file) \in Nat
  BY CrawlerAssumption, LenProperties DEF Init, Present
<1>2. PICK nr \in Uninitialized :
        /\ data = [leaf  |-> [metrics_nr |-> nr, gather_info |-> <<>>],
                   inner |-> [metrics_nr |-> 0,  gather_info |-> <<>>]]
        /\ numbers = <<nr, Len(file)>>
  BY DEF Init
<1>3. /\ since = -1 /\ pc[p] = "number" /\ counter[p] = 0
      /\ total_metrics[p] = 0 /\ pc["inner"] = "idle"
      /\ link = <<>> /\ event = NoEvent /\ merged.theirs = NoEvent
      /\ \A q \in Process : pc[q] # "destroyed"
  BY DEF Init, Process
<1>4. First = 0 /\ Begun = -1  BY <1>3 DEF First, Begun
<1>5. NoEvent.timestamp = -1 /\ ~NoEvent.quit  BY DEF NoEvent
<1>6. Len(numbers) = 2 /\ numbers[1] = nr /\ numbers[2] = Len(file)
  BY <1>2
<1>7. EditInv  BY <1>1, <1>6 DEF EditInv
<1>8. LeafInv
  <2>1. data[p].metrics_nr = nr  BY <1>2
  <2>2. Known(1)  BY <1>6, <2>1 DEF Known
  <2> QED BY <1>3, <1>4, <1>6, <2>2 DEF LeafInv
<1>9. SentInv  BY <1>3, <1>4, <1>5 DEF SentInv, SentWell
<1>10. InnerInv  BY <1>3, <1>4, <1>5 DEF InnerInv
<1>11. MergedInv  BY <1>3, <1>4, <1>5 DEF MergedInv
<1>12. QuitInv  BY <1>3, <1>5 DEF QuitInv
<1>13. FreedInv  BY <1>3 DEF FreedInv
<1> QED BY <1>7, <1>8, <1>9, <1>10, <1>11, <1>12, <1>13 DEF ExactInv

\* All that is known of the file, of the order of events and of the lists.
AllInv == CountInv /\ ExactInv

\* With no empty list among the files, all of this holds throughout.
LEMMA ExactHolds == ASSUME <<>> \notin Files PROVE Spec => []AllInv
<1>1. Init => AllInv  BY InitNames, InitOrder, InitExact DEF AllInv, CountInv
<1>2. AllInv /\ [Next]_vars => AllInv'
  <2> SUFFICES ASSUME AllInv, [Next]_vars PROVE AllInv'  OBVIOUS
  <2>1. /\ NamesInv /\ OrderInv /\ EditInv /\ LeafInv /\ SentInv
        /\ InnerInv /\ MergedInv /\ QuitInv /\ FreedInv
    BY DEF AllInv, CountInv, ExactInv
  <2>2. NamesInv'  BY <2>1, NamesKeptUp
  <2>3. OrderInv'  BY <2>1, <2>2, OrderKept
  <2>4. EditInv' /\ LeafInv'  BY <2>1, LeafKept
  <2>5. SentInv'  BY <2>1, SentKept
  <2>6. InnerInv'  BY <2>1, InnerKept
  <2>7. MergedInv'  BY <2>1, MergedKept
  <2>8. QuitInv' /\ FreedInv'  BY <2>1, QuitKept, FreedKept
  <2> QED BY <2>2, <2>3, <2>4, <2>5, <2>6, <2>7, <2>8
          DEF AllInv, CountInv, ExactInv
<1> QED BY <1>1, <1>2, PTL DEF Spec

(***************************************************************************)
(* The number the leaf reads first is enough to notice every edit, if all  *)
(* lists differ in length: from the first pulse begun after an edit, both  *)
(* events that are merged have exactly the values of the file.  A list     *)
(* without names is excluded, because update_file is set in the loop over  *)
(* the names and an empty one never sets it.                               *)
(***************************************************************************)
THEOREM NewLengthsMergeExactlyCorrect ==
  ASSUME <<>> \notin Files PROVE Spec => []NewLengthsMergeExactly
<1>1. AllInv => NewLengthsMergeExactly
  <2> SUFFICES ASSUME AllInv, merged.theirs.timestamp >= 0,
                      merged.theirs.timestamp >= since, AllLengthsNew
               PROVE  MergedExactly
    BY DEF NewLengthsMergeExactly
  <2>1. merged.theirs.timestamp >= First  BY DEF First
  <2> QED BY <2>1 DEF AllInv, ExactInv, MergedInv
<1> QED BY <1>1, ExactHolds, PTL

(***************************************************************************)
(* When both have come to the end, and the last two pulses found the file  *)
(* unchanged, old_nr_of_metrics is the length of the list: destroy frees   *)
(* all of it, and nothing beyond it.                                       *)
(***************************************************************************)
THEOREM DestroysExactlyCorrect ==
  ASSUME <<>> \notin Files PROVE Spec => []DestroysExactly
<1>1. AllInv => DestroysExactly
  <2> SUFFICES ASSUME AllInv,
                      \A p \in Process : pc[p] \in {"stopped", "destroyed"},
                      counter["leaf"] >= 2, Settled(counter["leaf"] - 1),
                      AllLengthsNew, NEW p \in Process
               PROVE  /\ old_nr_of_metrics[p] = total_metrics[p]
                      /\ pc[p] = "destroyed" => live[p] = 0
    BY DEF DestroysExactly
  <2>1. /\ Typed /\ OrderInv /\ EditInv /\ LeafInv /\ InnerInv /\ QuitInv
        /\ FreedInv
    BY DEF AllInv, CountInv, ExactInv, NamesInv
  <2>2. /\ "leaf" \in Process /\ "inner" \in Process
        /\ counter["leaf"] \in Nat /\ counter["inner"] \in Nat
        /\ since \in Int /\ event.timestamp \in Int
    BY <2>1, OrderTypes
  <2>3. /\ pc["leaf"] \in {"stopped", "destroyed"}
        /\ pc["inner"] \in {"stopped", "destroyed"}
    BY <2>2
  <2>4. Begun = counter["leaf"] - 1 /\ Begun > First /\ Present
    <3>1. Begun = counter["leaf"] - 1  BY <2>3 DEF Begun
    <3>2. since < counter["leaf"] - 1  BY <2>2 DEF Settled
    <3>3. Begun > First  BY <2>2, <3>1, <3>2 DEF First
    <3>4. Present  BY <2>1, <2>2, <3>2 DEF EditInv
    <3> QED BY <3>1, <3>3, <3>4
  <2>5. old_nr_of_metrics["leaf"] = total_metrics["leaf"]
    BY <2>1, <2>2, <2>3, <2>4, FirstType DEF LeafInv
  <2>6. old_nr_of_metrics["inner"] = total_metrics["inner"]
    <3>1. event.quit /\ link = <<>>  BY <2>1, <2>3 DEF QuitInv
    <3>2. Len(link) = 0 /\ ~Handling  BY <2>3, <3>1, EmptySeq DEF Handling
    <3>3. event.timestamp = counter["leaf"] - 1
      BY <2>1, <2>2, <3>2 DEF OrderInv
    <3>4. event.timestamp > First /\ event.timestamp >= First
      BY <2>1, <2>2, <2>4, <3>3, FirstType
    <3> QED BY <2>1, <2>3, <3>4 DEF InnerInv, InnerExact, Filling, Twice
  <2>7. old_nr_of_metrics[p] = total_metrics[p]
    BY <2>5, <2>6 DEF Process
  <2> QED BY <2>1, <2>7 DEF FreedInv
<1> QED BY <1>1, ExactHolds, PTL
=============================================================================
