---------------------------- MODULE CachesProofs ----------------------------
(***************************************************************************)
(* The two threads of the scan, for any files, records and load orders;     *)
(* then the pictures of the window, for any rows, screens and caches.       *)
(***************************************************************************)
EXTENDS Caches, OrderedProofs, TLAPS

\* Where one thread is tells where the other one is.  The main thread reads
\* the index only after it has seen done_, which the worker sets last.
HandOver ==
  /\ done => worker = "exited"
  /\ main \in {"grouping", "parsing"} => done
  /\ main = "starting" => worker = "none"

\* The worker's steps need a worker that runs, and leave the main thread and
\* the end of the service alone.
LEMMA WorkerRuns ==
  ASSUME Worker
  PROVE  /\ worker \notin {"none", "exited"} /\ worker' # "none"
         /\ UNCHANGED <<main, stop, running>>
         /\ done' => done \/ worker' = "exited"
<1>1. CASE ListFiles BY <1>1 DEF ListFiles, mainVars
<1>2. CASE ListFails BY <1>2 DEF ListFails, Finished, mainVars
<1>3. CASE NextFile BY <1>3 DEF NextFile, Finished, mainVars
<1>4. CASE Load BY <1>4 DEF Load, mainVars
<1>5. CASE Reject BY <1>5 DEF Reject, mainVars
<1>6. CASE CountRejected BY <1>6 DEF CountRejected, mainVars
<1>7. CASE Merge BY <1>7 DEF Merge, mainVars
<1> QED BY <1>1, <1>2, <1>3, <1>4, <1>5, <1>6, <1>7 DEF Worker

\* The main thread's steps never write the index or its counters.
LEMMA MainOnlyReads ==
  ASSUME Main
  PROVE  UNCHANGED <<index, counters, done>>
<1>1. CASE Start BY <1>1 DEF Start
<1>2. CASE LoadMapper BY <1>2 DEF LoadMapper
<1>3. CASE Poll BY <1>3 DEF Poll
<1>4. CASE GroupRecords BY <1>4 DEF GroupRecords
<1>5. CASE ParseFile BY <1>5 DEF ParseFile
<1>6. CASE Complete BY <1>6 DEF Complete
<1>7. CASE GiveUp BY <1>7 DEF GiveUp
<1>8. CASE Join BY <1>8 DEF Join
<1>9. ASSUME NEW t \in Ids, LoadParent(t) PROVE UNCHANGED <<index, counters, done>>
  BY <1>9 DEF LoadParent
<1> QED BY <1>1, <1>2, <1>3, <1>4, <1>5, <1>6, <1>7, <1>8, <1>9 DEF Main

LEMMA HandOverStarts == Init => HandOver
BY DEF Init, HandOver

LEMMA HandOverStep == HandOver /\ [Next]_vars => HandOver'
<1> SUFFICES ASSUME HandOver, [Next]_vars PROVE HandOver'
  OBVIOUS
<1> USE DEF HandOver
<1>1. CASE Worker BY <1>1, WorkerRuns
<1>2. CASE Main
  <2>1. CASE Start BY <2>1 DEF Start
  <2>2. CASE LoadMapper BY <2>2 DEF LoadMapper, workerVars
  <2>3. CASE Poll BY <2>3 DEF Poll, workerVars
  <2>4. CASE GroupRecords BY <2>4 DEF GroupRecords, workerVars
  <2>5. CASE ParseFile BY <2>5 DEF ParseFile, workerVars, mainVars
  <2>6. CASE Complete BY <2>6 DEF Complete, workerVars
  <2>7. CASE GiveUp BY <2>7 DEF GiveUp, workerVars
  <2>8. CASE Join BY <2>8 DEF Join, workerVars
  <2>9. ASSUME NEW t \in Ids, LoadParent(t) PROVE HandOver'
    BY <2>9 DEF LoadParent, workerVars, mainVars
  <2> QED BY <1>2, <2>1, <2>2, <2>3, <2>4, <2>5, <2>6, <2>7, <2>8, <2>9 DEF Main
<1>3. CASE UNCHANGED vars BY <1>3 DEF vars, workerVars, mainVars
<1> QED BY <1>1, <1>2, <1>3 DEF Next

THEOREM HandOverInvariance == Spec => []HandOver
BY HandOverStarts, HandOverStep, PTL DEF Spec

\* From the moment main.cpp uses references into the index (typeIndex,
\* dbpfFiles, getReader), nothing changes it: the references stay valid.
THEOREM IndexFrozenWhileRead == Spec => FrozenWhileRead
<1>1. ASSUME HandOver, [Next]_vars
      PROVE  [(main \in {"grouping", "parsing"} => UNCHANGED <<index, counters>>)]_vars
  <2>1. CASE Worker BY <1>1, <2>1, WorkerRuns DEF HandOver
  <2>2. CASE Main BY <2>2, MainOnlyReads
  <2> QED BY <1>1, <2>1, <2>2 DEF Next
<1> QED BY <1>1, HandOverInvariance, PTL DEF Spec, FrozenWhileRead

-----------------------------------------------------------------------------
(* The last of a sequence of files that is in a set.                       *)

LastIn(s, S) == LET ks == {k \in DOMAIN s : s[k] \in S} IN IF ks = {} THEN None ELSE s[Max(ks)]

\* The first and the last of some positions of a sequence.
LEMMA EndsOf ==
  ASSUME NEW n \in Nat, NEW ks \in SUBSET (1 .. n), ks # {}
  PROVE  /\ Max(ks) \in ks /\ \A x \in ks : x <= Max(ks)
         /\ Min(ks) \in ks /\ \A x \in ks : Min(ks) <= x
<1>1. IsFiniteSet(1 .. n)
  BY FiniteUpTo
<1>2. IsFiniteSet(ks)
  BY <1>1, FS_Subset
<1>3. \A k \in ks : k \in Int
  OBVIOUS
<1>4. ks \in SUBSET Int
  BY <1>3
<1>5. \E a \in ks : \A x \in ks : a <= x
  BY <1>2, <1>4, LeastAndGreatest
<1>6. \E b \in ks : \A x \in ks : x <= b
  BY <1>2, <1>4, LeastAndGreatest
<1>7. \E b \in ks : \A x \in ks : b >= x
  BY <1>3, <1>6
<1>8. Min(ks) \in ks /\ \A x \in ks : Min(ks) <= x
  BY <1>5 DEF Min
<1>9. Max(ks) \in ks /\ \A x \in ks : Max(ks) >= x
  BY <1>7 DEF Max
<1> QED
  BY <1>3, <1>8, <1>9

LEMMA LastInOK ==
  ASSUME NEW n \in Nat, NEW s, DOMAIN s = 1 .. n, NEW S
  PROVE  \/ LastIn(s, S) = None /\ \A k \in 1 .. n : s[k] \notin S
         \/ \E k \in 1 .. n : /\ s[k] \in S /\ LastIn(s, S) = s[k]
                              /\ \A j \in 1 .. n : s[j] \in S => j <= k
<1> DEFINE ks == {k \in DOMAIN s : s[k] \in S}
<1>1. LastIn(s, S) = IF ks = {} THEN None ELSE s[Max(ks)]
  BY DEF LastIn
<1>2. ks \in SUBSET (1 .. n) /\ \A k \in 1 .. n : k \in ks <=> s[k] \in S
  OBVIOUS
<1> HIDE DEF ks
<1>3. CASE ks = {}
  BY <1>1, <1>2, <1>3
<1>4. CASE ks # {}
  <2>1. Max(ks) \in ks /\ \A x \in ks : x <= Max(ks)
    BY <1>2, <1>4, EndsOf
  <2> DEFINE b == Max(ks)
  <2>2. b \in 1 .. n /\ s[b] \in S /\ LastIn(s, S) = s[b] /\ \A x \in ks : x <= b
    BY <1>1, <1>2, <1>4, <2>1
  <2> HIDE DEF b
  <2> QED
    BY <1>2, <2>2
<1> QED
  BY <1>3, <1>4

\* The sequence u is s, which has n elements, followed by p, m times.
Extends(u, s, n, m, p) ==
  /\ DOMAIN s = 1 .. n /\ DOMAIN u = 1 .. n + m
  /\ \A k \in 1 .. n : u[k] = s[k]
  /\ \A k \in n + 1 .. n + m : u[k] = p

\* Files that are looked at one after the other: the last one counts.
LEMMA LastInLonger ==
  ASSUME NEW n \in Nat, NEW m \in Nat, NEW s, NEW u, NEW p, NEW S, Extends(u, s, n, m, p)
  PROVE  LastIn(u, S) = IF m > 0 /\ p \in S THEN p ELSE LastIn(s, S)
<1>0. /\ DOMAIN s = 1 .. n /\ DOMAIN u = 1 .. n + m
      /\ \A k \in 1 .. n : u[k] = s[k]
      /\ \A k \in n + 1 .. n + m : u[k] = p
  BY DEF Extends
<1> DEFINE last == LastIn(u, S)
           before == LastIn(s, S)
<1>1. \/ last = None /\ \A k \in 1 .. n + m : u[k] \notin S
      \/ \E k \in 1 .. n + m : /\ u[k] \in S /\ last = u[k]
                               /\ \A j \in 1 .. n + m : u[j] \in S => j <= k
  <2>1. n + m \in Nat
    OBVIOUS
  <2> QED
    BY <1>0, <2>1, LastInOK
<1>2. \/ before = None /\ \A k \in 1 .. n : s[k] \notin S
      \/ \E k \in 1 .. n : /\ s[k] \in S /\ before = s[k]
                           /\ \A j \in 1 .. n : s[j] \in S => j <= k
  BY <1>0, LastInOK
<1> HIDE DEF last, before
<1>3. CASE m > 0 /\ p \in S
  <2>1. n + m \in 1 .. n + m /\ n + m \in n + 1 .. n + m
    BY <1>3
  <2>2. u[n + m] = p
    BY <1>0, <2>1
  <2>3. PICK k \in 1 .. n + m : /\ u[k] \in S /\ last = u[k]
                                /\ \A j \in 1 .. n + m : u[j] \in S => j <= k
    BY <1>1, <1>3, <2>1, <2>2
  <2>4. n + m <= k
    BY <1>3, <2>1, <2>2, <2>3
  <2>5. k = n + m
    BY <2>3, <2>4
  <2> QED
    BY <1>3, <2>2, <2>3, <2>5 DEF last
<1>4. CASE ~(m > 0 /\ p \in S)
  <2>1. \A k \in 1 .. n + m : u[k] \in S => k \in 1 .. n
    <3>1. TAKE k \in 1 .. n + m
    <3>2. k \in 1 .. n \/ (k \in n + 1 .. n + m /\ m > 0)
      OBVIOUS
    <3> QED
      BY <1>0, <1>4, <3>2
  <2>2. \A k \in 1 .. n : k \in 1 .. n + m
    OBVIOUS
  <2>3. CASE \A k \in 1 .. n : s[k] \notin S
    BY <1>0, <1>1, <1>2, <1>4, <2>1, <2>3 DEF last, before
  <2>4. CASE \E k \in 1 .. n : s[k] \in S
    <3>1. PICK i \in 1 .. n : /\ s[i] \in S /\ before = s[i]
                              /\ \A j \in 1 .. n : s[j] \in S => j <= i
      BY <1>2, <2>4
    <3>2. u[i] \in S /\ i \in 1 .. n + m
      BY <1>0, <2>2, <3>1
    <3>3. PICK k \in 1 .. n + m : /\ u[k] \in S /\ last = u[k]
                                  /\ \A j \in 1 .. n + m : u[j] \in S => j <= k
      BY <1>1, <3>2
    <3>4. k \in 1 .. n /\ s[k] \in S
      BY <1>0, <2>1, <3>3
    <3>5. k <= i /\ i <= k
      BY <3>1, <3>2, <3>3, <3>4
    <3>6. k = i
      BY <3>1, <3>4, <3>5
    <3> QED
      BY <1>0, <1>4, <3>1, <3>3, <3>6 DEF last, before
  <2> QED
    BY <2>3, <2>4
<1> QED
  BY <1>3, <1>4
-----------------------------------------------------------------------------
(* The state of the scan.  IndexInv is what the worker keeps and the main   *)
(* thread relies on; OutputOK is what the main thread makes of it.  Nobody  *)
(* has asked the worker to stop while the scan is Whole: its results count. *)

Whole == ~stop \/ succeeded

StopOK ==
  /\ worker \in {"none", "listing", "next", "loading", "merging", "rejected", "exited"}
  /\ main \in {"starting", "mapper", "polling", "grouping", "parsing", "joining", "ended"}
  /\ stop \in BOOLEAN /\ done \in BOOLEAN /\ running \in BOOLEAN /\ succeeded \in BOOLEAN
  /\ stop => main \in {"joining", "ended"}
  /\ succeeded => main \in {"joining", "ended"} /\ done
  /\ worker = "none" => main = "starting"

Types ==
  /\ order \in Orders /\ disk \in [Paths -> Contents \cup {Bad}]
  /\ files \in {<<>>, order} /\ pos \in 0 .. Len(order) + 1 /\ local \in Seq(Ids)
  /\ fileIndices \in [Ids -> Seq(Nat)]
  /\ \A t \in Ids : \A j \in DOMAIN fileIndices[t] : fileIndices[t][j] \in DOMAIN files
  /\ byType \in [{"exemplar", "cohort"} -> Seq(Ids)]
  /\ \A type \in {"exemplar", "cohort"} :
       \A k \in DOMAIN byType[type] : TypeOf(byType[type][k]) = type
  /\ readers \in [Paths -> Nat] /\ entries \in Nat /\ errors \in Nat
  /\ processed \in 0 .. Len(files)

\* How far the worker is.
Progress ==
  /\ worker \in {"none", "listing"} => files = <<>>
  /\ worker \in {"next", "loading", "merging", "rejected"} =>
       files = order /\ pos = processed + 1
  /\ worker \in {"loading", "merging", "rejected"} => pos \in DOMAIN files
  /\ worker = "merging" =>
       disk[files[pos]] # Bad /\ (Whole => local = disk[files[pos]])
  /\ worker = "rejected" => disk[files[pos]] = Bad
  /\ worker = "exited" /\ Whole => processed = Len(files)

\* The files a record was found in, as they were indexed, and the first n
\* files of the load order.
Taken(t) == [j \in DOMAIN fileIndices[t] |-> files[fileIndices[t][j]]]
First(n) == [k \in 1 .. n |-> order[k]]
Known(t) == t \in Range(byType[TypeOf(t)])

\* The index is right as far as the worker has come: for any selection of the
\* files, the last one that has the record is the last one the index names.
IndexOK == Whole =>
  /\ \A t \in Ids : \A S \in SUBSET Paths :
       LastIn(Taken(t), S) = LastIn(First(processed), S \cap Holders(t))
  /\ \A t \in Ids : Known(t) <=> \E k \in 1 .. processed : Holds(order[k], t)
  /\ \A t \in Ids : \A j \in DOMAIN fileIndices[t] : readers[files[fileIndices[t][j]]] > 0
  /\ IsFiniteSet(Records(processed)) /\ entries = Cardinality(Records(processed))

IndexInv == HandOver /\ StopOK /\ Types /\ Progress /\ IndexOK

LEMMA WorkerKeeps ==
  ASSUME Worker
  PROVE  UNCHANGED <<order, disk, groups, parsed, names, cached, main, succeeded, stop, running>>
<1>1. CASE ListFiles BY <1>1 DEF ListFiles, mainVars, inputs, output
<1>2. CASE ListFails BY <1>2 DEF ListFails, mainVars, inputs, output
<1>3. CASE NextFile BY <1>3 DEF NextFile, mainVars, inputs, output
<1>4. CASE Load BY <1>4 DEF Load, mainVars, inputs, output
<1>5. CASE Reject BY <1>5 DEF Reject, mainVars, inputs, output
<1>6. CASE CountRejected BY <1>6 DEF CountRejected, mainVars, inputs, output
<1>7. CASE Merge BY <1>7 DEF Merge, mainVars, inputs, output
<1> QED BY <1>1, <1>2, <1>3, <1>4, <1>5, <1>6, <1>7 DEF Worker

\* What the main thread's steps leave alone, and that they make no scan whole
\* that was not.
LEMMA MainKeeps ==
  ASSUME HandOver, StopOK, Main
  PROVE  /\ UNCHANGED <<order, disk, files, fileIndices, byType, readers>>
         /\ UNCHANGED <<processed, entries, errors, done, pos, local>>
         /\ worker' = worker \/ (main = "starting" /\ worker = "none" /\ worker' = "listing")
         /\ Whole' => Whole
<1> USE DEF inputs, index, counters, workerVars, mainVars, Whole
<1>1. CASE Start BY <1>1 DEF Start, HandOver
<1>2. CASE LoadMapper BY <1>2 DEF LoadMapper
<1>3. CASE Poll BY <1>3 DEF Poll
<1>4. CASE GroupRecords BY <1>4 DEF GroupRecords
<1>5. CASE ParseFile BY <1>5 DEF ParseFile
<1>6. CASE Complete BY <1>6 DEF Complete, StopOK
<1>7. CASE GiveUp BY <1>7 DEF GiveUp
<1>8. CASE Join BY <1>8 DEF Join
<1>9. ASSUME NEW t \in Ids, LoadParent(t)
      PROVE  /\ UNCHANGED <<order, disk, files, fileIndices, byType, readers>>
             /\ UNCHANGED <<processed, entries, errors, done, pos, local>>
             /\ worker' = worker \/ (main = "starting" /\ worker = "none" /\ worker' = "listing")
             /\ Whole' => Whole
  BY <1>9 DEF LoadParent
<1> QED BY <1>1, <1>2, <1>3, <1>4, <1>5, <1>6, <1>7, <1>8, <1>9 DEF Main

LEMMA StopStep ==
  ASSUME HandOver, StopOK, [Next]_vars
  PROVE  StopOK'
<1> USE DEF StopOK
<1>1. CASE Worker
  <2>0. UNCHANGED <<main, succeeded, stop, running>>
    BY <1>1, WorkerKeeps
  <2>1. CASE ListFiles BY <2>0, <2>1 DEF ListFiles
  <2>2. CASE ListFails BY <2>0, <2>2 DEF ListFails, Finished
  <2>3. CASE NextFile
    <3>1. (worker' = "exited" /\ done' = TRUE) \/ (worker' = "loading" /\ done' = done)
      BY <2>3 DEF NextFile, Finished
    <3> QED BY <2>0, <3>1
  <2>4. CASE Load BY <2>0, <2>4 DEF Load
  <2>5. CASE Reject BY <2>0, <2>5 DEF Reject
  <2>6. CASE CountRejected BY <2>0, <2>6 DEF CountRejected
  <2>7. CASE Merge BY <2>0, <2>7 DEF Merge
  <2> QED BY <1>1, <2>1, <2>2, <2>3, <2>4, <2>5, <2>6, <2>7 DEF Worker
<1>2. CASE Main
  <2>1. CASE Start BY <2>1 DEF Start
  <2>2. CASE LoadMapper BY <2>2 DEF LoadMapper, workerVars
  <2>3. CASE Poll BY <2>3 DEF Poll, workerVars
  <2>4. CASE GroupRecords BY <2>4 DEF GroupRecords, workerVars
  <2>5. CASE ParseFile BY <2>5 DEF ParseFile, workerVars, mainVars
  <2>6. CASE Complete BY <2>6 DEF Complete, workerVars, HandOver
  <2>7. CASE GiveUp BY <2>7 DEF GiveUp, workerVars
  <2>8. CASE Join BY <2>8 DEF Join, workerVars
  <2>9. ASSUME NEW t \in Ids, LoadParent(t) PROVE StopOK'
    BY <2>9 DEF LoadParent, workerVars, mainVars
  <2> QED BY <1>2, <2>1, <2>2, <2>3, <2>4, <2>5, <2>6, <2>7, <2>8, <2>9 DEF Main
<1>3. CASE UNCHANGED vars BY <1>3 DEF vars, workerVars, mainVars
<1> QED BY <1>1, <1>2, <1>3 DEF Next

LEMMA InOrder ==
  ASSUME Types
  PROVE  /\ order \in Seq(Paths) /\ files \in Seq(Paths)
         /\ Len(order) \in Nat /\ DOMAIN order = 1 .. Len(order)
         /\ Len(files) \in Nat /\ DOMAIN files = 1 .. Len(files)
         /\ \A i \in DOMAIN files : files[i] \in Paths
         /\ \A i \in DOMAIN order : order[i] \in Paths
<1>1. order \in Seq(Paths)
  BY ScanAssumption DEF Types
<1>2. files \in Seq(Paths)
  BY <1>1, EmptySeq DEF Types
<1> QED
  BY <1>1, <1>2, LenProperties, ElementOfSeq

\* The worker at a file of the load order.
LEMMA AtFile ==
  ASSUME Types, Progress, worker \in {"loading", "merging", "rejected"}
  PROVE  /\ files = order /\ processed \in Nat /\ pos = processed + 1
         /\ processed + 1 \in DOMAIN order /\ files[pos] = order[processed + 1]
         /\ files[pos] \in Paths
         /\ disk[files[pos]] # Bad => disk[files[pos]] \in Seq(Ids)
<1>1. files = order /\ pos = processed + 1 /\ pos \in DOMAIN files
  BY DEF Progress
<1>2. processed \in Nat /\ files[pos] \in Paths
  BY <1>1, InOrder DEF Types
<1>3. disk[files[pos]] # Bad => disk[files[pos]] \in Contents
  BY <1>2 DEF Types
<1> QED
  BY <1>1, <1>2, <1>3, ScanAssumption

\* The two places of a file that may be listed more than once.
LEMMA PlacesOK ==
  ASSUME Types, NEW i \in DOMAIN files
  PROVE  /\ IndexOf(files[i]) \in DOMAIN files /\ files[IndexOf(files[i])] = files[i]
         /\ OrderIndex(files[i]) \in DOMAIN files /\ files[OrderIndex(files[i])] = files[i]
<1> DEFINE ps == Positions(files, files[i])
<1>1. i \in ps /\ \A k \in ps : k \in DOMAIN files /\ files[k] = files[i]
  BY DEF Positions
<1>2. Len(files) \in Nat /\ DOMAIN files = 1 .. Len(files)
  BY InOrder
<1>3. ps \in SUBSET (1 .. Len(files)) /\ ps # {}
  BY <1>1, <1>2
<1>4. IndexOf(files[i]) = Max(ps) /\ OrderIndex(files[i]) = Min(ps)
  BY DEF IndexOf, OrderIndex
<1> HIDE DEF ps
<1>5. Min(ps) \in ps /\ Max(ps) \in ps
  BY <1>2, <1>3, EndsOf
<1> QED
  BY <1>1, <1>4, <1>5

\* How often a record is in the file that is merged.
LEMMA PositionsCounted ==
  ASSUME NEW s \in Seq(Ids), NEW t
  PROVE  /\ Cardinality(Positions(s, t)) \in Nat
         /\ Cardinality(Positions(s, t)) > 0 <=> t \in Range(s)
<1> DEFINE ps == Positions(s, t)
<1>1. ps = {k \in DOMAIN s : s[k] = t}
  BY DEF Positions
<1>2. Len(s) \in Nat /\ DOMAIN s = 1 .. Len(s)
  BY LenProperties
<1>3. IsFiniteSet(ps)
  <2>1. IsFiniteSet(1 .. Len(s)) /\ ps \in SUBSET (1 .. Len(s))
    BY <1>1, <1>2, FiniteUpTo
  <2> QED
    BY <2>1, FS_Subset
<1>4. Cardinality(ps) \in Nat /\ (Cardinality(ps) = 0 <=> ps = {})
  BY <1>3, FS_CardinalityType, FS_EmptySet
<1>5. ps # {} <=> t \in Range(s)
  BY <1>1 DEF Range
<1> HIDE DEF ps
<1>6. Cardinality(ps) > 0 <=> t \in Range(s)
  BY <1>4, <1>5
<1> QED
  BY <1>4, <1>6 DEF ps

\* What the merge appends to the list of one record.
LEMMA MergeAppends ==
  ASSUME Types, Progress, Merge, NEW t \in Ids
  PROVE  \E n, m \in Nat :
           /\ n = Len(fileIndices[t]) /\ DOMAIN fileIndices[t] = 1 .. n
           /\ m > 0 <=> t \in Range(local)
           /\ fileIndices'[t] \in Seq(Nat) /\ DOMAIN fileIndices'[t] = 1 .. n + m
           /\ \A j \in 1 .. n : fileIndices'[t][j] = fileIndices[t][j]
           /\ \A j \in n + 1 .. n + m : fileIndices'[t][j] = IndexOf(files[pos])
<1>1. IndexOf(files[pos]) \in Nat
  BY PlacesOK, InOrder DEF Merge, Progress
<1>2. PICK m \in Nat : m = Cardinality(Positions(local, t)) /\ (m > 0 <=> t \in Range(local))
  <2>1. local \in Seq(Ids)
    BY DEF Types
  <2> QED
    BY <2>1, PositionsCounted
<1>3. PICK i \in Nat : i = IndexOf(files[pos])
  BY <1>1
<1>4. PICK s \in Seq(Nat) : s = fileIndices[t]
  BY DEF Types
<1> DEFINE u == [k \in 1 .. m |-> i]
<1>5. u \in Seq(Nat) /\ Len(u) = m /\ \A k \in 1 .. m : u[k] = i
  OBVIOUS
<1>6. fileIndices'[t] = s \o u
  <2>1. fileIndices' = [x \in Ids |-> fileIndices[x] \o
           [k \in 1 .. Cardinality(Positions(local, x)) |-> IndexOf(files[pos])]]
    BY DEF Merge, Indexed
  <2>2. fileIndices'[t] = fileIndices[t] \o
           [k \in 1 .. Cardinality(Positions(local, t)) |-> IndexOf(files[pos])]
    BY <2>1
  <2> QED
    BY <1>2, <1>3, <1>4, <2>2
<1> HIDE DEF u
<1>7. /\ Len(s) \in Nat /\ DOMAIN s = 1 .. Len(s)
      /\ s \o u \in Seq(Nat) /\ Len(s \o u) = Len(s) + m /\ DOMAIN (s \o u) = 1 .. Len(s) + m
      /\ \A j \in 1 .. Len(s) + m : (s \o u)[j] = IF j <= Len(s) THEN s[j] ELSE u[j - Len(s)]
  <2>1. Len(s) \in Nat /\ DOMAIN s = 1 .. Len(s)
    BY LenProperties
  <2>2. /\ s \o u \in Seq(Nat) /\ Len(s \o u) = Len(s) + Len(u)
        /\ \A j \in 1 .. Len(s) + Len(u) : (s \o u)[j] = IF j <= Len(s) THEN s[j] ELSE u[j - Len(s)]
    BY <1>5, ConcatProperties
  <2>3. DOMAIN (s \o u) = 1 .. Len(s \o u)
    BY <2>2, LenProperties
  <2> QED
    BY <1>5, <2>1, <2>2, <2>3
<1>8. PICK n \in Nat : n = Len(s)
  BY <1>7
<1>9. \A j \in 1 .. n : fileIndices'[t][j] = s[j]
  <2>1. TAKE j \in 1 .. n
  <2>2. j \in 1 .. n + m /\ j <= n
    OBVIOUS
  <2> QED
    BY <1>6, <1>7, <1>8, <2>2
<1>10. \A j \in n + 1 .. n + m : fileIndices'[t][j] = i
  <2>1. TAKE j \in n + 1 .. n + m
  <2>2. j \in 1 .. n + m /\ ~(j <= n) /\ j - n \in 1 .. m
    OBVIOUS
  <2> QED
    BY <1>5, <1>6, <1>7, <1>8, <2>2
<1> QED
  BY <1>2, <1>3, <1>4, <1>6, <1>7, <1>8, <1>9, <1>10

\* The ids the merge adds under each type are the ones of the file.
LEMMA MergeLists ==
  ASSUME Types, Merge, NEW type \in {"exemplar", "cohort"}
  PROVE  /\ byType'[type] \in Seq(Ids)
         /\ \A t : t \in Range(byType'[type]) <=>
              t \in Range(byType[type]) \/ (t \in Range(local) /\ TypeOf(t) = type)
<1> DEFINE I == {k \in DOMAIN local : TypeOf(local[k]) = type}
<1>1. local \in Seq(Ids) /\ byType[type] \in Seq(Ids) /\ DOMAIN byType = {"exemplar", "cohort"}
  BY DEF Types
<1>2. byType'[type] = byType[type] \o Picked(local, I)
  <2>1. byType' = [y \in DOMAIN byType |-> byType[y] \o OfType(local, y)]
    BY DEF Merge, Indexed
  <2>2. byType'[type] = byType[type] \o OfType(local, type)
    BY <1>1, <2>1
  <2> QED
    BY <2>2 DEF OfType
<1>3. I \in SUBSET DOMAIN local
  OBVIOUS
<1>4. \A t : t \in {local[k] : k \in I} <=> t \in Range(local) /\ TypeOf(t) = type
  BY DEF Range
<1> HIDE DEF I
<1>5. Picked(local, I) \in Seq(Ids)
  BY <1>1, <1>3, PickedOK
<1>6. Range(Picked(local, I)) = {local[k] : k \in I}
  BY <1>1, <1>3, PickedOnce
<1>7. byType'[type] \in Seq(Ids)
  BY <1>1, <1>2, <1>5, ConcatProperties
<1>8. Range(byType'[type]) = Range(byType[type]) \cup Range(Picked(local, I))
  BY <1>1, <1>2, <1>5, RangeConcatenation
<1> QED
  BY <1>4, <1>6, <1>7, <1>8

\* The types of the inputs and of the index do not change when their variables do not.
LEMMA SameTypes ==
  ASSUME Types,
         UNCHANGED <<order, disk, files, pos, local>>,
         UNCHANGED <<fileIndices, byType, readers, processed>>,
         entries' \in Nat, errors' \in Nat
  PROVE  Types'
BY DEF Types

LEMMA MergeTypes ==
  ASSUME HandOver, StopOK, Types, Progress, Merge
  PROVE  Types'
<1>0. /\ UNCHANGED <<order, disk, files, errors>>
      /\ pos' = pos + 1 /\ local' = <<>> /\ processed' = processed + 1
      /\ entries' = entries + Len(local) /\ readers' = [readers EXCEPT ![files[pos]] = @ + 1]
  BY WorkerKeeps DEF Merge, Worker
<1>1. /\ files = order /\ pos = processed + 1 /\ processed \in Nat
      /\ processed + 1 \in DOMAIN order /\ files[pos] \in Paths
  BY AtFile DEF Merge
<1>2. Len(order) \in Nat /\ DOMAIN order = 1 .. Len(order)
  BY InOrder
<1>3. pos' \in 0 .. Len(order) + 1 /\ processed' \in 0 .. Len(files)
  BY <1>0, <1>1, <1>2
<1>4. local' \in Seq(Ids) /\ entries' \in Nat
  <2>1. local \in Seq(Ids) /\ entries \in Nat
    BY DEF Types
  <2>2. Len(local) \in Nat
    BY <2>1, LenProperties
  <2> QED
    BY <1>0, <2>1, <2>2, EmptySeq
<1>5. readers' \in [Paths -> Nat]
  BY <1>0, <1>1 DEF Types
<1>6. fileIndices' = [t \in Ids |-> fileIndices'[t]]
  BY DEF Merge, Indexed
<1>7. ASSUME NEW t \in Ids
      PROVE  /\ fileIndices'[t] \in Seq(Nat)
             /\ \A j \in DOMAIN fileIndices'[t] : fileIndices'[t][j] \in DOMAIN files
  <2>1. PICK n, m \in Nat :
          /\ DOMAIN fileIndices[t] = 1 .. n
          /\ fileIndices'[t] \in Seq(Nat) /\ DOMAIN fileIndices'[t] = 1 .. n + m
          /\ \A j \in 1 .. n : fileIndices'[t][j] = fileIndices[t][j]
          /\ \A j \in n + 1 .. n + m : fileIndices'[t][j] = IndexOf(files[pos])
    BY MergeAppends
  <2>2. \A j \in 1 .. n : fileIndices[t][j] \in DOMAIN files
    BY <2>1 DEF Types
  <2>3. IndexOf(files[pos]) \in DOMAIN files
    BY <1>1, PlacesOK
  <2>4. ASSUME NEW j \in 1 .. n + m PROVE fileIndices'[t][j] \in DOMAIN files
    <3>1. j \in 1 .. n \/ j \in n + 1 .. n + m
      OBVIOUS
    <3> QED
      BY <2>1, <2>2, <2>3, <3>1
  <2> QED
    BY <2>1, <2>4
<1>8. fileIndices' \in [Ids -> Seq(Nat)]
  BY <1>6, <1>7
<1>9. ASSUME NEW type \in {"exemplar", "cohort"}
      PROVE  /\ byType'[type] \in Seq(Ids)
             /\ \A k \in DOMAIN byType'[type] : TypeOf(byType'[type][k]) = type
  <2>1. byType'[type] \in Seq(Ids)
    BY <1>9, MergeLists
  <2>2. \A t : t \in Range(byType'[type]) <=>
          t \in Range(byType[type]) \/ (t \in Range(local) /\ TypeOf(t) = type)
    BY <1>9, MergeLists
  <2>3. \A t : t \in Range(byType[type]) => TypeOf(t) = type
    BY DEF Types, Range
  <2>4. \A k \in DOMAIN byType'[type] : byType'[type][k] \in Range(byType'[type])
    BY DEF Range
  <2> QED
    BY <2>1, <2>2, <2>3, <2>4
<1>10. byType' = [y \in DOMAIN byType |-> byType'[y]] /\ DOMAIN byType = {"exemplar", "cohort"}
  BY DEF Merge, Indexed, Types
<1>11. byType' \in [{"exemplar", "cohort"} -> Seq(Ids)]
  BY <1>9, <1>10
<1>12. \A t \in Ids : \A j \in DOMAIN (fileIndices'[t]) : fileIndices'[t][j] \in DOMAIN files'
  BY <1>0, <1>7
<1>13. order' \in Orders /\ disk' \in [Paths -> Contents \cup {Bad}]
       /\ files' \in {<<>>, order'} /\ errors' \in Nat
  BY <1>0 DEF Types
<1> QED
  BY <1>0, <1>3, <1>4, <1>5, <1>8, <1>9, <1>11, <1>12, <1>13 DEF Types

LEMMA TypesStep ==
  ASSUME HandOver, StopOK, Types, Progress, [Next]_vars
  PROVE  Types'
<1>1. CASE Worker
  <2>0. UNCHANGED <<order, disk>>
    BY <1>1, WorkerKeeps
  <2>1. CASE ListFiles
    <3>1. /\ files' = order /\ pos' = 1
          /\ UNCHANGED <<local, fileIndices, byType, readers, processed, entries, errors>>
      BY <2>1 DEF ListFiles, counters
    <3>2. files = <<>> /\ processed = 0
      BY <2>1 DEF ListFiles, Progress, Types
    <3>3. Len(order) \in Nat
      BY InOrder
    <3>4. \A t \in Ids : \A j \in DOMAIN fileIndices[t] : fileIndices[t][j] \in DOMAIN order
      BY <3>2 DEF Types
    <3>5. pos' \in 0 .. Len(order) + 1 /\ processed' \in 0 .. Len(order)
      BY <3>1, <3>2, <3>3
    <3> QED
      BY <2>0, <3>1, <3>4, <3>5 DEF Types
  <2>2. CASE ListFails
    <3>1. errors \in Nat /\ entries \in Nat
      BY DEF Types
    <3> QED
      BY <2>0, <2>2, <3>1, SameTypes DEF ListFails, index
  <2>3. CASE NextFile
    <3>1. errors \in Nat /\ entries \in Nat
      BY DEF Types
    <3>2. pos' = pos /\ local' = local
      BY <2>3 DEF NextFile
    <3> QED
      BY <2>0, <2>3, <3>1, <3>2, SameTypes DEF NextFile, index, counters
  <2>4. CASE Load
    <3>1. /\ UNCHANGED <<files, pos, fileIndices, byType, readers, processed, entries, errors>>
          /\ worker = "loading" /\ disk[files[pos]] # Bad
          /\ local' \in IF stop THEN Prefixes(disk[files[pos]]) ELSE {disk[files[pos]]}
      BY <2>4 DEF Load, index, counters
    <3>2. PICK s \in Seq(Ids) : s = disk[files[pos]]
      BY <3>1, AtFile
    <3>3. CASE local' = s
      BY <2>0, <3>1, <3>3 DEF Types
    <3>4. CASE local' \in Prefixes(s)
      <4>1. PICK n \in 0 .. Len(s) : local' = SubSeq(s, 1, n)
        BY <3>4 DEF Prefixes
      <4>2. Len(s) \in Nat /\ \A i \in 1 .. Len(s) : s[i] \in Ids
        BY LenProperties, ElementOfSeq
      <4>3. n \in Int /\ \A i \in 1 .. n : s[i] \in Ids
        BY <4>2
      <4>4. local' \in Seq(Ids)
        BY <4>1, <4>3, SubSeqProperties
      <4> QED
        BY <2>0, <3>1, <4>4 DEF Types
    <3> QED
      BY <3>1, <3>2, <3>3, <3>4
  <2>5. CASE Reject
    <3>1. errors \in Nat /\ entries \in Nat
      BY DEF Types
    <3> QED
      BY <2>0, <2>5, <3>1, SameTypes DEF Reject, index
  <2>6. CASE CountRejected
    <3>1. /\ UNCHANGED <<files, local, fileIndices, byType, readers, entries, errors>>
          /\ pos' = pos + 1 /\ processed' = processed + 1 /\ worker = "rejected"
      BY <2>6 DEF CountRejected, index
    <3>2. /\ files = order /\ processed \in Nat /\ pos = processed + 1
          /\ processed + 1 \in DOMAIN order
      BY <3>1, AtFile
    <3>3. pos' \in 0 .. Len(order) + 1 /\ processed' \in 0 .. Len(files)
      BY <3>1, <3>2, InOrder
    <3> QED
      BY <2>0, <3>1, <3>3 DEF Types
  <2>7. CASE Merge
    BY <2>7, MergeTypes
  <2> QED BY <1>1, <2>1, <2>2, <2>3, <2>4, <2>5, <2>6, <2>7 DEF Worker
<1>2. CASE Main
  <2>1. /\ UNCHANGED <<order, disk, files, fileIndices, byType, readers>>
        /\ UNCHANGED <<processed, entries, errors, done, pos, local>>
    BY <1>2, MainKeeps
  <2>2. errors \in Nat /\ entries \in Nat
    BY DEF Types
  <2> QED BY <2>1, <2>2, SameTypes
<1>3. CASE UNCHANGED vars
  <2>1. errors \in Nat /\ entries \in Nat
    BY DEF Types
  <2> QED BY <1>3, <2>1, SameTypes DEF vars, inputs, index, counters, workerVars
<1> QED BY <1>1, <1>2, <1>3 DEF Next

LEMMA ProgressStep ==
  ASSUME HandOver, StopOK, Types, Progress, [Next]_vars
  PROVE  Progress'
<1>0. Len(files) \in Nat /\ DOMAIN files = 1 .. Len(files) /\ processed \in 0 .. Len(files)
  BY InOrder DEF Types
<1>1. CASE Worker
  <2>0. UNCHANGED <<order, disk, stop, succeeded>> /\ (Whole' <=> Whole)
    BY <1>1, WorkerKeeps DEF Whole
  <2>1. CASE ListFiles
    <3>1. files' = order /\ pos' = 1 /\ worker' = "next" /\ processed' = processed
      BY <2>1 DEF ListFiles, counters
    <3>2. files = <<>> /\ processed = 0
      BY <2>1 DEF ListFiles, Progress, Types
    <3> QED
      BY <2>0, <3>1, <3>2 DEF Progress
  <2>2. CASE ListFails
    <3>1. worker' = "exited" /\ UNCHANGED <<files, processed>>
      BY <2>2 DEF ListFails, Finished, index
    <3>2. files = <<>> /\ processed = 0
      BY <2>2 DEF ListFails, Progress, Types
    <3>3. processed = Len(files)
      BY <3>2, EmptySeq
    <3> QED
      BY <2>0, <3>1, <3>3 DEF Progress
  <2>3. CASE NextFile
    <3>1. UNCHANGED <<files, processed, pos, local>> /\ files = order /\ pos = processed + 1
      BY <2>3 DEF NextFile, index, counters, Progress
    <3>2. CASE stop \/ pos > Len(files)
      <4>1. worker' = "exited"
        BY <2>3, <3>2 DEF NextFile, Finished
      <4>2. Whole => processed = Len(files)
        <5>1. worker = "next"
          BY <2>3 DEF NextFile
        <5>2. ~done
          BY <5>1 DEF HandOver
        <5>3. ~succeeded
          BY <5>2 DEF StopOK
        <5>4. Whole => ~stop
          BY <5>3 DEF Whole
        <5>5. CASE stop
          BY <5>4, <5>5
        <5>6. CASE pos > Len(files)
          <6>1. pos = processed + 1
            BY <3>1
          <6>2. processed \in Int /\ Len(files) \in Int /\ processed <= Len(files)
            BY <1>0
          <6>3. processed + 1 > Len(files)
            BY <5>6, <6>1
          <6>4. processed = Len(files)
            BY <6>2, <6>3
          <6> QED
            BY <6>4
        <5> QED
          BY <3>2, <5>5, <5>6
      <4> QED
        BY <2>0, <3>1, <4>1, <4>2 DEF Progress
    <3>3. CASE ~(stop \/ pos > Len(files))
      <4>1. worker' = "loading" /\ pos \in DOMAIN files
        BY <1>0, <2>3, <3>1, <3>3 DEF NextFile
      <4> QED
        BY <2>0, <3>1, <4>1 DEF Progress
    <3> QED BY <3>2, <3>3
  <2>4. CASE Load
    <3>1. /\ UNCHANGED <<files, pos, processed>> /\ worker' = "merging"
          /\ worker = "loading" /\ disk[files[pos]] # Bad
          /\ local' \in IF stop THEN Prefixes(disk[files[pos]]) ELSE {disk[files[pos]]}
      BY <2>4 DEF Load, index, counters
    <3>2. ~succeeded
      <4>1. ~done
        BY <3>1 DEF HandOver
      <4> QED
        BY <4>1 DEF StopOK
    <3>3. Whole' => local' = disk[files[pos]]
      BY <2>0, <3>1, <3>2 DEF Whole
    <3> QED
      BY <2>0, <3>1, <3>3 DEF Progress
  <2>5. CASE Reject
    <3>1. /\ UNCHANGED <<files, pos, processed>> /\ worker' = "rejected"
          /\ worker = "loading" /\ disk[files[pos]] = Bad
      BY <2>5 DEF Reject, index
    <3> QED
      BY <2>0, <3>1 DEF Progress
  <2>6. CASE CountRejected
    <3>1. /\ UNCHANGED files /\ worker = "rejected" /\ worker' = "next"
          /\ pos' = pos + 1 /\ processed' = processed + 1
      BY <2>6 DEF CountRejected, index
    <3> QED
      BY <1>0, <2>0, <3>1 DEF Progress
  <2>7. CASE Merge
    <3>1. /\ UNCHANGED files /\ worker = "merging" /\ worker' = "next"
          /\ pos' = pos + 1 /\ processed' = processed + 1
      BY <2>7 DEF Merge
    <3> QED
      BY <1>0, <2>0, <3>1 DEF Progress
  <2> QED BY <1>1, <2>1, <2>2, <2>3, <2>4, <2>5, <2>6, <2>7 DEF Worker
<1>2. CASE Main
  <2>1. /\ UNCHANGED <<order, disk, files, fileIndices, byType, readers>>
        /\ UNCHANGED <<processed, entries, errors, done, pos, local>>
        /\ worker' = worker \/ (worker = "none" /\ worker' = "listing")
        /\ Whole' => Whole
    BY <1>2, MainKeeps
  <2> QED BY <2>1 DEF Progress
<1>3. CASE UNCHANGED vars
  <2>1. /\ UNCHANGED <<order, disk, files, processed, pos, local, worker>>
        /\ Whole' <=> Whole
    BY <1>3 DEF vars, inputs, index, counters, workerVars, mainVars, Whole
  <2> QED BY <2>1 DEF Progress
<1> QED BY <1>1, <1>2, <1>3 DEF Next

\* The records of one more file of the load order.
LEMMA RecordsGrow ==
  ASSUME NEW n \in Nat
  PROVE  /\ disk[order[n + 1]] = Bad => Records(n + 1) = Records(n)
         /\ disk[order[n + 1]] # Bad =>
              /\ Records(n + 1) = Records(n) \cup ({n + 1} \X DOMAIN disk[order[n + 1]])
              /\ Records(n) \cap ({n + 1} \X DOMAIN disk[order[n + 1]]) = {}
<1> DEFINE Good(j) == disk[order[j]] # Bad
           Of(k) == {k} \X DOMAIN disk[order[k]]
<1>1. \A m : Records(m) = UNION {Of(k) : k \in {j \in 1 .. m : Good(j)}}
  BY DEF Records
<1>2. \A j : j \in 1 .. n + 1 <=> j \in 1 .. n \/ j = n + 1
  OBVIOUS
<1>3. n + 1 \notin 1 .. n
  OBVIOUS
<1>4. \A k, r : r \in Of(k) => r[1] = k
  OBVIOUS
<1> HIDE DEF Of, Good
<1>5. \A m, r : r \in Records(m) <=> \E k \in 1 .. m : Good(k) /\ r \in Of(k)
  BY <1>1
<1>6. \A r : r \in Records(n + 1) <=> r \in Records(n) \/ (Good(n + 1) /\ r \in Of(n + 1))
  BY <1>2, <1>5
<1>7. CASE ~Good(n + 1)
  <2>1. Records(n + 1) = Records(n)
    <3>1. \A m : \A r \in Records(m) : TRUE
      OBVIOUS
    <3> QED
      BY <1>1, <1>2, <1>7
  <2> QED
    BY <1>7, <2>1 DEF Good
<1>8. CASE Good(n + 1)
  <2>1. Records(n + 1) = Records(n) \cup Of(n + 1)
    BY <1>6, <1>8
  <2>2. Records(n) \cap Of(n + 1) = {}
    BY <1>3, <1>4, <1>5
  <2> QED
    BY <1>8, <2>1, <2>2 DEF Good, Of
<1> QED
  BY <1>7, <1>8

LEMMA RecordsCounted ==
  ASSUME NEW n \in Nat, IsFiniteSet(Records(n)),
         disk[order[n + 1]] # Bad, disk[order[n + 1]] \in Seq(Ids)
  PROVE  /\ IsFiniteSet(Records(n + 1))
         /\ Cardinality(Records(n + 1)) = Cardinality(Records(n)) + Len(disk[order[n + 1]])
<1>1. PICK s \in Seq(Ids) : s = disk[order[n + 1]]
  OBVIOUS
<1>2. Len(s) \in Nat /\ DOMAIN s = 1 .. Len(s)
  BY LenProperties
<1>3. IsFiniteSet(DOMAIN s) /\ Cardinality(DOMAIN s) = Len(s)
  BY <1>2, FiniteUpTo
<1>4. IsFiniteSet({n + 1}) /\ Cardinality({n + 1}) = 1
  BY FS_Singleton
<1>5. PICK P : P = {n + 1} \X DOMAIN s
  OBVIOUS
<1>6. IsFiniteSet(P) /\ Cardinality(P) = 1 * Len(s)
  BY <1>3, <1>4, <1>5, FS_Product
<1>7. Records(n + 1) = Records(n) \cup P /\ Records(n) \cap P = {}
  BY <1>1, <1>5, RecordsGrow
<1>8. /\ IsFiniteSet(Records(n) \cup P)
      /\ Cardinality(Records(n) \cup P) =
           Cardinality(Records(n)) + Cardinality(P) - Cardinality(Records(n) \cap P)
  BY <1>6, FS_Union
<1>9. Cardinality(Records(n) \cap P) = 0
  BY <1>7, FS_EmptySet
<1>10. Cardinality(Records(n)) \in Nat
  BY FS_CardinalityType
<1>11. Cardinality(P) = Len(s)
  <2>1. \A l \in Nat : 1 * l = l
    OBVIOUS
  <2> QED
    BY <1>2, <1>6, <2>1
<1>12. Cardinality(Records(n) \cup P) = Cardinality(Records(n)) + Len(s)
  BY <1>2, <1>8, <1>9, <1>10, <1>11
<1> QED
  BY <1>1, <1>7, <1>8, <1>12

\* One more file of the load order.
LEMMA FirstLonger ==
  ASSUME NEW n \in Nat, NEW S
  PROVE  LastIn(First(n + 1), S) =
           IF order[n + 1] \in S THEN order[n + 1] ELSE LastIn(First(n), S)
<1> DEFINE s == First(n)
           u == First(n + 1)
           p == order[n + 1]
<1>1. DOMAIN s = 1 .. n /\ DOMAIN u = 1 .. n + 1
  BY DEF First
<1>2. \A k \in 1 .. n : u[k] = s[k]
  BY DEF First
<1>3. \A k \in n + 1 .. n + 1 : u[k] = p
  BY DEF First
<1> HIDE DEF s, u, p
<1>4. PICK m \in Nat : m = 1 /\ Extends(u, s, n, m, p)
  BY <1>1, <1>2, <1>3 DEF Extends
<1>5. LastIn(u, S) = IF m > 0 /\ p \in S THEN p ELSE LastIn(s, S)
  BY <1>4, LastInLonger
<1> QED
  BY <1>4, <1>5 DEF s, u, p

LEMMA SameIndex ==
  ASSUME IndexOK, UNCHANGED <<order, disk, files, fileIndices, byType, readers>>,
         UNCHANGED <<processed, entries>>, Whole' => Whole
  PROVE  IndexOK'
<1>1. \A t : Taken(t)' = Taken(t)
  BY DEF Taken
<1>2. \A n : First(n)' = First(n) /\ Records(n)' = Records(n)
  BY DEF First, Records
<1>3. \A t : Holders(t)' = Holders(t) /\ Known(t)' = Known(t)
  BY DEF Holders, Holds, Known
<1>4. \A p, t : Holds(p, t)' <=> Holds(p, t)
  BY DEF Holds
<1> QED
  BY <1>1, <1>2, <1>3, <1>4 DEF IndexOK

LEMMA RejectedIndex ==
  ASSUME HandOver, StopOK, Types, Progress, IndexOK, CountRejected
  PROVE  IndexOK'
<1> SUFFICES ASSUME Whole' PROVE IndexOK'
  BY DEF IndexOK
<1>0. /\ UNCHANGED <<order, disk, stop, succeeded>> /\ worker = "rejected"
      /\ UNCHANGED <<files, fileIndices, byType, readers, entries>> /\ processed' = processed + 1
  BY WorkerKeeps DEF CountRejected, Worker, index
<1>1. PICK n \in Nat : n = processed /\ disk[order[n + 1]] = Bad
  BY <1>0, AtFile DEF Progress
<1>2. Whole
  BY <1>0 DEF Whole
<1>3. \A t : Taken(t)' = Taken(t)
  BY <1>0 DEF Taken
<1>4. First(processed)' = First(n + 1) /\ Records(processed)' = Records(n + 1)
  BY <1>0, <1>1 DEF First, Records
<1>5. \A t : Holders(t)' = Holders(t) /\ Known(t)' = Known(t)
  BY <1>0 DEF Holders, Holds, Known
<1>6. \A p, t : Holds(p, t)' <=> Holds(p, t)
  BY <1>0 DEF Holds
<1>7. \A t : ~Holds(order[n + 1], t) /\ order[n + 1] \notin Holders(t)
  BY <1>1 DEF Holds, Holders
<1>8. ASSUME NEW t \in Ids, NEW S \in SUBSET Paths
      PROVE  LastIn(Taken(t), S)' = LastIn(First(processed)', S \cap Holders(t)')
  <2>1. LastIn(Taken(t), S) = LastIn(First(n), S \cap Holders(t))
    BY <1>1, <1>2 DEF IndexOK
  <2>2. LastIn(First(n + 1), S \cap Holders(t)) = LastIn(First(n), S \cap Holders(t))
    BY <1>7, FirstLonger
  <2>3. LastIn(Taken(t), S)' = LastIn(Taken(t), S)
    BY <1>3 DEF LastIn
  <2> QED
    BY <1>4, <1>5, <2>1, <2>2, <2>3
<1>9. \A t \in Ids : Known(t)' <=> \E k \in 1 .. processed' : Holds(order[k], t)'
  <2>1. \A t \in Ids : Known(t) <=> \E k \in 1 .. n : Holds(order[k], t)
    BY <1>1, <1>2 DEF IndexOK
  <2>2. \A k : k \in 1 .. n + 1 <=> k \in 1 .. n \/ k = n + 1
    OBVIOUS
  <2>3. \A k, t : Holds(order[k], t)' <=> Holds(order[k], t)
    BY <1>0 DEF Holds
  <2> QED
    BY <1>0, <1>1, <1>5, <1>7, <2>1, <2>2, <2>3
<1>10. IsFiniteSet(Records(processed)') /\ entries' = Cardinality(Records(processed)')
  <2>1. IsFiniteSet(Records(n)) /\ entries = Cardinality(Records(n))
    BY <1>1, <1>2 DEF IndexOK
  <2>2. Records(n + 1) = Records(n)
    BY <1>1, RecordsGrow
  <2> QED
    BY <1>0, <1>4, <2>1, <2>2
<1>11. \A t \in Ids : \A j \in DOMAIN (fileIndices'[t]) : readers'[files'[fileIndices'[t][j]]] > 0
  BY <1>0, <1>2 DEF IndexOK
<1> QED
  BY <1>8, <1>9, <1>10, <1>11 DEF IndexOK

LEMMA MergedIndex ==
  ASSUME HandOver, StopOK, Types, Progress, IndexOK, Merge
  PROVE  IndexOK'
<1> SUFFICES ASSUME Whole' PROVE IndexOK'
  BY DEF IndexOK
<1>0. /\ UNCHANGED <<order, disk, stop, succeeded>> /\ worker = "merging" /\ files' = files
      /\ processed' = processed + 1 /\ entries' = entries + Len(local)
      /\ readers' = [readers EXCEPT ![files[pos]] = @ + 1]
  BY WorkerKeeps DEF Merge, Worker
<1>1. PICK n \in Nat : /\ n = processed /\ pos = n + 1 /\ files = order
                       /\ pos \in DOMAIN files /\ n + 1 \in DOMAIN order
  BY <1>0, AtFile
<1>2. Whole
  BY <1>0 DEF Whole
<1>3. PICK p \in Paths : p = files[pos] /\ p = order[n + 1]
  BY <1>0, <1>1, AtFile
<1>4. local = disk[p] /\ disk[p] # Bad /\ local \in Seq(Ids)
  BY <1>0, <1>2, <1>3 DEF Progress, Types
<1>5. \A t : Holds(p, t) <=> t \in Range(local)
  BY <1>4 DEF Holds
<1>6. First(processed)' = First(n + 1) /\ Records(processed)' = Records(n + 1)
  BY <1>0, <1>1 DEF First, Records
<1>7. \A t : Holders(t)' = Holders(t)
  BY <1>0 DEF Holders, Holds
<1>8. ASSUME NEW t \in Ids
      PROVE  /\ \A S \in SUBSET Paths :
                  LastIn(Taken(t)', S) = LastIn(First(processed)', S \cap Holders(t)')
             /\ \A j \in DOMAIN (fileIndices'[t]) : readers'[files'[fileIndices'[t][j]]] > 0
  <2>1. PICK l, m \in Nat :
          /\ DOMAIN fileIndices[t] = 1 .. l
          /\ m > 0 <=> t \in Range(local)
          /\ DOMAIN fileIndices'[t] = 1 .. l + m
          /\ \A j \in 1 .. l : fileIndices'[t][j] = fileIndices[t][j]
          /\ \A j \in l + 1 .. l + m : fileIndices'[t][j] = IndexOf(files[pos])
    BY MergeAppends
  <2>2. files[IndexOf(files[pos])] = p
    BY <1>1, <1>3, PlacesOK
  <2>3. PICK s, u : s = Taken(t) /\ u = Taken(t)'
    OBVIOUS
  <2>4. DOMAIN s = 1 .. l /\ DOMAIN u = 1 .. l + m
    BY <2>1, <2>3 DEF Taken
  <2>5. \A k \in 1 .. l : s[k] = files[fileIndices[t][k]]
    BY <2>1, <2>3 DEF Taken
  <2>6. \A k \in 1 .. l + m : u[k] = files[fileIndices'[t][k]]
    BY <1>0, <2>1, <2>3 DEF Taken
  <2>7. \A k \in 1 .. l : u[k] = s[k]
    <3>1. \A k \in 1 .. l : k \in 1 .. l + m
      OBVIOUS
    <3> QED
      BY <2>1, <2>5, <2>6, <3>1
  <2>8. \A k \in l + 1 .. l + m : u[k] = p
    <3>1. \A k \in l + 1 .. l + m : k \in 1 .. l + m
      OBVIOUS
    <3> QED
      BY <2>1, <2>2, <2>6, <3>1
  <2>8a. Extends(u, s, l, m, p)
    BY <2>4, <2>7, <2>8 DEF Extends
  <2>9. ASSUME NEW S \in SUBSET Paths
        PROVE  LastIn(u, S) = LastIn(First(n + 1), S \cap Holders(t))
    <3>1. LastIn(u, S) = IF m > 0 /\ p \in S THEN p ELSE LastIn(s, S)
      BY <2>8a, LastInLonger
    <3>2. LastIn(s, S) = LastIn(First(n), S \cap Holders(t))
      BY <1>1, <1>2, <2>3 DEF IndexOK
    <3>3. LastIn(First(n + 1), S \cap Holders(t)) =
            IF p \in S \cap Holders(t) THEN p ELSE LastIn(First(n), S \cap Holders(t))
      BY <1>3, FirstLonger
    <3>4. p \in S \cap Holders(t) <=> m > 0 /\ p \in S
      BY <1>3, <1>5, <2>1 DEF Holders
    <3> QED
      BY <3>1, <3>2, <3>3, <3>4
  <2>10. \A S \in SUBSET Paths :
           LastIn(Taken(t)', S) = LastIn(First(processed)', S \cap Holders(t)')
    BY <1>6, <1>7, <2>3, <2>9
  <2>11. ASSUME NEW j \in 1 .. l + m
         PROVE  readers'[files'[fileIndices'[t][j]]] > 0
    <3>1. readers \in [Paths -> Nat]
      BY DEF Types
    <3>2. \A q \in Paths : readers'[q] = IF q = p THEN readers[q] + 1 ELSE readers[q]
      BY <1>0, <1>3, <3>1
    <3>3. \A q \in Paths : readers[q] \in Nat
      BY <3>1
    <3>4. CASE j \in l + 1 .. l + m
      <4>1. files'[fileIndices'[t][j]] = p
        BY <1>0, <2>1, <2>2, <3>4
      <4> QED
        BY <3>2, <3>3, <4>1
    <3>5. CASE j \in 1 .. l
      <4>1. PICK q \in Paths : q = files[fileIndices[t][j]]
        BY <2>1, <3>5, InOrder DEF Types
      <4>2. readers[q] > 0
        BY <1>2, <2>1, <3>5, <4>1 DEF IndexOK
      <4>3. files'[fileIndices'[t][j]] = q
        BY <1>0, <2>1, <3>5, <4>1
      <4> QED
        BY <3>2, <3>3, <4>2, <4>3
    <3>6. j \in 1 .. l \/ j \in l + 1 .. l + m
      OBVIOUS
    <3> QED
      BY <3>4, <3>5, <3>6
  <2> QED
    BY <2>1, <2>10, <2>11
<1>9. \A t \in Ids : Known(t)' <=> \E k \in 1 .. processed' : Holds(order[k], t)'
  <2>1. \A t \in Ids : Known(t) <=> \E k \in 1 .. n : Holds(order[k], t)
    BY <1>1, <1>2 DEF IndexOK
  <2>2. \A k : k \in 1 .. n + 1 <=> k \in 1 .. n \/ k = n + 1
    OBVIOUS
  <2>3. \A k, t : Holds(order[k], t)' <=> Holds(order[k], t)
    BY <1>0 DEF Holds
  <2>4. ASSUME NEW t \in Ids
        PROVE  Known(t)' <=> Known(t) \/ t \in Range(local)
    <3>1. TypeOf(t)' = TypeOf(t) /\ TypeOf(t) \in {"exemplar", "cohort"}
      BY DEF TypeOf
    <3>2. \A type \in {"exemplar", "cohort"} : \A x : x \in Range(byType'[type]) <=>
            x \in Range(byType[type]) \/ (x \in Range(local) /\ TypeOf(x) = type)
      BY MergeLists
    <3>3. t \in Range(byType'[TypeOf(t)]) <=> t \in Range(byType[TypeOf(t)]) \/ t \in Range(local)
      BY <3>1, <3>2
    <3>4. Known(t)' <=> t \in Range(byType'[TypeOf(t)])
      BY <3>1 DEF Known, Range
    <3> QED
      BY <3>3, <3>4 DEF Known
  <2>5. ASSUME NEW t \in Ids
        PROVE  Known(t)' <=> \E k \in 1 .. n + 1 : Holds(order[k], t)
    <3>1. Known(t)' <=> (\E k \in 1 .. n : Holds(order[k], t)) \/ Holds(order[n + 1], t)
      BY <1>3, <1>5, <2>1, <2>4
    <3> QED
      BY <2>2, <3>1
  <2> QED
    BY <1>0, <1>1, <2>3, <2>5
<1>10. IsFiniteSet(Records(processed)') /\ entries' = Cardinality(Records(processed)')
  <2>1. IsFiniteSet(Records(n)) /\ entries = Cardinality(Records(n))
    BY <1>1, <1>2 DEF IndexOK
  <2>2. /\ IsFiniteSet(Records(n + 1))
        /\ Cardinality(Records(n + 1)) = Cardinality(Records(n)) + Len(disk[order[n + 1]])
    BY <1>3, <1>4, <2>1, RecordsCounted
  <2> QED
    BY <1>0, <1>3, <1>4, <1>6, <2>1, <2>2
<1> QED
  BY <1>8, <1>9, <1>10 DEF IndexOK

LEMMA IndexStep ==
  ASSUME HandOver, StopOK, Types, Progress, IndexOK, [Next]_vars
  PROVE  IndexOK'
<1>1. CASE Worker
  <2>0. UNCHANGED <<order, disk, stop, succeeded>> /\ (Whole' <=> Whole)
    BY <1>1, WorkerKeeps DEF Whole
  <2>1. CASE ListFiles
    <3>1. UNCHANGED <<fileIndices, byType, readers, processed, entries>> /\ files = <<>>
      BY <2>1 DEF ListFiles, counters, Progress
    <3>2. \A t \in Ids : DOMAIN fileIndices[t] = {}
      BY <3>1 DEF Types
    <3>3. \A t \in Ids : Taken(t)' = Taken(t)
      BY <3>1, <3>2 DEF Taken
    <3>4. \A n : First(n)' = First(n) /\ Records(n)' = Records(n)
      BY <2>0 DEF First, Records
    <3>5. \A t : Holders(t)' = Holders(t) /\ Known(t)' = Known(t)
      BY <2>0, <3>1 DEF Holders, Holds, Known
    <3>6. \A p, t : Holds(p, t)' <=> Holds(p, t)
      BY <2>0 DEF Holds
    <3> QED
      BY <2>0, <3>1, <3>2, <3>3, <3>4, <3>5, <3>6 DEF IndexOK
  <2>2. CASE ListFails
    BY <2>0, <2>2, SameIndex DEF ListFails, index
  <2>3. CASE NextFile
    BY <2>0, <2>3, SameIndex DEF NextFile, index, counters
  <2>4. CASE Load
    BY <2>0, <2>4, SameIndex DEF Load, index, counters
  <2>5. CASE Reject
    BY <2>0, <2>5, SameIndex DEF Reject, index
  <2>6. CASE CountRejected
    BY <2>6, RejectedIndex
  <2>7. CASE Merge
    BY <2>7, MergedIndex
  <2> QED BY <1>1, <2>1, <2>2, <2>3, <2>4, <2>5, <2>6, <2>7 DEF Worker
<1>2. CASE Main
  BY <1>2, MainKeeps, SameIndex
<1>3. CASE UNCHANGED vars
  BY <1>3, SameIndex DEF vars, inputs, index, counters, mainVars, Whole
<1> QED BY <1>1, <1>2, <1>3 DEF Next

LEMMA NothingToTake ==
  ASSUME NEW s, DOMAIN s = {}, NEW S
  PROVE  LastIn(s, S) = None
BY DEF LastIn

LEMMA IndexStarts ==
  ASSUME Init
  PROVE  IndexInv
<1>1. HandOver
  BY HandOverStarts
<1>2. StopOK
  BY DEF Init, StopOK
<1>3. /\ order \in Orders /\ disk \in [Paths -> Contents \cup {Bad}]
      /\ files = <<>> /\ pos = 0 /\ local = <<>> /\ processed = 0 /\ entries = 0 /\ errors = 0
      /\ fileIndices = [t \in Ids |-> <<>>] /\ byType = [type \in {"exemplar", "cohort"} |-> <<>>]
      /\ readers = [p \in Paths |-> 0]
  BY DEF Init
<1>4. /\ \A t \in Ids : DOMAIN fileIndices[t] = {}
      /\ \A type \in {"exemplar", "cohort"} : DOMAIN byType[type] = {}
  BY <1>3
<1>5. Types
  <2>1. order \in Seq(Paths)
    BY <1>3, ScanAssumption
  <2>2. Len(order) \in Nat
    BY <2>1, LenProperties
  <2>3. <<>> \in Seq(Ids) /\ <<>> \in Seq(Nat) /\ Len(files) = 0
    BY <1>3, EmptySeq
  <2>4. fileIndices \in [Ids -> Seq(Nat)] /\ byType \in [{"exemplar", "cohort"} -> Seq(Ids)]
    BY <1>3, <2>3
  <2>5. readers \in [Paths -> Nat] /\ pos \in 0 .. Len(order) + 1 /\ processed \in 0 .. Len(files)
    BY <1>3, <2>2, <2>3
  <2> QED
    BY <1>3, <1>4, <2>3, <2>4, <2>5 DEF Types
<1>6. Progress
  BY DEF Init, Progress
<1>7. IndexOK
  <2>1. \A t \in Ids : DOMAIN Taken(t) = {}
    BY <1>4 DEF Taken
  <2>2. 1 .. processed = {} /\ DOMAIN First(processed) = {}
    BY <1>3 DEF First
  <2>3. \A t \in Ids : \A S \in SUBSET Paths :
          LastIn(Taken(t), S) = LastIn(First(processed), S \cap Holders(t))
    BY <2>1, <2>2, NothingToTake
  <2>4. \A t \in Ids : ~Known(t)
    BY <1>4 DEF Known, TypeOf, Range
  <2>5. Records(processed) = {}
    BY <2>2 DEF Records
  <2>6. IsFiniteSet(Records(processed)) /\ Cardinality(Records(processed)) = 0
    BY <2>5, FS_EmptySet
  <2> QED
    BY <1>3, <1>4, <2>2, <2>3, <2>4, <2>6 DEF IndexOK
<1> QED
  BY <1>1, <1>2, <1>5, <1>6, <1>7 DEF IndexInv

\* The index is right at every moment of a scan that nobody has stopped.
THEOREM IndexInvariance == Spec => []IndexInv
<1>1. IndexInv /\ [Next]_vars => IndexInv'
  <2> SUFFICES ASSUME IndexInv, [Next]_vars PROVE IndexInv'
    OBVIOUS
  <2>1. HandOver /\ StopOK /\ Types /\ Progress /\ IndexOK
    BY DEF IndexInv
  <2>2. HandOver'
    BY <2>1, HandOverStep
  <2>3. StopOK'
    BY <2>1, StopStep
  <2>4. Types'
    BY <2>1, TypesStep
  <2>5. Progress'
    BY <2>1, ProgressStep
  <2>6. IndexOK'
    BY <2>1, IndexStep
  <2> QED
    BY <2>2, <2>3, <2>4, <2>5, <2>6 DEF IndexInv
<1> QED
  BY <1>1, IndexStarts, PTL DEF Spec

-----------------------------------------------------------------------------
(* What the main thread takes from the index.                              *)

\* The last file with a record is the last one its list names.
LEMMA LastOfRecord ==
  ASSUME Types, NEW t \in Ids
  PROVE  IF fileIndices[t] = <<>> THEN LastIn(Taken(t), Paths) = None
         ELSE /\ LastIn(Taken(t), Paths) = files[Last(fileIndices[t])]
              /\ Last(fileIndices[t]) \in DOMAIN files
              /\ LastIn(Taken(t), Paths) \in Paths
<1>1. PICK s \in Seq(Nat) : s = fileIndices[t]
  BY DEF Types
<1>2. Len(s) \in Nat /\ DOMAIN s = 1 .. Len(s)
  BY LenProperties
<1>3. \A j \in DOMAIN s : s[j] \in DOMAIN files /\ files[s[j]] \in Paths
  BY <1>1, InOrder DEF Types
<1>4. PICK u : u = Taken(t)
  OBVIOUS
<1>5. DOMAIN u = DOMAIN s /\ \A j \in DOMAIN s : u[j] = files[s[j]]
  BY <1>1, <1>4 DEF Taken
<1>6. CASE s = <<>>
  <2>1. DOMAIN s = {}
    BY <1>6
  <2> QED
    BY <1>1, <1>4, <1>5, <1>6, <2>1, NothingToTake
<1>7. CASE s # <<>>
  <2>1. PICK n \in Nat \ {0} : n = Len(s)
    BY <1>7, EmptySeq
  <2>2. \/ LastIn(u, Paths) = None /\ \A k \in 1 .. n : u[k] \notin Paths
        \/ \E k \in 1 .. n : /\ u[k] \in Paths /\ LastIn(u, Paths) = u[k]
                             /\ \A j \in 1 .. n : u[j] \in Paths => j <= k
    BY <1>2, <1>5, <2>1, LastInOK
  <2>3. n \in 1 .. n /\ u[n] \in Paths
    BY <1>2, <1>3, <1>5, <2>1
  <2>4. PICK k \in 1 .. n : /\ u[k] \in Paths /\ LastIn(u, Paths) = u[k]
                            /\ \A j \in 1 .. n : u[j] \in Paths => j <= k
    BY <2>2, <2>3
  <2>5. k = n
    BY <2>3, <2>4
  <2>6. Last(s) = s[n]
    BY <2>1 DEF Last
  <2> QED
    BY <1>1, <1>2, <1>3, <1>4, <1>5, <1>7, <2>1, <2>3, <2>4, <2>5, <2>6
<1> QED
  BY <1>6, <1>7

\* A scan that is whole knows a record by the last file of the order that has it.
LEMMA WholeIndex ==
  ASSUME IndexInv, Whole, done, files = order, NEW t \in Ids
  PROVE  /\ processed = Len(order)
         /\ \A S \in SUBSET Paths : LastIn(Taken(t), S) = LastPath(S \cap Holders(t))
         /\ LastIn(Taken(t), Paths) = LastPath(Holders(t))
         /\ Known(t) <=> LastPath(Holders(t)) # None
         /\ LastPath(Holders(t)) # None =>
              LastPath(Holders(t)) \in Paths /\ Holds(LastPath(Holders(t)), t)
<1>1. worker = "exited" /\ processed = Len(order)
  BY DEF IndexInv, HandOver, Progress
<1>2. Len(order) \in Nat /\ DOMAIN order = 1 .. Len(order) /\ \A i \in DOMAIN order : order[i] \in Paths
  BY InOrder DEF IndexInv
<1>3. \A S : LastIn(First(processed), S) = LastPath(S)
  <2>1. DOMAIN First(processed) = DOMAIN order /\ \A k \in DOMAIN order : First(processed)[k] = order[k]
    BY <1>1, <1>2 DEF First
  <2>2. ASSUME NEW S
        PROVE  {k \in DOMAIN First(processed) : First(processed)[k] \in S} = {k \in DOMAIN order : order[k] \in S}
    BY <2>1
  <2>3. ASSUME NEW S, NEW ks, ks = {k \in DOMAIN order : order[k] \in S}, ks # {}
        PROVE  Max(ks) \in DOMAIN order
    <3>1. ks \in SUBSET (1 .. Len(order))
      BY <1>2, <2>3
    <3> QED
      BY <1>2, <2>3, <3>1, EndsOf
  <2> QED
    BY <2>1, <2>2, <2>3 DEF LastIn, LastPath
<1>4. \A S \in SUBSET Paths : LastIn(Taken(t), S) = LastPath(S \cap Holders(t))
  BY <1>3 DEF IndexInv, IndexOK
<1>5. Paths \cap Holders(t) = Holders(t) /\ Paths \in SUBSET Paths
  BY DEF Holders
<1>6. LastIn(Taken(t), Paths) = LastPath(Holders(t))
  BY <1>4, <1>5
<1>7. \/ LastPath(Holders(t)) = None /\ \A k \in 1 .. Len(order) : order[k] \notin Holders(t)
      \/ \E k \in 1 .. Len(order) : order[k] \in Holders(t) /\ LastPath(Holders(t)) = order[k]
  <2>1. LastIn(order, Holders(t)) = LastPath(Holders(t))
    BY DEF LastIn, LastPath
  <2> QED
    BY <1>2, <2>1, LastInOK
<1>8. Known(t) <=> \E k \in 1 .. Len(order) : order[k] \in Holders(t)
  <2>1. Known(t) <=> \E k \in 1 .. Len(order) : Holds(order[k], t)
    BY <1>1 DEF IndexInv, IndexOK
  <2> QED
    BY <1>2, <2>1 DEF Holders
<1>9. \A p \in Holders(t) : p # None /\ p \in Paths /\ Holds(p, t)
  BY ScanAssumption DEF Holders
<1> QED
  BY <1>1, <1>4, <1>6, <1>7, <1>8, <1>9

LEMMA WholeIsComplete == IndexInv => CompleteWhenDone
<1> SUFFICES ASSUME IndexInv, done, ~stop, files = order PROVE CompleteWhenDone
  BY DEF CompleteWhenDone
<1>1. Whole
  BY DEF Whole
<1>2. ASSUME NEW t \in Ids, NEW last, last = LastPath(Holders(t))
      PROVE  /\ (fileIndices[t] = <<>>) = (last = None)
             /\ last # None => files[Last(fileIndices[t])] = last
             /\ (t \in Range(byType[TypeOf(t)])) = (last # None)
  <2>1. /\ LastIn(Taken(t), Paths) = last
        /\ Known(t) <=> last # None
    BY <1>1, <1>2, WholeIndex
  <2>2. IF fileIndices[t] = <<>> THEN LastIn(Taken(t), Paths) = None
        ELSE /\ LastIn(Taken(t), Paths) = files[Last(fileIndices[t])]
             /\ LastIn(Taken(t), Paths) \in Paths
    BY LastOfRecord DEF IndexInv
  <2>3. None \notin Paths
    BY ScanAssumption
  <2> QED
    BY <2>1, <2>2, <2>3 DEF Known
<1>3. processed = Len(order)
  BY <1>1 DEF IndexInv, HandOver, Progress
<1>4. entries = Cardinality(Records(Len(order)))
  BY <1>1, <1>3 DEF IndexInv, IndexOK
<1> QED
  BY <1>2, <1>3, <1>4 DEF CompleteWhenDone

\* DbpfIndexService::workerLoop_: once done_ is set and nobody stopped it, the index
\* is complete and the counters add up.
THEOREM CompleteInvariance == Spec => []CompleteWhenDone
BY WholeIsComplete, IndexInvariance, PTL

\* The record was the winner's to give, and could be read there.
Good(t) == Known(t) /\ Readable(files[Winner(t)], t)

OutputTypes ==
  /\ \A i \in DOMAIN groups : i \in DOMAIN files /\ groups[i] \in Seq(Ids)
  /\ parsed \in [Exemplars -> Paths \cup {None}]
  /\ names \in [Families -> Cohorts \cup {None}]
  /\ cached \in [Ids -> Paths \cup {None}]

\* Nothing is taken from the index before it is grouped.
Untouched ==
  /\ DOMAIN groups = {}
  /\ \A t \in Exemplars : parsed[t] = None
  /\ \A f \in Families : names[f] = None
  /\ \A t \in Ids : cached[t] = None

\* The groups that are left, and what the ones before them have given.
LeftOK ==
  /\ \A i \in DOMAIN groups : \A t \in Ids : t \in Range(groups[i]) <=> Known(t) /\ Winner(t) = i
  /\ \A t \in Ids : Known(t) /\ Winner(t) \notin DOMAIN groups =>
       \A i \in DOMAIN groups : Winner(t) < i

ParsedOK ==
  \A t \in Exemplars :
    parsed[t] = IF Good(t) /\ Winner(t) \notin DOMAIN groups THEN files[Winner(t)] ELSE None

Namers(f) == {c \in Cohorts : FamilyOf[c] = f /\ Good(c) /\ Winner(c) \notin DOMAIN groups}
NamesOK ==
  \A f \in Families :
    \/ names[f] = None /\ Namers(f) = {}
    \/ names[f] \in Namers(f) /\ \A c \in Namers(f) : Winner(c) <= Winner(names[f])

CachedOK ==
  \A t \in Ids : cached[t] # None =>
    cached[t] = LastIn(Taken(t), Sources(t)) /\ readers[cached[t]] > 0

OutputOK ==
  /\ OutputTypes
  /\ main \in {"starting", "mapper", "polling", "grouping"} => Untouched
  /\ main = "parsing" \/ succeeded => LeftOK /\ ParsedOK /\ NamesOK /\ CachedOK
  /\ succeeded => DOMAIN groups = {}

\* A record that is known has a winner, which is the last file that was indexed with it.
LEMMA WinnerOK ==
  ASSUME IndexInv, Whole, NEW t \in Ids, Known(t)
  PROVE  /\ fileIndices[t] # <<>>
         /\ Winner(t) \in DOMAIN files /\ files[Winner(t)] \in Paths
         /\ files[Winner(t)] = LastIn(Taken(t), Paths)
         /\ Winner(t) = OrderIndex(LastIn(Taken(t), Paths))
<1>1. PICK k \in 1 .. processed : Holds(order[k], t)
  BY DEF IndexInv, IndexOK
<1>2. /\ Len(files) \in Nat /\ DOMAIN files = 1 .. Len(files) /\ \A j \in DOMAIN files : files[j] \in Paths
      /\ processed \in 0 .. Len(files)
  BY InOrder DEF IndexInv, Types
<1>3. k \in DOMAIN files /\ files = order
  <2>1. k \in DOMAIN files
    BY <1>2
  <2> QED
    BY <2>1 DEF IndexInv, Types
<1>4. order[k] \in Paths \cap Holders(t)
  BY <1>1, <1>2, <1>3 DEF Holders
<1>5. LastIn(First(processed), Paths \cap Holders(t)) # None
  <2>1. DOMAIN First(processed) = 1 .. processed /\ First(processed)[k] = order[k] /\ processed \in Nat
    BY <1>2 DEF First
  <2>2. None \notin Paths \cap Holders(t)
    BY ScanAssumption
  <2> QED
    BY <1>4, <2>1, <2>2, LastInOK
<1>6. LastIn(Taken(t), Paths) # None
  <2>1. Paths \in SUBSET Paths
    OBVIOUS
  <2> QED
    BY <1>5, <2>1 DEF IndexInv, IndexOK
<1>7. /\ fileIndices[t] # <<>>
      /\ LastIn(Taken(t), Paths) = files[Last(fileIndices[t])]
      /\ Last(fileIndices[t]) \in DOMAIN files
  BY <1>6, LastOfRecord DEF IndexInv
<1>8. Winner(t) = OrderIndex(files[Last(fileIndices[t])])
  BY DEF Winner
<1>9. /\ OrderIndex(files[Last(fileIndices[t])]) \in DOMAIN files
      /\ files[OrderIndex(files[Last(fileIndices[t])])] = files[Last(fileIndices[t])]
  BY <1>7, PlacesOK DEF IndexInv
<1> QED
  BY <1>2, <1>7, <1>8, <1>9

\* The records that are grouped are the ones that are known.
LEMMA RecordIdsOK ==
  ASSUME Types
  PROVE  RecordIds \in Seq(Ids) /\ \A t \in Ids : t \in Range(RecordIds) <=> Known(t)
<1> DEFINE all == byType["exemplar"] \o byType["cohort"]
           I == {k \in DOMAIN all : \A j \in 1 .. k - 1 : all[j] # all[k]}
<1>1. RecordIds = Picked(all, I)
  BY DEF RecordIds
<1>2. byType["exemplar"] \in Seq(Ids) /\ byType["cohort"] \in Seq(Ids)
  BY DEF Types
<1>3. all \in Seq(Ids) /\ Range(all) = Range(byType["exemplar"]) \cup Range(byType["cohort"])
  BY <1>2, ConcatProperties, RangeConcatenation
<1>4. \A t : t \in Range(byType["exemplar"]) => TypeOf(t) = "exemplar"
  BY DEF Types, Range
<1>5. \A t : t \in Range(byType["cohort"]) => TypeOf(t) = "cohort"
  BY DEF Types, Range
<1>6. \A t : Known(t) <=> t \in Range(all)
  <2>1. \A t : TypeOf(t) = "exemplar" \/ TypeOf(t) = "cohort"
    BY DEF TypeOf
  <2> QED
    BY <1>3, <1>4, <1>5, <2>1 DEF Known
<1>7. \A k : k \in I <=> k \in DOMAIN all /\ \A j \in 1 .. k - 1 : all[j] # all[k]
  OBVIOUS
<1> HIDE DEF all, I
<1>8. I \in SUBSET DOMAIN all /\ Len(all) \in Nat /\ DOMAIN all = 1 .. Len(all)
  BY <1>3, <1>7, LenProperties
<1>9. Picked(all, I) \in Seq(Ids) /\ Range(Picked(all, I)) = {all[k] : k \in I}
  BY <1>3, <1>8, PickedOK, PickedOnce
<1>10. ASSUME NEW n \in DOMAIN all PROVE \E k \in I : all[k] = all[n]
  <2> DEFINE ks == {k \in DOMAIN all : all[k] = all[n]}
  <2>1. n \in ks /\ \A k \in ks : k \in DOMAIN all /\ all[k] = all[n]
    OBVIOUS
  <2>2. \A k \in DOMAIN all : all[k] = all[n] => k \in ks
    OBVIOUS
  <2>3. IsFiniteSet(1 .. Len(all)) /\ ks \in SUBSET (1 .. Len(all))
    BY <1>8, FiniteUpTo
  <2> HIDE DEF ks
  <2>4. IsFiniteSet(ks) /\ ks \in SUBSET Int /\ ks # {}
    BY <2>1, <2>3, FS_Subset
  <2>5. PICK k \in ks : \A j \in ks : k <= j
    BY <2>4, LeastAndGreatest
  <2>6. k \in 1 .. Len(all) /\ all[k] = all[n]
    BY <1>8, <2>1
  <2>7. ASSUME NEW j \in 1 .. k - 1 PROVE all[j] # all[k]
    <3>1. j \in DOMAIN all /\ ~(k <= j)
      BY <1>8, <2>6
    <3> QED
      BY <2>2, <2>5, <2>6, <3>1
  <2> QED
    BY <1>7, <1>8, <2>6, <2>7
<1>11. \A t : t \in Range(all) <=> \E k \in I : all[k] = t
  BY <1>8, <1>10 DEF Range
<1> QED
  BY <1>1, <1>6, <1>9, <1>11

\* What is read of the index and of the files, as long as they stay.
LEMMA SameWinners ==
  ASSUME UNCHANGED <<order, disk, files, fileIndices, byType, readers>>
  PROVE  /\ \A t : Known(t)' = Known(t) /\ Winner(t)' = Winner(t) /\ Good(t)' = Good(t)
         /\ \A t : Taken(t)' = Taken(t) /\ Sources(t)' = Sources(t)
         /\ \A p, t : Readable(p, t)' = Readable(p, t)
<1>1. \A t : Known(t)' = Known(t)
  BY DEF Known
<1>2. \A t : Winner(t)' = Winner(t)
  BY DEF Winner, OrderIndex, Positions
<1>3. \A p, t : Readable(p, t)' = Readable(p, t)
  BY DEF Readable, Holds
<1>4. \A t : Good(t)' = Good(t)
  BY DEF Good, Known, Winner, OrderIndex, Positions, Readable, Holds
<1>5. \A t : Taken(t)' = Taken(t)
  BY DEF Taken
<1>6. \A t : Sources(t)' = Sources(t)
  BY DEF Sources, Readable, Holds
<1> QED
  BY <1>1, <1>2, <1>3, <1>4, <1>5, <1>6

LEMMA SameTypesOut ==
  ASSUME OutputTypes, UNCHANGED <<groups, parsed, names, cached>>,
         files' = files \/ DOMAIN groups = {}
  PROVE  OutputTypes'
BY DEF OutputTypes

LEMMA SameOutput ==
  ASSUME UNCHANGED <<order, disk, files, fileIndices, byType, readers>>,
         UNCHANGED <<groups, parsed, names, cached>>,
         LeftOK, ParsedOK, NamesOK, CachedOK
  PROVE  (LeftOK /\ ParsedOK /\ NamesOK /\ CachedOK)'
<1>1. /\ \A t : Known(t)' = Known(t) /\ Winner(t)' = Winner(t) /\ Good(t)' = Good(t)
      /\ \A t : Taken(t)' = Taken(t) /\ Sources(t)' = Sources(t)
  BY SameWinners
<1>2. LeftOK'
  BY <1>1 DEF LeftOK
<1>3. ParsedOK'
  BY <1>1 DEF ParsedOK
<1>4. \A f : Namers(f)' = Namers(f)
  BY <1>1 DEF Namers
<1>5. NamesOK'
  BY <1>1, <1>4 DEF NamesOK
<1>6. CachedOK'
  BY <1>1 DEF CachedOK
<1> QED
  BY <1>2, <1>3, <1>5, <1>6

LEMMA GroupStep ==
  ASSUME IndexInv, OutputOK, GroupRecords
  PROVE  OutputOK'
<1>0. /\ main = "grouping" /\ main' = "parsing" /\ succeeded' = succeeded
      /\ UNCHANGED <<order, disk, files, fileIndices, byType, readers, parsed, names, cached>>
  BY DEF GroupRecords, inputs, index
<1>1. Untouched /\ OutputTypes
  BY <1>0 DEF OutputOK
<1>2. Whole /\ ~succeeded
  BY <1>0 DEF IndexInv, StopOK, Whole
<1>3. PICK ids \in Seq(Ids) : ids = RecordIds /\ \A t \in Ids : t \in Range(ids) <=> Known(t)
  BY RecordIdsOK DEF IndexInv
<1> DEFINE wins == {Winner(t) : t \in Range(ids)}
           I(i) == {k \in DOMAIN ids : Winner(ids[k]) = i}
<1>4. groups' = [i \in wins |-> Picked(ids, I(i))]
  BY <1>3 DEF GroupRecords
<1>5. Range(ids) \subseteq Ids /\ \A k \in DOMAIN ids : ids[k] \in Ids
  BY LenProperties, ElementOfSeq DEF Range
<1>6. \A i \in wins : i \in DOMAIN files
  BY <1>2, <1>3, <1>5, WinnerOK
<1>7. ASSUME NEW i
      PROVE  /\ Picked(ids, I(i)) \in Seq(Ids)
             /\ \A t \in Ids : t \in Range(Picked(ids, I(i))) <=> t \in Range(ids) /\ Winner(t) = i
  <2> DEFINE J == I(i)
  <2>1. J \in SUBSET DOMAIN ids
    OBVIOUS
  <2>2. \A t : t \in {ids[k] : k \in J} <=> t \in Range(ids) /\ Winner(t) = i
    BY DEF Range
  <2> HIDE DEF J
  <2>3. Picked(ids, J) \in Seq(Ids) /\ Range(Picked(ids, J)) = {ids[k] : k \in J}
    BY <2>1, PickedOK, PickedOnce
  <2> QED
    BY <2>2, <2>3 DEF J
<1>8. \A t \in Ids : Known(t) => Winner(t) \in wins
  BY <1>3
<1> HIDE DEF I
<1>9. DOMAIN groups' = wins /\ \A i \in wins : groups'[i] = Picked(ids, I(i))
  BY <1>4
<1> HIDE DEF wins
<1>10. /\ \A t : Known(t)' = Known(t) /\ Winner(t)' = Winner(t) /\ Good(t)' = Good(t)
       /\ \A t \in Ids : Good(t) => Known(t)
  BY <1>0, SameWinners DEF Good
<1>11. OutputTypes'
  <2>1. \A i \in DOMAIN groups' : i \in DOMAIN files' /\ groups'[i] \in Seq(Ids)
    BY <1>0, <1>6, <1>7, <1>9
  <2> QED
    BY <1>0, <1>1, <2>1 DEF OutputTypes
<1>12. LeftOK'
  BY <1>3, <1>7, <1>8, <1>9, <1>10 DEF LeftOK
<1>13. Exemplars \subseteq Ids /\ Cohorts \subseteq Ids
  BY DEF Ids
<1>14. ParsedOK'
  BY <1>0, <1>1, <1>8, <1>9, <1>10, <1>13 DEF ParsedOK, Untouched
<1>15. \A f \in Families : Namers(f)' = {}
  BY <1>8, <1>9, <1>10, <1>13 DEF Namers
<1>16. NamesOK'
  BY <1>0, <1>1, <1>15 DEF NamesOK, Untouched
<1>17. CachedOK'
  BY <1>0, <1>1 DEF CachedOK, Untouched
<1> QED
  BY <1>0, <1>2, <1>11, <1>12, <1>14, <1>16, <1>17 DEF OutputOK

\* The name a family gets from the records of a file.
LEMMA NamedOK ==
  ASSUME NEW records \in Seq(Ids), NEW f \in Families
  PROVE  \/ /\ Named(records)[f] = names[f]
            /\ \A c \in Cohorts : c \in Range(records) => FamilyOf[c] # f
         \/ /\ Named(records)[f] \in Cohorts /\ Named(records)[f] \in Range(records)
            /\ FamilyOf[Named(records)[f]] = f
<1> DEFINE ks == {k \in DOMAIN records : records[k] \in Cohorts /\ FamilyOf[records[k]] = f}
<1>1. Named(records)[f] = IF ks = {} THEN names[f] ELSE records[Max(ks)]
  BY DEF Named
<1>2. \A k : k \in ks <=> k \in DOMAIN records /\ records[k] \in Cohorts /\ FamilyOf[records[k]] = f
  OBVIOUS
<1> HIDE DEF ks
<1>3. CASE ks = {}
  BY <1>1, <1>2, <1>3 DEF Range
<1>4. CASE ks # {}
  <2>1. Len(records) \in Nat /\ ks \in SUBSET (1 .. Len(records))
    BY <1>2, LenProperties
  <2>2. Max(ks) \in ks
    BY <1>4, <2>1, EndsOf
  <2> QED
    BY <1>1, <1>2, <1>4, <2>2 DEF Range
<1> QED
  BY <1>3, <1>4

LEMMA ParseStep ==
  ASSUME IndexInv, OutputOK, ParseFile
  PROVE  OutputOK'
<1>0. /\ main = "parsing" /\ main' = main /\ succeeded' = succeeded /\ DOMAIN groups # {}
      /\ UNCHANGED <<order, disk, files, fileIndices, byType, readers, cached>>
  BY DEF ParseFile, inputs, index, mainVars
<1>1. OutputTypes /\ LeftOK /\ ParsedOK /\ NamesOK /\ CachedOK
  BY <1>0 DEF OutputOK
<1>2. Whole /\ ~succeeded
  BY <1>0 DEF IndexInv, StopOK, Whole
<1>3. Len(files) \in Nat /\ DOMAIN files = 1 .. Len(files) /\ \A j \in DOMAIN files : files[j] \in Paths
  BY InOrder DEF IndexInv
<1>4. PICK i \in DOMAIN groups : i = Min(DOMAIN groups) /\ \A k \in DOMAIN groups : i <= k
  <2>1. DOMAIN groups \in SUBSET (1 .. Len(files))
    BY <1>1, <1>3 DEF OutputTypes
  <2> QED
    BY <1>0, <1>3, <2>1, EndsOf
<1>5. i \in DOMAIN files /\ i \in Int /\ files[i] \in Paths
  BY <1>1, <1>3 DEF OutputTypes
<1> DEFINE I == {k \in DOMAIN groups[i] : Readable(files[i], groups[i][k])}
<1>6. PICK records : records = Picked(groups[i], I)
  OBVIOUS
<1>7. /\ parsed' = [t \in Exemplars |-> IF t \in Range(records) THEN files[i] ELSE parsed[t]]
      /\ names' = Named(records)
      /\ groups' = [k \in DOMAIN groups \ {i} |-> groups[k]]
  BY <1>4, <1>6 DEF ParseFile
<1>8. groups[i] \in Seq(Ids) /\ I \in SUBSET DOMAIN groups[i]
  BY <1>1 DEF OutputTypes
<1>9. \A t : t \in {groups[i][k] : k \in I} <=> t \in Range(groups[i]) /\ Readable(files[i], t)
  BY DEF Range
<1> HIDE DEF I
<1>10. records \in Seq(Ids) /\ Range(records) = {groups[i][k] : k \in I}
  <2>1. PICK s \in Seq(Ids) : s = groups[i]
    BY <1>8
  <2>2. I \in SUBSET DOMAIN s
    BY <1>8, <2>1
  <2>3. Picked(s, I) \in Seq(Ids) /\ Range(Picked(s, I)) = {s[k] : k \in I}
    BY <2>2, PickedOK, PickedOnce
  <2> QED
    BY <1>6, <2>1, <2>3
<1>11. \A t \in Ids : t \in Range(records) <=> Good(t) /\ Winner(t) = i
  <2>1. \A t \in Ids : t \in Range(groups[i]) <=> Known(t) /\ Winner(t) = i
    BY <1>1 DEF LeftOK
  <2> QED
    BY <1>9, <1>10, <2>1 DEF Good
<1>12. /\ \A t : Known(t)' = Known(t) /\ Winner(t)' = Winner(t) /\ Good(t)' = Good(t)
       /\ \A t : Taken(t)' = Taken(t) /\ Sources(t)' = Sources(t)
  BY <1>0, SameWinners
<1>13. DOMAIN groups' = DOMAIN groups \ {i} /\ \A k \in DOMAIN groups' : groups'[k] = groups[k]
  BY <1>7
<1>14. Exemplars \subseteq Ids /\ Cohorts \subseteq Ids
  BY DEF Ids
<1>15. \A t \in Ids : Known(t) => Winner(t) \in Int
  BY <1>2, <1>3, WinnerOK
<1>16. LeftOK'
  <2>1. \A k \in DOMAIN groups' : \A t \in Ids : t \in Range(groups'[k]) <=> Known(t) /\ Winner(t) = k
    BY <1>1, <1>13 DEF LeftOK
  <2>2. ASSUME NEW t \in Ids, Known(t), Winner(t) \notin DOMAIN groups', NEW k \in DOMAIN groups'
        PROVE  Winner(t) < k
    <3>1. k \in DOMAIN groups /\ k # i /\ k \in Int
      BY <1>1, <1>3, <1>13 DEF OutputTypes
    <3>2. i < k
      BY <1>4, <1>5, <3>1
    <3>3. Winner(t) = i \/ Winner(t) \notin DOMAIN groups
      BY <1>13, <2>2
    <3> QED
      BY <1>1, <2>2, <3>1, <3>2, <3>3 DEF LeftOK
  <2> QED
    BY <1>12, <2>1, <2>2 DEF LeftOK
<1>17. ASSUME NEW t \in Exemplars
       PROVE  parsed'[t] = IF Good(t) /\ Winner(t) \notin DOMAIN groups' THEN files[Winner(t)] ELSE None
  <2>1. t \in Range(records) <=> Good(t) /\ Winner(t) = i
    BY <1>11, <1>14
  <2>2. parsed[t] = IF Good(t) /\ Winner(t) \notin DOMAIN groups THEN files[Winner(t)] ELSE None
    BY <1>1 DEF ParsedOK
  <2> QED
    BY <1>7, <1>13, <2>1, <2>2
<1>18. ParsedOK'
  BY <1>0, <1>12, <1>17 DEF ParsedOK
<1>19. \A f : \A c : c \in Namers(f)' <=>
         c \in Namers(f) \/ (c \in Cohorts /\ FamilyOf[c] = f /\ c \in Range(records))
  BY <1>11, <1>12, <1>13, <1>14 DEF Namers
<1>20. \A f \in Families : \A c \in Namers(f) : Winner(c) < i /\ Winner(c) \in Int
  BY <1>1, <1>14, <1>15 DEF Namers, LeftOK, Good
<1>21. ASSUME NEW f \in Families
       PROVE  \/ names'[f] = None /\ Namers(f)' = {}
              \/ names'[f] \in Namers(f)' /\ \A c \in Namers(f)' : Winner(c) <= Winner(names'[f])
  <2>1. PICK name : name = names'[f]
    OBVIOUS
  <2>2. CASE /\ name = names[f]
             /\ \A c \in Cohorts : c \in Range(records) => FamilyOf[c] # f
    <3>1. \A c : c \in Namers(f)' <=> c \in Namers(f)
      BY <1>19, <2>2
    <3>2. \/ name = None /\ Namers(f) = {}
          \/ name \in Namers(f) /\ \A c \in Namers(f) : Winner(c) <= Winner(name)
      BY <1>1, <2>2 DEF NamesOK
    <3> QED
      BY <2>1, <3>1, <3>2
  <2>3. CASE name \in Cohorts /\ name \in Range(records) /\ FamilyOf[name] = f
    <3>1. name \in Namers(f)'
      BY <1>19, <2>3
    <3>2. Winner(name) = i
      BY <1>11, <1>14, <2>3
    <3>3. ASSUME NEW c, c \in Namers(f)' PROVE Winner(c) <= i
      <4>1. CASE c \in Namers(f)
        BY <1>5, <1>20, <4>1
      <4>2. CASE c \in Cohorts /\ c \in Range(records)
        BY <1>5, <1>11, <1>14, <4>2
      <4> QED
        BY <1>19, <3>3, <4>1, <4>2
    <3> QED
      BY <2>1, <3>1, <3>2, <3>3
  <2>4. \/ /\ name = names[f]
           /\ \A c \in Cohorts : c \in Range(records) => FamilyOf[c] # f
        \/ name \in Cohorts /\ name \in Range(records) /\ FamilyOf[name] = f
    BY <1>7, <1>10, <2>1, NamedOK
  <2> QED
    BY <2>2, <2>3, <2>4
<1>22. NamesOK'
  BY <1>12, <1>21 DEF NamesOK
<1>23. CachedOK'
  BY <1>0, <1>1, <1>12 DEF CachedOK
<1>24. OutputTypes'
  <2>1. \A k \in DOMAIN groups' : k \in DOMAIN files' /\ groups'[k] \in Seq(Ids)
    BY <1>0, <1>1, <1>13 DEF OutputTypes
  <2>2. parsed' \in [Exemplars -> Paths \cup {None}]
    BY <1>1, <1>5, <1>7 DEF OutputTypes
  <2>3. names' \in [Families -> Cohorts \cup {None}]
    <3>1. names' = [f \in Families |-> names'[f]]
      BY <1>7 DEF Named
    <3>2. \A f \in Families : names'[f] \in Cohorts \cup {None}
      BY <1>1, <1>7, <1>10, NamedOK DEF OutputTypes
    <3> QED
      BY <3>1, <3>2
  <2> QED
    BY <1>0, <1>1, <2>1, <2>2, <2>3 DEF OutputTypes
<1> QED
  BY <1>0, <1>2, <1>16, <1>18, <1>22, <1>23, <1>24 DEF OutputOK

\* loadExemplar takes the last file that yields the record.
LEMMA ParentOK ==
  ASSUME Types, NEW t \in Ids
  PROVE  /\ ParentFile(t) = LastIn(Taken(t), Sources(t))
         /\ \/ ParentFile(t) = None
            \/ \E k \in DOMAIN fileIndices[t] :
                 ParentFile(t) = files[fileIndices[t][k]] /\ ParentFile(t) \in Paths
<1>1. PICK s \in Seq(Nat) : s = fileIndices[t]
  BY DEF Types
<1>2. Len(s) \in Nat /\ DOMAIN s = 1 .. Len(s)
  BY LenProperties
<1>3. \A j \in DOMAIN s : s[j] \in DOMAIN files /\ files[s[j]] \in Paths
  BY <1>1, InOrder DEF Types
<1>4. PICK u : u = Taken(t)
  OBVIOUS
<1>5. DOMAIN u = DOMAIN s /\ \A j \in DOMAIN s : u[j] = files[s[j]]
  BY <1>1, <1>4 DEF Taken
<1> DEFINE able == {k \in DOMAIN s : Readable(files[s[k]], t)}
           ks == {k \in DOMAIN u : u[k] \in Sources(t)}
<1>6. able = ks
  BY <1>3, <1>5 DEF Sources
<1>7. ParentFile(t) = IF able = {} THEN None ELSE files[s[Max(able)]]
  BY <1>1 DEF ParentFile
<1>8. LastIn(u, Sources(t)) = IF ks = {} THEN None ELSE u[Max(ks)]
  BY DEF LastIn
<1>9. ks \in SUBSET DOMAIN s
  BY <1>5
<1> HIDE DEF able, ks
<1>10. CASE ks = {}
  BY <1>4, <1>6, <1>7, <1>8, <1>10
<1>11. CASE ks # {}
  <2>1. Max(ks) \in ks
    BY <1>2, <1>9, <1>11, EndsOf
  <2> QED
    BY <1>1, <1>3, <1>4, <1>5, <1>6, <1>7, <1>8, <1>9, <1>11, <2>1
<1> QED
  BY <1>10, <1>11

LEMMA ParentStep ==
  ASSUME IndexInv, OutputOK, NEW t \in Ids, LoadParent(t)
  PROVE  OutputOK'
<1>0. /\ main = "parsing" /\ main' = main /\ succeeded' = succeeded /\ ParentFile(t) # None
      /\ UNCHANGED <<order, disk, files, fileIndices, byType, readers, groups, parsed, names>>
      /\ cached' = [cached EXCEPT ![t] = ParentFile(t)]
  BY DEF LoadParent, inputs, index, mainVars
<1>1. OutputTypes /\ LeftOK /\ ParsedOK /\ NamesOK /\ CachedOK
  BY <1>0 DEF OutputOK
<1>2. Whole /\ ~succeeded
  BY <1>0 DEF IndexInv, StopOK, Whole
<1>3. /\ \A x : Known(x)' = Known(x) /\ Winner(x)' = Winner(x) /\ Good(x)' = Good(x)
      /\ \A x : Taken(x)' = Taken(x) /\ Sources(x)' = Sources(x)
  BY <1>0, SameWinners
<1>4. LeftOK'
  BY <1>0, <1>1, <1>3 DEF LeftOK
<1>5. ParsedOK'
  BY <1>0, <1>1, <1>3 DEF ParsedOK
<1>6. \A f : Namers(f)' = Namers(f)
  BY <1>0, <1>3 DEF Namers
<1>7. NamesOK'
  BY <1>0, <1>1, <1>3, <1>6 DEF NamesOK
<1>8. PICK k \in DOMAIN fileIndices[t] :
        ParentFile(t) = files[fileIndices[t][k]] /\ ParentFile(t) \in Paths
  BY <1>0, ParentOK DEF IndexInv
<1>9. ParentFile(t) = LastIn(Taken(t), Sources(t)) /\ readers[ParentFile(t)] > 0
  BY <1>2, <1>8, ParentOK DEF IndexInv, IndexOK
<1>10. \A x \in Ids : cached'[x] = IF x = t THEN ParentFile(t) ELSE cached[x]
  BY <1>0, <1>1 DEF OutputTypes
<1>11. CachedOK'
  BY <1>0, <1>1, <1>3, <1>9, <1>10 DEF CachedOK
<1>12. OutputTypes'
  BY <1>0, <1>1, <1>8 DEF OutputTypes
<1> QED
  BY <1>0, <1>2, <1>4, <1>5, <1>7, <1>11, <1>12 DEF OutputOK

LEMMA OutputStep ==
  ASSUME IndexInv, OutputOK, [Next]_vars
  PROVE  OutputOK'
<1>0. OutputTypes
  BY DEF OutputOK
<1>1. CASE Worker
  <2>1. UNCHANGED <<groups, parsed, names, cached, main, succeeded>> /\ worker \notin {"none", "exited"}
    BY <1>1, WorkerKeeps, WorkerRuns
  <2>2. ~done /\ main \notin {"parsing", "grouping"} /\ ~succeeded
    BY <2>1 DEF IndexInv, HandOver, StopOK
  <2>3. files' = files \/ files = <<>>
    <3>1. CASE ListFiles BY <3>1 DEF ListFiles, IndexInv, Progress
    <3>2. CASE ListFails BY <3>2 DEF ListFails, index
    <3>3. CASE NextFile BY <3>3 DEF NextFile, index
    <3>4. CASE Load BY <3>4 DEF Load, index
    <3>5. CASE Reject BY <3>5 DEF Reject, index
    <3>6. CASE CountRejected BY <3>6 DEF CountRejected, index
    <3>7. CASE Merge BY <3>7 DEF Merge
    <3> QED BY <1>1, <3>1, <3>2, <3>3, <3>4, <3>5, <3>6, <3>7 DEF Worker
  <2>4. ASSUME files = <<>> PROVE DOMAIN groups = {}
    <3>1. DOMAIN files = {}
      BY <2>4
    <3> QED
      BY <1>0, <3>1 DEF OutputTypes
  <2>5. OutputTypes'
    BY <1>0, <2>1, <2>3, <2>4, SameTypesOut
  <2>6. Untouched' <=> Untouched
    BY <2>1 DEF Untouched
  <2> QED
    BY <2>1, <2>2, <2>5, <2>6 DEF OutputOK
<1>2. CASE Main
  <2>0. UNCHANGED <<order, disk, files, fileIndices, byType, readers>>
    BY <1>2, MainKeeps DEF IndexInv
  <2>1. ASSUME UNCHANGED <<groups, parsed, names, cached, succeeded>>,
               main \in {"starting", "mapper", "polling"},
               main' \in {"mapper", "polling", "grouping"}
        PROVE  OutputOK'
    <3>1. OutputTypes'
      BY <1>0, <2>0, <2>1, SameTypesOut
    <3>2. Untouched' /\ ~succeeded
      BY <2>1 DEF OutputOK, Untouched, IndexInv, StopOK
    <3> QED
      BY <2>1, <3>1, <3>2 DEF OutputOK
  <2>2. ASSUME UNCHANGED <<groups, parsed, names, cached>>,
               main' \in {"joining", "ended"}, succeeded' => succeeded \/ Complete
        PROVE  OutputOK'
    <3>1. OutputTypes'
      BY <1>0, <2>0, <2>2, SameTypesOut
    <3>2. ASSUME succeeded'
          PROVE  (LeftOK /\ ParsedOK /\ NamesOK /\ CachedOK)' /\ DOMAIN groups' = {}
      <4>1. LeftOK /\ ParsedOK /\ NamesOK /\ CachedOK /\ DOMAIN groups = {}
        BY <2>2, <3>2 DEF OutputOK, Complete
      <4> QED
        BY <2>0, <2>2, <4>1, SameOutput
    <3> QED
      BY <2>2, <3>1, <3>2 DEF OutputOK
  <2>3. CASE Start BY <2>1, <2>3 DEF Start, output
  <2>4. CASE LoadMapper BY <2>1, <2>4 DEF LoadMapper, output
  <2>5. CASE Poll
    <3>1. main' \in {"polling", "grouping"} /\ main = "polling"
      BY <2>5 DEF Poll
    <3> QED
      BY <2>1, <2>5, <3>1 DEF Poll, output
  <2>6. CASE GroupRecords BY <2>6, GroupStep
  <2>7. CASE ParseFile BY <2>7, ParseStep
  <2>8. CASE Complete BY <2>2, <2>8 DEF Complete, output
  <2>9. CASE GiveUp BY <2>2, <2>9 DEF GiveUp, output
  <2>10. CASE Join BY <2>2, <2>10 DEF Join, output
  <2>11. ASSUME NEW t \in Ids, LoadParent(t) PROVE OutputOK'
    BY <2>11, ParentStep
  <2> QED
    BY <1>2, <2>3, <2>4, <2>5, <2>6, <2>7, <2>8, <2>9, <2>10, <2>11 DEF Main
<1>3. CASE UNCHANGED vars
  <2>1. /\ UNCHANGED <<order, disk, files, fileIndices, byType, readers>>
        /\ UNCHANGED <<groups, parsed, names, cached, main, succeeded>>
    BY <1>3 DEF vars, inputs, index, output, mainVars
  <2>2. OutputTypes'
    BY <1>0, <2>1, SameTypesOut
  <2>3. Untouched' <=> Untouched
    BY <2>1 DEF Untouched
  <2>4. main = "parsing" \/ succeeded => (LeftOK /\ ParsedOK /\ NamesOK /\ CachedOK)'
    BY <2>1, SameOutput DEF OutputOK
  <2> QED
    BY <2>1, <2>2, <2>3, <2>4 DEF OutputOK
<1> QED
  BY <1>1, <1>2, <1>3 DEF Next

LEMMA OutputStarts ==
  ASSUME Init
  PROVE  OutputOK
<1>1. /\ groups = <<>> /\ parsed = [t \in Exemplars |-> None] /\ names = [f \in Families |-> None]
      /\ cached = [t \in Ids |-> None] /\ main = "starting" /\ succeeded = FALSE
  BY DEF Init
<1>2. DOMAIN groups = {}
  BY <1>1
<1>3. OutputTypes
  BY <1>1, <1>2 DEF OutputTypes
<1>4. Untouched
  BY <1>1, <1>2 DEF Untouched
<1> QED
  BY <1>1, <1>3, <1>4 DEF OutputOK

THEOREM OutputInvariance == Spec => [](IndexInv /\ OutputOK)
<1>1. IndexInv /\ OutputOK /\ [Next]_vars => OutputOK'
  BY OutputStep
<1>2. Init => OutputOK
  BY OutputStarts
<1> QED
  BY <1>1, <1>2, IndexInvariance, PTL DEF Spec

\* TypeOK is spelt over several parts of the invariant.
LEMMA TypesAreOK ==
  ASSUME IndexInv, OutputOK
  PROVE  TypeOK
<1>1. HandOver /\ StopOK /\ Types /\ OutputTypes
  BY DEF IndexInv, OutputOK
<1>2. \A x \in {stop, done, running, succeeded} : x \in BOOLEAN
  BY <1>1 DEF StopOK
<1>3. \A t \in Ids : Range(fileIndices[t]) \subseteq DOMAIN files
  BY <1>1 DEF Types, Range
<1>4. DOMAIN byType = {"exemplar", "cohort"} /\ \A type \in DOMAIN byType : byType[type] \in Seq(Ids)
  BY <1>1 DEF Types
<1>5. ASSUME NEW type \in DOMAIN byType, NEW k \in DOMAIN byType[type]
      PROVE  byType[type][k] \in Ids /\ TypeOf(byType[type][k]) = type
  <2>1. PICK s \in Seq(Ids) : s = byType[type]
    BY <1>4
  <2>2. s[k] \in Ids
    BY <1>5, <2>1, LenProperties, ElementOfSeq
  <2> QED
    BY <1>1, <1>4, <2>1, <2>2 DEF Types
<1>6. {stop, done, running, succeeded} \subseteq BOOLEAN
  BY <1>2
<1>7. order \in Orders /\ disk \in [Paths -> Contents \cup {Bad}] /\ files \in {<<>>, order}
      /\ pos \in 0 .. Len(order) + 1 /\ local \in Seq(Ids) /\ readers \in [Paths -> Nat]
      /\ processed \in 0 .. Len(files) /\ entries \in Nat /\ errors \in Nat
  BY <1>1 DEF Types
<1>8. /\ worker \in {"none", "listing", "next", "loading", "merging", "rejected", "exited"}
      /\ main \in {"starting", "mapper", "polling", "grouping", "parsing", "joining", "ended"}
  BY <1>1 DEF StopOK
<1>9. /\ \A i \in DOMAIN groups : i \in DOMAIN files /\ groups[i] \in Seq(Ids)
      /\ parsed \in [Exemplars -> Paths \cup {None}]
      /\ names \in [Families -> Cohorts \cup {None}]
      /\ cached \in [Ids -> Paths \cup {None}]
  BY <1>1 DEF OutputTypes
<1> QED
  BY <1>3, <1>5, <1>6, <1>7, <1>8, <1>9 DEF TypeOK

\* What a good record's winner is when the scan has gone to its end.
LEMMA WinnerIsLast ==
  ASSUME IndexInv, Whole, done, files = order, NEW t \in Ids
  PROVE  LET last == LastPath(Holders(t))
             good == last # None /\ Readable(last, t)
         IN /\ Good(t) <=> good
            /\ good => /\ files[Winner(t)] = last /\ Winner(t) \in Positions(order, last)
                       /\ Winner(t) \in Nat \ {0}
<1>1. PICK last : last = LastPath(Holders(t))
  OBVIOUS
<1>2. LastIn(Taken(t), Paths) = last /\ (Known(t) <=> last # None)
  BY <1>1, WholeIndex
<1>3. CASE ~Known(t)
  BY <1>1, <1>2, <1>3 DEF Good
<1>4. CASE Known(t)
  <2>1. Winner(t) \in DOMAIN files /\ files[Winner(t)] = last
    BY <1>2, <1>4, WinnerOK
  <2>2. Winner(t) \in Positions(order, last)
    BY <2>1 DEF Positions
  <2>3. Winner(t) \in Nat \ {0}
    BY <2>1, InOrder DEF IndexInv
  <2>4. last # None
    BY <1>2, <1>4
  <2>5. Good(t) <=> Readable(last, t)
    BY <1>4, <2>1 DEF Good
  <2> QED
    BY <1>1, <2>1, <2>2, <2>3, <2>4, <2>5
<1> QED
  BY <1>3, <1>4

\* main.cpp, getSortedPluginFiles and the loops that fill the caches, whatever the files
\* and their order: the index is complete, exemplars and parents are those of the last
\* file, and so are names between files whose places do not interleave.
THEOREM LastFileWinsAlways == Spec => []LastFileWins
<1>1. ASSUME IndexInv, OutputOK PROVE LastFileWins
  <2>1. TypeOK
    BY <1>1, TypesAreOK
  <2>2. CompleteWhenDone
    BY <1>1, WholeIsComplete
  <2>3. ASSUME succeeded, files = order
        PROVE  ExemplarsFromLast /\ NamesFromLatest /\ ParentsFromLast
    <3>1. Whole /\ done
      BY <1>1, <2>3 DEF Whole, IndexInv, StopOK
    <3>2. ParsedOK /\ NamesOK /\ CachedOK /\ DOMAIN groups = {}
      BY <1>1, <2>3 DEF OutputOK
    <3>3. Exemplars \subseteq Ids /\ Cohorts \subseteq Ids
      BY DEF Ids
    <3>4. ASSUME NEW t \in Ids, NEW last, last = LastPath(Holders(t))
          PROVE  /\ Good(t) <=> last # None /\ Readable(last, t)
                 /\ Good(t) => /\ files[Winner(t)] = last /\ Winner(t) \in Positions(order, last)
                               /\ Winner(t) \in Nat \ {0}
      BY <1>1, <2>3, <3>1, <3>4, WinnerIsLast
    <3>5. ExemplarsFromLast
      <4>1. ASSUME NEW t \in Exemplars, NEW last, last = LastPath(Holders(t))
            PROVE  parsed[t] = IF last # None /\ Readable(last, t) THEN last ELSE None
        BY <3>2, <3>3, <3>4, <4>1 DEF ParsedOK
      <4> QED
        BY <4>1 DEF ExemplarsFromLast
    <3>6. NamesFromLatest
      <4> DEFINE winner(c) == LastPath(Holders(c))
                 cs(f) == {c \in Cohorts : /\ FamilyOf[c] = f
                                           /\ winner(c) # None /\ Readable(winner(c), c)}
      <4>1. \A f : cs(f) = Namers(f)
        BY <3>2, <3>3, <3>4 DEF Namers
      <4>2. ASSUME NEW f \in Families, NEW c \in cs(f), names[f] \in cs(f),
                   Winner(c) <= Winner(names[f])
            PROVE  ~Precedes(winner(names[f]), winner(c))
        <5>1. PICK m : m = names[f]
          OBVIOUS
        <5>2. /\ m \in Ids /\ c \in Ids /\ Good(m) /\ Good(c)
          BY <3>3, <3>4, <4>2, <5>1
        <5>3. /\ Winner(m) \in Positions(order, winner(m)) /\ Winner(m) \in Nat \ {0}
              /\ Winner(c) \in Positions(order, winner(c)) /\ Winner(c) \in Nat \ {0}
          BY <3>4, <5>2
        <5>4. ~(Winner(m) < Winner(c))
          BY <4>2, <5>1, <5>3
        <5> QED
          BY <5>1, <5>3, <5>4 DEF Precedes
      <4>3. NamesFromLatest <=>
              \A f \in Families :
                IF cs(f) = {} THEN names[f] = None
                ELSE names[f] \in cs(f)
                     /\ \A c \in cs(f) : ~Precedes(winner(names[f]), winner(c))
        BY DEF NamesFromLatest
      <4> HIDE DEF winner, cs
      <4>4. ASSUME NEW f \in Families
            PROVE  \/ cs(f) = {} /\ names[f] = None
                   \/ names[f] \in cs(f) /\ \A c \in cs(f) : Winner(c) <= Winner(names[f])
        BY <3>2, <4>1 DEF NamesOK
      <4> QED
        BY <4>2, <4>3, <4>4
    <3>7. ParentsFromLast
      <4>1. ASSUME NEW t \in Ids
            PROVE  LastIn(Taken(t), Sources(t)) = LastPath(Sources(t))
        <5>1. Sources(t) \in SUBSET Paths /\ Sources(t) \cap Holders(t) = Sources(t)
          BY DEF Sources, Holders, Readable
        <5> QED
          BY <1>1, <2>3, <3>1, <5>1, WholeIndex
      <4> QED
        BY <3>2, <4>1 DEF CachedOK, ParentsFromLast
    <3> QED
      BY <3>5, <3>6, <3>7
  <2> QED
    BY <2>1, <2>2, <2>3 DEF LastFileWins
<1> QED
  BY <1>1, OutputInvariance, PTL

-----------------------------------------------------------------------------
(* The pictures: what a frame makes of the lists of the cache.              *)

SceneOK ==
  /\ stored \subseteq Keys /\ readable \subseteq Keys
  /\ layout \in {"table", "whole", "grid"} /\ open \in BOOLEAN
  /\ top \in 1 .. Len(Rows) - Height + 1
  /\ device \in 0 .. MaxGen /\ seen \in 0 .. MaxGen

\* r is lruList_, q loadQueue_ and f failed_: no key is in two of them, or twice.
ListsOK(r, q, f) ==
  /\ r \in Seq(Keys) /\ IsInjective(r) /\ Len(r) <= MaxSize
  /\ q \in Seq(Keys) /\ IsInjective(q)
  /\ f \subseteq Keys
  /\ Range(r) \cap Range(q) = {} /\ (Range(r) \cup Range(q)) \cap f = {}

\* A texture that is kept is of the device the cache has seen last.
CacheInv ==
  /\ SceneOK /\ ListsOK(recent, queue, failed)
  /\ \A k \in Range(recent) : made[k] = seen

LEMMA WindowOK ==
  ASSUME NEW a \in Int, NEW b \in Int, a <= b, a <= Len(Rows), b >= 1
  PROVE  Window(a, b) \in Seq(Keys) /\ IsInjective(Window(a, b))
<1> DEFINE m == IF a < 1 THEN 1 ELSE a
           n == IF b > Len(Rows) THEN Len(Rows) ELSE b
<1>1. Rows \in Seq(Keys) /\ IsInjective(Rows) /\ Len(Rows) \in Nat /\ Len(Rows) >= 1
  BY ThumbnailAssumption, LenProperties
<1>2. n \in 0 .. Len(Rows) /\ m \in 1 .. n + 1
  BY <1>1
<1> HIDE DEF m, n
<1>3. SubSeq(Rows, m, n) \in Seq(Keys) /\ IsInjective(SubSeq(Rows, m, n))
  BY <1>1, <1>2, CutOnce
<1> QED
  BY <1>3 DEF m, n, Window

LEMMA OnScreenOK ==
  ASSUME SceneOK
  PROVE  /\ OnScreen \in Seq(Keys) /\ IsInjective(OnScreen)
         /\ Wanted \in Seq(Keys) /\ IsInjective(Wanted)
<1>1. /\ Rows \in Seq(Keys) /\ IsInjective(Rows) /\ Len(Rows) \in Nat
      /\ Height \in 1 .. Len(Rows) /\ Margin \in Nat /\ top \in 1 .. Len(Rows) - Height + 1
  BY ThumbnailAssumption, LenProperties DEF SceneOK
<1>2. /\ top \in Int /\ top + Height - 1 \in Int /\ top <= top + Height - 1
      /\ top <= Len(Rows) /\ top + Height - 1 >= 1
  BY <1>1
<1>3. OnScreen \in Seq(Keys) /\ IsInjective(OnScreen)
  <2>1. Window(top, top + Height - 1) \in Seq(Keys) /\ IsInjective(Window(top, top + Height - 1))
    BY <1>2, WindowOK
  <2> QED
    BY <1>1, <2>1 DEF OnScreen
<1>4. Near \in Seq(Keys) /\ IsInjective(Near)
  <2> DEFINE w == Window(top - Margin, top + Height - 1 + Margin)
  <2>1. /\ top - Margin \in Int /\ top + Height - 1 + Margin \in Int
        /\ top - Margin <= top + Height - 1 + Margin
        /\ top - Margin <= Len(Rows) /\ top + Height - 1 + Margin >= 1
    BY <1>1
  <2>2. w \in Seq(Keys) /\ IsInjective(w)
    BY <2>1, WindowOK
  <2> HIDE DEF w
  <2>3. Those(w, stored) \in Seq(Keys) /\ IsInjective(Those(w, stored))
    BY <2>2, ThoseOnce
  <2> QED
    BY <2>3 DEF w, Near
<1>5. All \in Seq(Keys) /\ IsInjective(All)
  BY <1>1, ThoseOnce DEF All
<1> QED
  BY <1>3, <1>4, <1>5 DEF Wanted, Visible

\* Request leaves out what is there, waits or has failed.
LEMMA AskedOK ==
  ASSUME SceneOK, NEW r, NEW q, NEW f, ListsOK(r, q, f)
  PROVE  /\ Requested(r, q, f) \in Seq(Keys) /\ IsInjective(Requested(r, q, f))
         /\ Range(Requested(r, q, f)) \cap (Range(r) \cup f) = {}
<1> DEFINE S == Keys \ (Range(r) \cup Range(q) \cup f)
           new == Those(Wanted, S)
<1>1. /\ new \in Seq(Keys) /\ IsInjective(new) /\ Range(new) = Range(Wanted) \cap S
  BY OnScreenOK, ThoseOnce
<1>2. q \in Seq(Keys) /\ IsInjective(q) /\ Range(q) \cap (Range(r) \cup f) = {}
  BY DEF ListsOK
<1>3. Range(new) \cap (Range(r) \cup Range(q) \cup f) = {}
  BY <1>1
<1> HIDE DEF new
<1>4. /\ q \o new \in Seq(Keys) /\ Range(q \o new) = Range(q) \cup Range(new)
      /\ IsInjective(q \o new)
  <2>1. Range(q) \cap Range(new) = {}
    BY <1>3
  <2> QED
    BY <1>1, <1>2, <2>1, JoinedIs, JoinedOnce
<1> QED
  BY <1>2, <1>3, <1>4 DEF new, Requested

\* Get keeps the keys of the cache and brings those on screen to the front.
LEMMA UsedOK ==
  ASSUME SceneOK, NEW r \in Seq(Keys), IsInjective(r)
  PROVE  /\ Touched(r) \in Seq(Keys) /\ IsInjective(Touched(r)) /\ Range(Touched(r)) = Range(r)
         /\ \A k \in Range(OnScreen) \cap Range(r) :
              \E j \in 1 .. Len(Touched(r)) : j <= Len(OnScreen) /\ Touched(r)[j] = k
<1> DEFINE got == Those(OnScreen, Range(r))
           front == Reverse(got)
           back == Those(r, Keys \ Range(got))
<1>1. /\ got \in Seq(Keys) /\ IsInjective(got) /\ Len(got) <= Len(OnScreen)
      /\ Range(got) = Range(OnScreen) \cap Range(r)
  BY OnScreenOK, ThoseOnce
<1> HIDE DEF got
<1>2. /\ front \in Seq(Keys) /\ IsInjective(front) /\ Len(front) = Len(got)
      /\ Range(front) = Range(got)
  BY <1>1, ReversedOnce
<1>3. /\ back \in Seq(Keys) /\ IsInjective(back) /\ Range(back) = Range(r) \cap (Keys \ Range(got))
  BY ThoseOnce
<1>4. Range(r) \subseteq Keys
  BY LenProperties, ElementOfSeq DEF Range
<1>5. Touched(r) = front \o back
  BY DEF Touched, got
<1> HIDE DEF front, back
<1>6. Range(front) \cap Range(back) = {} /\ Range(front) \cup Range(back) = Range(r)
  BY <1>1, <1>2, <1>3, <1>4
<1>7. /\ Touched(r) \in Seq(Keys) /\ IsInjective(Touched(r)) /\ Range(Touched(r)) = Range(r)
  <2>1. front \o back \in Seq(Keys)
    BY <1>2, <1>3, JoinedIs
  <2>2. IsInjective(front \o back) /\ Range(front \o back) = Range(front) \cup Range(back)
    BY <1>2, <1>3, <1>6, JoinedOnce
  <2> QED
    BY <1>5, <1>6, <2>1, <2>2
<1>8. ASSUME NEW k \in Range(OnScreen) \cap Range(r)
      PROVE  \E j \in 1 .. Len(Touched(r)) : j <= Len(OnScreen) /\ Touched(r)[j] = k
  <2>1. DOMAIN front = 1 .. Len(front) /\ Len(front) \in Nat
    BY <1>2, LenProperties
  <2>2. PICK j \in 1 .. Len(front) : front[j] = k
    BY <1>1, <1>2, <1>8, <2>1 DEF Range
  <2>3. /\ Len(front \o back) = Len(front) + Len(back) /\ Len(back) \in Nat
        /\ (front \o back)[j] = front[j]
    BY <1>2, <1>3, JoinedIs
  <2>4. Len(OnScreen) \in Nat
    BY OnScreenOK, LenProperties
  <2>5. j \in 1 .. Len(Touched(r)) /\ j <= Len(OnScreen)
    BY <1>1, <1>2, <1>5, <2>1, <2>3, <2>4
  <2> QED
    BY <1>5, <2>2, <2>3, <2>5
<1> QED
  BY <1>7, <1>8

\* Insert keeps the bound and, within it, the keys that were used last.
LEMMA InsertedOK ==
  ASSUME NEW u \in Seq(Keys), IsInjective(u), NEW ks \in Seq(Keys), IsInjective(ks),
         Range(u) \cap Range(ks) = {}
  PROVE  /\ Inserted(u, ks) \in Seq(Keys) /\ IsInjective(Inserted(u, ks))
         /\ Len(Inserted(u, ks)) <= MaxSize
         /\ Range(Inserted(u, ks)) \subseteq Range(u) \cup Range(ks)
         /\ \A j \in 1 .. Len(u) : j + Len(ks) <= MaxSize => u[j] \in Range(Inserted(u, ks))
<1> DEFINE front == Reverse(ks)
           all == front \o u
           n == IF Len(all) < MaxSize THEN Len(all) ELSE MaxSize
           kept == SubSeq(all, 1, n)
<1>1. /\ front \in Seq(Keys) /\ IsInjective(front) /\ Range(front) = Range(ks)
      /\ Len(front) = Len(ks) /\ Len(ks) \in Nat
  BY ReversedOnce
<1> HIDE DEF front
<1>2. /\ all \in Seq(Keys) /\ Range(all) = Range(u) \cup Range(ks)
      /\ Len(all) = Len(ks) + Len(u) /\ Len(u) \in Nat
      /\ \A k \in Len(ks) + 1 .. Len(ks) + Len(u) : all[k] = u[k - Len(ks)]
  <2>1. /\ all \in Seq(Keys) /\ Len(all) = Len(front) + Len(u) /\ Len(u) \in Nat
        /\ \A k \in Len(front) + 1 .. Len(front) + Len(u) : all[k] = u[k - Len(front)]
    BY <1>1, JoinedIs
  <2>2. Range(all) = Range(front) \cup Range(u)
    BY <1>1, JoinedOnce
  <2> HIDE DEF all
  <2> QED
    BY <1>1, <2>1, <2>2
<1>3. IsInjective(all)
  BY <1>1, JoinedOnce
<1> HIDE DEF all
<1>4. MaxSize \in Nat \ {0}
  BY ThumbnailAssumption
<1>5. n \in 0 .. Len(all) /\ 1 \in 1 .. n + 1 /\ n <= MaxSize
  BY <1>2, <1>4
<1>6. DOMAIN all = 1 .. Len(all) /\ Len(all) \in Nat
  BY <1>2, LenProperties
<1>7. /\ kept \in Seq(Keys) /\ Len(kept) = n - 1 + 1 /\ Range(kept) = {all[k] : k \in 1 .. n}
      /\ IsInjective(kept)
  <2> HIDE DEF n
  <2> QED
    BY <1>2, <1>3, <1>5, CutOnce
<1>8. kept = Inserted(u, ks)
  BY DEF Inserted, all, front
<1>9. ASSUME NEW j \in 1 .. Len(u), j + Len(ks) <= MaxSize PROVE u[j] \in Range(kept)
  <2>1. j + Len(ks) \in 1 .. n /\ j + Len(ks) \in Len(ks) + 1 .. Len(ks) + Len(u)
    BY <1>1, <1>2, <1>4, <1>9
  <2>2. j + Len(ks) - Len(ks) = j
    BY <1>1
  <2>3. PICK i \in Len(ks) + 1 .. Len(ks) + Len(u) : i = j + Len(ks) /\ i \in 1 .. n
    BY <2>1
  <2>4. all[i] = u[i - Len(ks)]
    BY <1>2
  <2> HIDE DEF n, kept
  <2>5. all[i] = u[j]
    BY <2>2, <2>3, <2>4
  <2> QED
    BY <1>7, <2>3, <2>5
<1> HIDE DEF n, kept
<1>10. Range(kept) \subseteq Range(all)
  <2>1. \A k \in 1 .. n : k \in DOMAIN all
    BY <1>5, <1>6
  <2> QED
    BY <1>7, <2>1 DEF Range
<1>11. Len(kept) <= MaxSize
  BY <1>4, <1>5, <1>7
<1> QED
  BY <1>2, <1>7, <1>8, <1>9, <1>10, <1>11

\* ProcessLoadQueue takes from the front of the queue.
LEMMA BatchOK ==
  ASSUME NEW q \in Seq(Keys), IsInjective(q)
  PROVE  /\ Batch(q) \in Seq(Keys) /\ IsInjective(Batch(q)) /\ Len(Batch(q)) <= MaxLoad
         /\ Rest(q) \in Seq(Keys) /\ IsInjective(Rest(q))
         /\ Range(Batch(q)) \subseteq Range(q) /\ Range(Rest(q)) \subseteq Range(q)
         /\ Range(Batch(q)) \cap Range(Rest(q)) = {}
<1> DEFINE n == IF Len(q) < MaxLoad THEN Len(q) ELSE MaxLoad
           batch == SubSeq(q, 1, n)
           rest == SubSeq(q, n + 1, Len(q))
<1>1. Len(q) \in Nat /\ DOMAIN q = 1 .. Len(q) /\ MaxLoad \in Nat \ {0}
  BY ThumbnailAssumption, LenProperties
<1>2. /\ n \in 0 .. Len(q) /\ 1 \in 1 .. n + 1 /\ n <= MaxLoad /\ n - 1 + 1 = n
      /\ Len(q) \in 0 .. Len(q) /\ n + 1 \in 1 .. Len(q) + 1
  BY <1>1
<1> HIDE DEF n
<1>3. /\ batch \in Seq(Keys) /\ IsInjective(batch) /\ Len(batch) = n
      /\ Range(batch) = {q[k] : k \in 1 .. n}
  BY <1>2, CutOnce
<1>4. /\ rest \in Seq(Keys) /\ IsInjective(rest) /\ Range(rest) = {q[k] : k \in n + 1 .. Len(q)}
  BY <1>2, CutOnce
<1>5. batch = Batch(q)
  BY DEF Batch, n
<1>6. rest = Rest(q)
  BY <1>3, <1>5 DEF Rest
<1> HIDE DEF batch, rest
<1>7. \A j \in 1 .. n, k \in n + 1 .. Len(q) : j \in DOMAIN q /\ k \in DOMAIN q /\ j # k
  BY <1>1, <1>2
<1>8. \A j \in 1 .. n, k \in n + 1 .. Len(q) : q[j] # q[k]
  BY <1>7 DEF IsInjective
<1>9. Range(batch) \cap Range(rest) = {}
  BY <1>3, <1>4, <1>8
<1>10. Range(batch) \subseteq Range(q) /\ Range(rest) \subseteq Range(q)
  <2>1. 1 .. n \subseteq DOMAIN q /\ n + 1 .. Len(q) \subseteq DOMAIN q
    BY <1>1, <1>2
  <2> QED
    BY <1>3, <1>4, <2>1 DEF Range
<1> QED
  BY <1>2, <1>3, <1>4, <1>5, <1>6, <1>9, <1>10

\* A frame from lists that are sound, whose textures are of the device there is.
LEMMA RenderedSound ==
  ASSUME SceneOK, NEW r, NEW q, NEW f, ListsOK(r, q, f),
         \A k \in Range(r) : made[k] = device, Rendered(r, q, f)
  PROVE  /\ ListsOK(recent', queue', failed')
         /\ \A k \in Range(recent') : made'[k] = device
         /\ \A k \in DOMAIN drawn' : drawn'[k] = device
         /\ Len(OnScreen) + MaxLoad <= MaxSize =>
              Range(OnScreen) \cap Range(r) \subseteq Range(recent')
<1> DEFINE asked == Requested(r, q, f)
           used == Touched(r)
           good == Those(Batch(asked), Loadable)
<1>1. /\ recent' = Inserted(used, good) /\ queue' = Rest(asked)
      /\ failed' = f \cup (Range(Batch(asked)) \ Range(good))
      /\ made' = [k \in Keys |-> IF k \in Range(good) THEN device ELSE made[k]]
      /\ drawn' = [k \in Range(OnScreen) \cap Range(r) |-> made[k]]
  BY DEF Rendered
<1>2. /\ r \in Seq(Keys) /\ IsInjective(r) /\ f \subseteq Keys /\ Range(r) \cap f = {}
  BY DEF ListsOK
<1>3. /\ asked \in Seq(Keys) /\ IsInjective(asked)
      /\ Range(asked) \cap (Range(r) \cup f) = {}
  BY AskedOK
<1>4. /\ used \in Seq(Keys) /\ IsInjective(used) /\ Range(used) = Range(r)
      /\ \A k \in Range(OnScreen) \cap Range(r) :
           \E j \in 1 .. Len(used) : j <= Len(OnScreen) /\ used[j] = k
  BY <1>2, UsedOK
<1> HIDE DEF asked, used
<1>5. /\ Batch(asked) \in Seq(Keys) /\ IsInjective(Batch(asked)) /\ Len(Batch(asked)) <= MaxLoad
      /\ Rest(asked) \in Seq(Keys) /\ IsInjective(Rest(asked))
      /\ Range(Batch(asked)) \subseteq Range(asked) /\ Range(Rest(asked)) \subseteq Range(asked)
      /\ Range(Batch(asked)) \cap Range(Rest(asked)) = {}
  BY <1>3, BatchOK
<1>6. /\ good \in Seq(Keys) /\ IsInjective(good) /\ Len(good) <= Len(Batch(asked))
      /\ Range(good) = Range(Batch(asked)) \cap Loadable
  BY <1>5, ThoseOnce
<1> HIDE DEF good
<1>7. Range(used) \cap Range(good) = {}
  BY <1>3, <1>4, <1>5, <1>6
<1>8. /\ recent' \in Seq(Keys) /\ IsInjective(recent') /\ Len(recent') <= MaxSize
      /\ Range(recent') \subseteq Range(used) \cup Range(good)
      /\ \A j \in 1 .. Len(used) : j + Len(good) <= MaxSize => used[j] \in Range(recent')
  BY <1>1, <1>4, <1>6, <1>7, InsertedOK
<1>9. Range(r) \subseteq Keys /\ Range(good) \subseteq Keys /\ Range(Batch(asked)) \subseteq Keys
  <2>1. \A s \in Seq(Keys) : Range(s) \subseteq Keys
    BY LenProperties, ElementOfSeq DEF Range
  <2> QED
    BY <1>2, <1>5, <1>6, <2>1
<1>10. ListsOK(recent', queue', failed')
  <2>1. failed' \subseteq Keys
    BY <1>1, <1>2, <1>9
  <2>2. queue' \in Seq(Keys) /\ IsInjective(queue') /\ Range(queue') \subseteq Range(asked)
        /\ Range(Batch(asked)) \cap Range(queue') = {}
    BY <1>1, <1>5
  <2>3. Range(recent') \cap Range(queue') = {}
    BY <1>3, <1>4, <1>6, <1>8, <2>2
  <2>4. Range(recent') \cap failed' = {}
    BY <1>1, <1>2, <1>3, <1>4, <1>5, <1>6, <1>8
  <2>5. Range(queue') \cap failed' = {}
    BY <1>1, <1>3, <2>2
  <2> QED
    BY <1>8, <2>1, <2>2, <2>3, <2>4, <2>5 DEF ListsOK
<1>11. \A k \in Range(recent') : made'[k] = device
  BY <1>1, <1>4, <1>8, <1>9
<1>12. \A k \in DOMAIN drawn' : drawn'[k] = device
  BY <1>1
<1>13. ASSUME Len(OnScreen) + MaxLoad <= MaxSize, NEW k \in Range(OnScreen) \cap Range(r)
       PROVE  k \in Range(recent')
  <2>1. PICK j \in 1 .. Len(used) : j <= Len(OnScreen) /\ used[j] = k
    BY <1>4
  <2>2. Len(OnScreen) \in Nat
    BY OnScreenOK, LenProperties
  <2>3. Len(used) \in Nat /\ Len(good) \in Nat /\ Len(Batch(asked)) \in Nat
    BY <1>4, <1>5, <1>6, LenProperties
  <2>4. MaxLoad \in Nat /\ MaxSize \in Nat
    BY ThumbnailAssumption
  <2>5. j + Len(good) <= MaxSize
    BY <1>5, <1>6, <1>13, <2>1, <2>2, <2>3, <2>4
  <2> QED
    BY <1>8, <2>1, <2>5
<1> QED
  BY <1>10, <1>11, <1>12, <1>13

\* A frame: a cache of a device that is gone is emptied before it is asked.
LEMMA FrameSound ==
  ASSUME CacheInv, Frame
  PROVE  /\ CacheInv'
         /\ \A k \in DOMAIN drawn' : drawn'[k] = device
         /\ device = seen /\ Len(OnScreen) + MaxLoad <= MaxSize =>
              Range(OnScreen) \cap Range(recent) \subseteq Range(recent')
<1> DEFINE Sound ==
      /\ ListsOK(recent', queue', failed')
      /\ \A k \in Range(recent') : made'[k] = device
      /\ \A k \in DOMAIN drawn' : drawn'[k] = device
      /\ device = seen /\ Len(OnScreen) + MaxLoad <= MaxSize =>
           Range(OnScreen) \cap Range(recent) \subseteq Range(recent')
<1>1. SceneOK /\ ListsOK(recent, queue, failed) /\ \A k \in Range(recent) : made[k] = seen
  BY DEF CacheInv
<1>2. seen' = device /\ UNCHANGED scene
  BY DEF Frame
<1>3. ASSUME device # seen PROVE Sound
  <2> DEFINE nothing == <<>>
  <2>1. nothing \in Seq(Keys) /\ Len(nothing) = 0 /\ DOMAIN nothing = {}
    OBVIOUS
  <2>2. MaxSize \in Nat
    BY ThumbnailAssumption
  <2>3. Rendered(nothing, nothing, {})
    BY <1>3 DEF Frame, Reset
  <2> HIDE DEF nothing
  <2>4. Range(nothing) = {} /\ IsInjective(nothing)
    BY <2>1 DEF Range, IsInjective
  <2>5. ListsOK(nothing, nothing, {})
    BY <2>1, <2>2, <2>4 DEF ListsOK
  <2>6. \A k \in Range(nothing) : made[k] = device
    BY <2>4
  <2> QED
    BY <1>1, <1>3, <2>3, <2>5, <2>6, RenderedSound
<1>4. ASSUME device = seen PROVE Sound
  <2>1. Rendered(recent, queue, failed)
    BY <1>4 DEF Frame
  <2>2. \A k \in Range(recent) : made[k] = device
    BY <1>1, <1>4
  <2> QED
    BY <1>1, <2>1, <2>2, RenderedSound
<1>5. SceneOK'
  BY <1>1, <1>2 DEF SceneOK, scene
<1>6. CacheInv'
  BY <1>2, <1>3, <1>4, <1>5 DEF CacheInv
<1> QED
  BY <1>3, <1>4, <1>6

LEMMA CacheStarts == ThumbnailInit => CacheInv
<1> SUFFICES ASSUME ThumbnailInit PROVE CacheInv
  OBVIOUS
<1>1. /\ Rows \in Seq(Keys) /\ Height \in 1 .. Len(Rows) /\ MaxSize \in Nat /\ MaxGen \in Nat
      /\ Layouts \subseteq {"table", "whole", "grid"} /\ Headers \subseteq SUBSET Keys
      /\ Len(Rows) \in Nat
  BY ThumbnailAssumption, LenProperties
<1>2. SceneOK
  BY <1>1 DEF ThumbnailInit, Loaded, SceneOK
<1>3. /\ recent \in Seq(Keys) /\ Len(recent) = 0 /\ DOMAIN recent = {}
      /\ queue \in Seq(Keys) /\ DOMAIN queue = {} /\ failed = {}
  BY DEF ThumbnailInit
<1>4. /\ Range(recent) = {} /\ IsInjective(recent)
      /\ Range(queue) = {} /\ IsInjective(queue)
  BY <1>3 DEF Range, IsInjective
<1>5. ListsOK(recent, queue, failed)
  BY <1>1, <1>3, <1>4 DEF ListsOK
<1> QED
  BY <1>2, <1>4, <1>5 DEF CacheInv

LEMMA CacheStep == CacheInv /\ [ThumbnailNext]_thumbnailVars => CacheInv'
<1> SUFFICES ASSUME CacheInv, [ThumbnailNext]_thumbnailVars PROVE CacheInv'
  OBVIOUS
<1>1. CASE Frame
  BY <1>1, FrameSound
<1>2. ASSUME UNCHANGED cache, SceneOK' PROVE CacheInv'
  BY <1>2 DEF CacheInv, ListsOK, cache
<1>3. CASE Scroll
  BY <1>2, <1>3 DEF Scroll, CacheInv, SceneOK, cache
<1>4. CASE Toggle
  BY <1>2, <1>4 DEF Toggle, CacheInv, SceneOK, cache
<1>5. CASE DeviceReset
  <2>1. MaxGen \in Nat
    BY ThumbnailAssumption
  <2> QED
    BY <1>2, <1>5, <2>1 DEF DeviceReset, CacheInv, SceneOK, cache
<1>6. CASE DiskTrouble
  BY <1>2, <1>6 DEF DiskTrouble, CacheInv, SceneOK, cache
<1>7. CASE UNCHANGED thumbnailVars
  BY <1>2, <1>7 DEF thumbnailVars, scene, CacheInv, SceneOK, cache
<1> QED
  BY <1>1, <1>3, <1>4, <1>5, <1>6, <1>7 DEF ThumbnailNext

THEOREM CacheInvariance == ThumbnailSpec => []CacheInv
<1> QED
  BY CacheStarts, CacheStep, PTL DEF ThumbnailSpec

LEMMA CacheIsSound == CacheInv => CacheSound
<1> SUFFICES ASSUME CacheInv PROVE CacheSound
  OBVIOUS
<1>1. SceneOK /\ ListsOK(recent, queue, failed)
  BY DEF CacheInv
<1>2. /\ recent \in Seq(Keys) /\ IsInjective(recent) /\ queue \in Seq(Keys) /\ IsInjective(queue)
      /\ Range(recent) \cap Range(queue) = {} /\ (Range(recent) \cup Range(queue)) \cap failed = {}
  BY <1>1 DEF ListsOK
<1>3. /\ Range(recent \o queue) = Range(recent) \cup Range(queue)
      /\ IsInjective(recent \o queue)
  BY <1>2, JoinedOnce
<1>4. Range(recent) \subseteq Keys /\ Range(queue) \subseteq Keys
  BY <1>2, LenProperties, ElementOfSeq DEF Range
<1>5. top \in 1 .. Len(Rows)
  <2>1. Height \in 1 .. Len(Rows) /\ Len(Rows) \in Nat
    BY ThumbnailAssumption, LenProperties
  <2> QED
    BY <1>1, <2>1 DEF SceneOK
<1> QED
  BY <1>1, <1>2, <1>3, <1>4, <1>5 DEF CacheSound, SceneOK, ListsOK

LEMMA CacheStepShows ==
  CacheInv /\ [ThumbnailNext]_thumbnailVars =>
    /\ [(Frame /\ device = seen /\ Len(OnScreen) + MaxLoad <= MaxSize)
          => \A k \in Range(OnScreen) \cap Range(recent) : k \in Range(recent')]_thumbnailVars
    /\ [\A k \in DOMAIN drawn' : Frame => drawn'[k] = device]_thumbnailVars
  BY FrameSound

\* A picture that is on screen stays there until its row leaves the screen or the
\* device is lost, is drawn with a texture of the device there is, and no key is in
\* two of the lists of ThumbnailCache.
THEOREM PicturesOfTheWindow == ThumbnailSpec => PicturesStay
<1>1. CacheInv /\ [ThumbnailNext]_thumbnailVars =>
        /\ [(Frame /\ device = seen /\ Len(OnScreen) + MaxLoad <= MaxSize)
              => \A k \in Range(OnScreen) \cap Range(recent) : k \in Range(recent')]_thumbnailVars
        /\ [\A k \in DOMAIN drawn' : Frame => drawn'[k] = device]_thumbnailVars
  BY CacheStepShows
<1> QED
  BY <1>1, CacheInvariance, CacheIsSound, PTL
     DEF ThumbnailSpec, PicturesStay, NoFlicker, NoPictureOfOldDevice

\* A behaviour of the scan and the pictures side by side is a behaviour of each.
THEOREM EachPart == SideBySide => Spec /\ ThumbnailSpec
<1>1. SideBySideInit => Init /\ ThumbnailInit
  BY DEF SideBySideInit
<1>2. [SideBySideNext]_<<part, vars, thumbnailVars>> =>
        [Next]_vars /\ [ThumbnailNext]_thumbnailVars
  BY DEF SideBySideNext
<1> QED
  BY <1>1, <1>2, PTL DEF SideBySide, Spec, ThumbnailSpec
=============================================================================
