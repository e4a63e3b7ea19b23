----------------------------- MODULE PluginScan -----------------------------
(***************************************************************************)
(* The command line scan: DbpfIndexService indexes the plugin files on a    *)
(* worker thread, while the main thread (main.cpp) loads the property       *)
(* mapper, polls for the end, groups the records by the file that wins and  *)
(* parses them file by file.                                               *)
(*                                                                         *)
(* Every section under mutex_ is one step.  snapshot() holds the lock       *)
(* shared; of the counters it reads, the worker changes at most one pair    *)
(* (errorCount_, processedFiles_) without the lock before it needs it       *)
(* again, and the model has the state between the two, so a snapshot is     *)
(* the state of one moment.                                                *)
(***************************************************************************)
EXTENDS Integers, FiniteSets, SequencesExt, Ordered

CONSTANTS
  Paths,       \* plugin files
  Exemplars,   \* record ids (TGI) of the exemplar type
  Cohorts,     \* record ids of the cohort type
  FamilyOf,    \* the prop family a cohort names, by cohort
  Bad,         \* content of a file that cannot be loaded
  Contents,    \* the record ids, in file order, that a good file can hold
  Orders,      \* load orders; two roots that name one directory repeat paths
  Damaged,     \* <<path, id>>: the copy of the record cannot be read
  None         \* no file, no cohort

Ids == Exemplars \cup Cohorts
Families == Range(FamilyOf)

ASSUME ScanAssumption ==
  /\ Exemplars \cap Cohorts = {} /\ DOMAIN FamilyOf = Cohorts
  /\ Bad \notin Contents /\ None \notin Paths \cup Cohorts
  /\ \A c \in Contents : c \in Seq(Ids)
  /\ \A o \in Orders : o \in Seq(Paths)
  /\ Damaged \subseteq Paths \X Ids

VARIABLES
  order,      \* what PluginLocator finds, in load order
  disk,       \* the contents of the files
  worker,     \* where the worker thread is
  pos,        \* the file it is at
  local,      \* the entries of that file, gathered before the merge
  files,      \* files_; totalFiles_ is its length
  fileIndices,\* tgiToFileIndices_
  byType,     \* typeToTgis_
  readers,    \* readerCache_: how many readers the file has had
  processed, entries, errors,   \* the counters
  stop, done, running,          \* the flags
  main,       \* where the main thread is
  succeeded,  \* the scan went to its end
  groups,     \* fileToExemplarTgis: records left to parse, by file position
  parsed,     \* the file an exemplar was taken from
  names,      \* propFamilyNamesById: the cohort that names a family
  cached      \* exemplarCache_: the file a cached exemplar was taken from

inputs == <<order, disk>>
index == <<files, fileIndices, byType, readers>>
counters == <<processed, entries, errors>>
output == <<groups, parsed, names, cached>>
workerVars == <<worker, pos, local>>
mainVars == <<main, succeeded>>
vars == <<inputs, index, counters, output, workerVars, mainVars, stop, done,
          running>>

-----------------------------------------------------------------------------
(* Files and records.                                                      *)

Holds(p, t) == disk[p] # Bad /\ t \in Range(disk[p])
Readable(p, t) == Holds(p, t) /\ <<p, t>> \notin Damaged

\* The positions of a path in the load order, the last one of which
\* pathToIndex_ keeps and the first one loadOrderIndices.
Positions(seq, p) == {i \in DOMAIN seq : seq[i] = p}
IndexOf(p) == Max(Positions(files, p))

OrderIndex(p) == Min(Positions(files, p))

TypeOf(t) == IF t \in Exemplars THEN "exemplar" ELSE "cohort"
OfType(seq, type) == Picked(seq, {k \in DOMAIN seq : TypeOf(seq[k]) = type})

Finished == worker' = "exited" /\ done' = TRUE

-----------------------------------------------------------------------------
(* The worker thread.                                                      *)

\* ListDbpfFiles, then files_, totalFiles_ and pathToIndex_ under the lock.
ListFiles ==
  /\ worker = "listing"
  /\ worker' = "next" /\ pos' = 1 /\ files' = order
  /\ UNCHANGED <<inputs, fileIndices, byType, readers, counters, output, local,
                 mainVars, stop, done, running>>

FaultyListFails ==           \* the main thread is not told
  /\ worker = "listing"
  /\ worker' = "exited" /\ errors' = errors + 1
  /\ UNCHANGED <<inputs, index, processed, entries, output, pos, local, mainVars,
                 stop, done, running>>

\* A directory cannot be read: the catch around the whole worker.
ListFails ==
  /\ worker = "listing"
  /\ Finished /\ errors' = errors + 1
  /\ UNCHANGED <<inputs, index, processed, entries, output, pos, local, mainVars,
                 stop, running>>

\* The head of the loop over the files, and what follows the loop.
NextFile ==
  /\ worker = "next"
  /\ IF stop \/ pos > Len(files)
     THEN Finished /\ UNCHANGED <<pos, local>>
     ELSE worker' = "loading" /\ UNCHANGED <<pos, local, done>>
  /\ UNCHANGED <<inputs, index, counters, output, mainVars, stop, running>>

\* LoadFile and the loop that gathers the entries, which a stop cuts short.
Load ==
  /\ worker = "loading" /\ disk[files[pos]] # Bad
  /\ worker' = "merging"
  /\ local' \in IF stop THEN Prefixes(disk[files[pos]]) ELSE {disk[files[pos]]}
  /\ UNCHANGED <<inputs, index, counters, output, pos, mainVars, stop, done,
                 running>>

\* LoadFile refuses the file, or an exception is caught: two counters, no lock.
Reject ==
  /\ worker = "loading" /\ disk[files[pos]] = Bad
  /\ worker' = "rejected" /\ errors' = errors + 1
  /\ UNCHANGED <<inputs, index, processed, entries, output, pos, local, mainVars,
                 stop, done, running>>

CountRejected ==
  /\ worker = "rejected"
  /\ worker' = "next" /\ pos' = pos + 1 /\ processed' = processed + 1
  /\ UNCHANGED <<inputs, index, entries, errors, output, local, mainVars, stop,
                 done, running>>

\* The file's entries join the index.
Indexed ==
  /\ fileIndices' = [t \in Ids |-> fileIndices[t] \o
       [k \in 1 .. Cardinality(Positions(local, t)) |-> IndexOf(files[pos])]]
  /\ byType' = [type \in DOMAIN byType |-> byType[type] \o OfType(local, type)]

\* The section that merges a file's entries.
Merge ==
  /\ worker = "merging" /\ Indexed
  /\ worker' = "next" /\ pos' = pos + 1 /\ local' = <<>>
  /\ readers' = [readers EXCEPT ![files[pos]] = @ + 1]
  /\ processed' = processed + 1 /\ entries' = entries + Len(local)
  /\ UNCHANGED <<inputs, files, errors, output, mainVars, stop, done, running>>

Worker == \/ ListFiles \/ ListFails \/ NextFile \/ Load \/ Reject
          \/ CountRejected \/ Merge

-----------------------------------------------------------------------------
(* The main thread.                                                        *)

\* start(): counters and flags are reset, the thread is created.
Start ==
  /\ main = "starting"
  /\ main' = "mapper" /\ worker' = "listing" /\ running' = TRUE
  /\ UNCHANGED <<inputs, index, counters, output, pos, local, succeeded, stop,
                 done>>

\* PropertyMapper.xml was loaded while the worker indexes.
LoadMapper ==
  /\ main = "mapper"
  /\ main' = "polling"
  /\ UNCHANGED <<inputs, index, counters, output, workerVars, succeeded, stop,
                 done, running>>

FaultyPoll ==                \* goes on as soon as every file has been looked at
  /\ main = "polling"
  /\ main' = IF processed = Len(files) THEN "grouping" ELSE main
  /\ UNCHANGED <<inputs, index, counters, output, workerVars, succeeded, stop,
                 done, running>>

\* snapshot() every 100 ms until it says done.
Poll ==
  /\ main = "polling"
  /\ main' = IF done THEN "grouping" ELSE main
  /\ UNCHANGED <<inputs, index, counters, output, workerVars, succeeded, stop,
                 done, running>>

\* The record ids once each, exemplars before cohorts, as first indexed.
RecordIds ==
  LET all == byType["exemplar"] \o byType["cohort"]
  IN Picked(all, {k \in DOMAIN all : \A j \in 1 .. k - 1 : all[j] # all[k]})

\* The last file in load order wins.
Winner(t) == OrderIndex(files[Last(fileIndices[t])])

GroupRecords ==
  /\ main = "grouping"
  /\ main' = "parsing"
  /\ LET ids == RecordIds IN
     groups' = [i \in {Winner(t) : t \in Range(ids)} |->
                  Picked(ids, {k \in DOMAIN ids : Winner(ids[k]) = i})]
  /\ UNCHANGED <<inputs, index, counters, parsed, names, cached, workerVars,
                 succeeded, stop, done, running>>

FaultyNamed(records) ==      \* the first cohort of a family keeps its name
  [f \in Families |->
     LET ks == {k \in DOMAIN records : records[k] \in Cohorts /\ FamilyOf[records[k]] = f}
     IN IF ks = {} \/ names[f] # None THEN names[f] ELSE records[Max(ks)]]

\* Later cohorts override earlier ones.
Named(records) ==
  [f \in Families |->
     LET ks == {k \in DOMAIN records : records[k] \in Cohorts /\ FamilyOf[records[k]] = f}
     IN IF ks = {} THEN names[f] ELSE records[Max(ks)]]

\* The records of the next file, with the reader the worker cached.
ParseFile ==
  /\ main = "parsing" /\ DOMAIN groups # {}
  /\ LET i == Min(DOMAIN groups)
         records == Picked(groups[i], {k \in DOMAIN groups[i] : Readable(files[i], groups[i][k])})
     IN /\ parsed' = [t \in Exemplars |->
                        IF t \in Range(records) THEN files[i] ELSE parsed[t]]
        /\ names' = Named(records)
        /\ groups' = [k \in DOMAIN groups \ {i} |-> groups[k]]
  /\ UNCHANGED <<inputs, index, counters, cached, workerVars, mainVars, stop,
                 done, running>>

\* The file loadExemplar takes a record from: the last that yields it.
ParentFile(t) ==
  LET able == {k \in DOMAIN fileIndices[t] : Readable(files[fileIndices[t][k]], t)}
  IN IF able = {} THEN None ELSE files[fileIndices[t][Max(able)]]

\* loadExemplar of the parent cohort of a record that is being parsed.
LoadParent(t) ==
  /\ main = "parsing" /\ DOMAIN groups # {} /\ fileIndices[t] # <<>>
  /\ cached[t] = None /\ ParentFile(t) # None
  /\ cached' = [cached EXCEPT ![t] = ParentFile(t)]
  /\ UNCHANGED <<inputs, index, counters, groups, parsed, names, workerVars,
                 mainVars, stop, done, running>>

\* The caches are written; shutdown() asks the worker to stop.
Complete ==
  /\ main = "parsing" /\ DOMAIN groups = {}
  /\ main' = "joining" /\ succeeded' = TRUE /\ stop' = TRUE
  /\ UNCHANGED <<inputs, index, counters, output, workerVars, done, running>>

\* No property mapper, or an exception: shutdown() by return or by unwinding.
GiveUp ==
  /\ main \in {"mapper", "polling", "grouping", "parsing"}
  /\ main' = "joining" /\ stop' = TRUE
  /\ UNCHANGED <<inputs, index, counters, output, workerVars, succeeded, done,
                 running>>

\* The rest of shutdown(); then the service is destroyed.
Join ==
  /\ main = "joining" /\ worker = "exited"
  /\ main' = "ended" /\ running' = FALSE
  /\ UNCHANGED <<inputs, index, counters, output, workerVars, succeeded, stop,
                 done>>

Main == \/ Start \/ LoadMapper \/ Poll \/ GroupRecords \/ ParseFile \/ Complete
        \/ GiveUp \/ Join
        \/ \E t \in Ids : LoadParent(t)

Init ==
  /\ order \in Orders /\ disk \in [Paths -> Contents \cup {Bad}]
  /\ worker = "none" /\ pos = 0 /\ local = <<>>
  /\ files = <<>> /\ fileIndices = [t \in Ids |-> <<>>]
  /\ byType = [type \in {"exemplar", "cohort"} |-> <<>>]
  /\ readers = [p \in Paths |-> 0]
  /\ processed = 0 /\ entries = 0 /\ errors = 0
  /\ stop = FALSE /\ done = FALSE /\ running = FALSE
  /\ main = "starting" /\ succeeded = FALSE
  /\ groups = <<>> /\ parsed = [t \in Exemplars |-> None]
  /\ names = [f \in Families |-> None] /\ cached = [t \in Ids |-> None]

Next == Worker \/ Main

Spec == Init /\ [][Next]_vars

\* Both threads are scheduled; an exception or a missing mapper is not owed.
FairSpec ==
  Spec /\ WF_vars(Worker)
       /\ WF_vars(Start \/ LoadMapper \/ Poll \/ GroupRecords \/ ParseFile
                  \/ Complete \/ Join)

-----------------------------------------------------------------------------
(* What the scan promises.                                                 *)

\* Every variable has its type; the counters never pass the files listed.
TypeOK ==
  /\ order \in Orders /\ disk \in [Paths -> Contents \cup {Bad}]
  /\ worker \in {"none", "listing", "next", "loading", "merging", "rejected",
                 "exited"}
  /\ main \in {"starting", "mapper", "polling", "grouping", "parsing",
               "joining", "ended"}
  /\ {stop, done, running, succeeded} \subseteq BOOLEAN
  /\ files \in {<<>>, order} /\ pos \in 0 .. Len(order) + 1
  /\ local \in Seq(Ids)
  /\ \A t \in Ids : Range(fileIndices[t]) \subseteq DOMAIN files
  /\ \A type \in DOMAIN byType :
       \A k \in DOMAIN byType[type] : byType[type][k] \in Ids /\ TypeOf(byType[type][k]) = type
  /\ readers \in [Paths -> Nat]
  /\ processed \in 0 .. Len(files) /\ entries \in Nat /\ errors \in Nat
  /\ \A i \in DOMAIN groups : i \in DOMAIN files /\ groups[i] \in Seq(Ids)
  /\ parsed \in [Exemplars -> Paths \cup {None}]
  /\ names \in [Families -> Cohorts \cup {None}]
  /\ cached \in [Ids -> Paths \cup {None}]

Holders(t) == {p \in Paths : Holds(p, t)}
Sources(t) == {p \in Paths : Readable(p, t)}

\* The last file of the load order that is in S.
LastPath(S) ==
  LET ks == {k \in DOMAIN order : order[k] \in S}
  IN IF ks = {} THEN None ELSE order[Max(ks)]

\* Wherever p and q are listed, p is before q.
Precedes(p, q) == \A i \in Positions(order, p), j \in Positions(order, q) : i < j

\* The records of the first n files, a place in a file each.
Records(n) == UNION {{k} \X DOMAIN disk[order[k]] : k \in {j \in 1 .. n : disk[order[j]] # Bad}}

\* Once done_ is set without a stop, the index holds every record of every
\* file that could be loaded, the file that overrides the others last, and
\* the counters add up to the files listed.
CompleteWhenDone ==
  done /\ ~stop /\ files = order =>
    /\ \A t \in Ids :
         LET last == LastPath(Holders(t)) IN
         /\ (fileIndices[t] = <<>>) = (last = None)
         /\ last # None => files[Last(fileIndices[t])] = last
         /\ (t \in Range(byType[TypeOf(t)])) = (last # None)
    /\ processed = Len(order)
    /\ entries = Cardinality(Records(Len(order)))

\* From the moment the main thread uses references into the index (the span
\* of typeIndex, the list of dbpfFiles, readers), the worker changes nothing.
FrozenWhileRead ==
  [][(main \in {"grouping", "parsing"} => UNCHANGED <<index, counters>>)]_vars

\* What was taken from where, once the scan has succeeded: an exemplar from
\* the last file of the load order that holds it, or not at all when that
\* copy is damaged;
ExemplarsFromLast ==
  \A t \in Exemplars :
    LET last == LastPath(Holders(t))
    IN parsed[t] = IF last # None /\ Readable(last, t) THEN last ELSE None

\* the name of a family from a readable cohort of it, and never from a file that
\* precedes another one with such a cohort.  Of files whose places interleave,
\* because one of them is listed twice, nothing is claimed: the records of a file
\* are parsed at its first place, although its last one decides the rest;
NamesFromLatest ==
  \A f \in Families :
    LET winner(c) == LastPath(Holders(c))
        cs == {c \in Cohorts : FamilyOf[c] = f /\ winner(c) # None /\ Readable(winner(c), c)}
    IN IF cs = {} THEN names[f] = None
       ELSE names[f] \in cs /\ \A c \in cs : ~Precedes(winner(names[f]), winner(c))

\* a parent from the last file whose copy can be read, through a reader that
\* is open.
ParentsFromLast ==
  \A t \in Ids : cached[t] # None =>
    /\ cached[t] = LastPath(Sources(t))
    /\ readers[cached[t]] > 0

\* Every variable has its type, the index is complete once it is done, and later
\* files override earlier ones, for exemplars and parents and, between files whose
\* places in the load order do not interleave, for the names of families.
LastFileWins ==
  /\ TypeOK /\ CompleteWhenDone
  /\ succeeded /\ files = order =>
       ExemplarsFromLast /\ NamesFromLatest /\ ParentsFromLast

\* The scan ends: the main thread neither polls nor joins for ever.
ScanEnds == <>(main = "ended")
=============================================================================
