---------------------------- MODULE SeasonalSets ----------------------------
(***************************************************************************)
(* DetectSeasonalSets: how the scan groups timed props into seasonal sets.  *)
(* A first pass clusters them by group and stem, a second one rescues those *)
(* that are left, one after the other: into a set that has room, else into  *)
(* a pair.  The result is what the stacks of FavoritesStore are made from    *)
(* (AutoSets there).                                                        *)
(*                                                                         *)
(* Names are what the passes ask of them: a stem, a length and how much two  *)
(* names have in common.  The order in which the sets are written is left    *)
(* out, and so are their names.                                             *)
(***************************************************************************)
EXTENDS Integers, Sequences, FiniteSets, SequencesExt, Ordered

CONSTANTS
  Catalogue,     \* the props, in the order they were scanned
  Group, Instance,    \* group and instance of each prop
  Stem, Length,  \* stem of its name, as a number that keeps their order; length
  Common,        \* CommonPrefixLength, for every two props
  File,          \* the file it came from
  Windows,       \* bound: the windows a prop can have: [start, duration]
  NoWindow,      \* a prop that is always there
  Year,          \* days of a year
  MinSeasonDays, MaxSetMembers, MinYearCoverageDays, MaxRescueOverlapDays,
  MaxUnexplained, MinPrefix    \* the 30 and the 6 in the code

Scanned == Range(Catalogue)

\* What the constants are; every module that instantiates this one assumes it.
SeasonalAssumption ==
  /\ Catalogue \in Seq(Scanned) /\ IsInjective(Catalogue)
  /\ Group \in [Scanned -> Int] /\ Instance \in [Scanned -> Int] /\ Stem \in [Scanned -> Int]
  /\ Common \in [Scanned \X Scanned -> Nat]
  /\ \A p, q \in Scanned : Group[p] = Group[q] /\ Instance[p] = Instance[q] => p = q
  /\ \A p, q, r \in Scanned :
       /\ Common[<<p, q>>] = Common[<<q, p>>]
       /\ Common[<<p, r>>] >= Min({Common[<<p, q>>], Common[<<q, r>>]})
  /\ NoWindow \notin Windows /\ Year \in Nat
  /\ \A w \in Windows : w.start \in 0 .. Year - 1 /\ w.duration \in 0 .. Year
  /\ MaxSetMembers \in Nat /\ MaxSetMembers >= 2 /\ MinPrefix > 0

VARIABLES
  windowOf,   \* the window of each prop, the same all along
  pass,       \* cluster, rescue, done
  sets,       \* WorkingSets: [members, confidence]
  waiting,    \* singletons that the second pass has not reached
  unmatched   \* those that found no company yet

seasonalVars == <<windowOf, pass, sets, waiting, unmatched>>

-----------------------------------------------------------------------------
(* Windows and names.                                                      *)

Days(w) == {(w.start + i) % Year : i \in 0 .. w.duration - 1}
Overlap(v, w) == Cardinality(Days(v) \cap Days(w))
OverlapDays(p, q) == Overlap(windowOf[p], windowOf[q])

Candidates ==
  {p \in Scanned : windowOf[p] # NoWindow /\ windowOf[p].duration >= MinSeasonDays}

\* The pairs of members, of the windows w, that overlap without one lying within
\* the other.
Unexplained(w) ==
  {pair \in SUBSET DOMAIN w : Cardinality(pair) = 2 /\
     \A p, q \in pair :
       p # q => Overlap(w[p], w[q]) \in 1 .. Min({w[p].duration, w[q].duration}) - 1}

TileTheYear(w) ==
  /\ Cardinality(UNION {Days(w[p]) : p \in DOMAIN w}) >= MinYearCoverageDays
  /\ MapThenSumSet(LAMBDA pair : LET p == CHOOSE p \in pair : TRUE
                                     q == CHOOSE q \in pair : q # p
                                 IN Overlap(w[p], w[q]),
                   Unexplained(w)) <= MaxUnexplained

WindowsLookSeasonal(ps) == TileTheYear([p \in ps |-> windowOf[p]])

\* nameMatches: half of the shorter name within one file, else six tenths.
NameMatches(p, q) ==
  /\ Common[<<p, q>>] >= MinPrefix
  /\ LET tenths == IF File[p] = File[q] THEN 5 ELSE 6
     IN Common[<<p, q>>] >= (Min({Length[p], Length[q]}) * tenths) \div 10

WindowFits(p, ms) == \A q \in Range(ms) : OverlapDays(p, q) <= MaxRescueOverlapDays

-----------------------------------------------------------------------------
(* The passes.                                                             *)

ClusterOf(p) == <<Group[p], Stem[p]>>
Smaller(c, d) == c[1] < d[1] \/ (c[1] = d[1] /\ c[2] < d[2])

\* The candidates of a cluster, as positions in the catalogue.
In(c) == {i \in DOMAIN Catalogue : Catalogue[i] \in Candidates /\ ClusterOf(Catalogue[i]) = c}

FaultyHolds(c) ==           \* a cluster of one too, and of any size
  WindowsLookSeasonal({Catalogue[i] : i \in In(c)})

Holds(c) ==
  /\ Cardinality(In(c)) \in 2 .. MaxSetMembers
  /\ WindowsLookSeasonal({Catalogue[i] : i \in In(c)})

Clusters == {ClusterOf(p) : p \in Candidates}

\* The clusters that hold become sets, in the order of their keys, and the members
\* of the others wait, cluster by cluster.
Cluster ==
  /\ pass = "cluster"
  /\ LET held == Sorted({c \in Clusters : Holds(c)},
                        {cd \in Clusters \X Clusters : Smaller(cd[1], cd[2])})
     IN sets' = [k \in DOMAIN held |->
                   [members |-> Picked(Catalogue, In(held[k])), confidence |-> 0]]
  /\ LET left == UNION {In(c) : c \in {c \in Clusters : ~Holds(c)}}
         earlier(i, j) ==
           LET c == ClusterOf(Catalogue[i])
               d == ClusterOf(Catalogue[j])
           IN Smaller(c, d) \/ (c = d /\ i < j)
         order == Sorted(left, {ij \in left \X left : earlier(ij[1], ij[2])})
     IN waiting' = [k \in DOMAIN order |-> Catalogue[order[k]]]
  /\ pass' = "rescue"
  /\ UNCHANGED <<windowOf, unmatched>>

\* The set a prop may join; a set is told by the first of its members.
Fits(p, set) ==
  LET first == Head(set.members)
  IN /\ Len(set.members) < MaxSetMembers /\ Group[first] = Group[p]
     /\ NameMatches(p, first) /\ WindowFits(p, set.members)

\* The one with the longest common prefix, the earliest of several.
Best(p, ks) ==
  LET common(k) == Common[<<p, Head(sets[k].members)>>]
  IN Min({k \in ks : \A j \in ks : common(j) <= common(k)})

Join(p, ks) ==
  /\ sets' = [sets EXCEPT ![Best(p, ks)] = [members |-> Append(@.members, p), confidence |-> 1]]
  /\ UNCHANGED unmatched

Pairs(p, q) == Group[p] = Group[q] /\ NameMatches(p, q) /\ WindowFits(p, <<q>>)

\* With the earliest that found nothing before.
Pair(p, ks) ==
  /\ sets' = Append(sets, [members |-> <<unmatched[Min(ks)], p>>, confidence |-> 1])
  /\ unmatched' = RemoveAt(unmatched, Min(ks))

FaultyRescue ==             \* tries the last that is alone only
  /\ pass = "rescue" /\ waiting # <<>>
  /\ LET p == Head(waiting)
         open == {k \in DOMAIN sets : Fits(p, sets[k])}
         alone == {k \in DOMAIN unmatched : k = Len(unmatched) /\ Pairs(p, unmatched[k])}
     IN \/ open # {} /\ Join(p, open)
        \/ open = {} /\ alone # {} /\ Pair(p, alone)
        \/ open = {} /\ alone = {} /\ unmatched' = Append(unmatched, p) /\ UNCHANGED sets
  /\ waiting' = Tail(waiting)
  /\ UNCHANGED <<windowOf, pass>>

Rescue ==
  /\ pass = "rescue" /\ waiting # <<>>
  /\ LET p == Head(waiting)
         open == {k \in DOMAIN sets : Fits(p, sets[k])}
         alone == {k \in DOMAIN unmatched : Pairs(p, unmatched[k])}
     IN \/ open # {} /\ Join(p, open)
        \/ open = {} /\ alone # {} /\ Pair(p, alone)
        \/ open = {} /\ alone = {} /\ unmatched' = Append(unmatched, p) /\ UNCHANGED sets
  /\ waiting' = Tail(waiting)
  /\ UNCHANGED <<windowOf, pass>>

\* The members of each set in the order of their seasons.
InSeason(ps) ==
  LET before(p, q) ==
        \/ windowOf[p].start < windowOf[q].start
        \/ windowOf[p].start = windowOf[q].start /\ Instance[p] < Instance[q]
  IN Sorted(ps, {pq \in ps \X ps : before(pq[1], pq[2])})

Finish ==
  /\ pass = "rescue" /\ waiting = <<>>
  /\ sets' = [k \in DOMAIN sets |-> [members |-> InSeason(Range(sets[k].members)),
                                     confidence |-> sets[k].confidence]]
  /\ pass' = "done"
  /\ UNCHANGED <<windowOf, waiting, unmatched>>

SeasonalInit ==
  /\ windowOf \in [Scanned -> Windows \cup {NoWindow}]
  /\ pass = "cluster" /\ sets = <<>> /\ waiting = <<>> /\ unmatched = <<>>

SeasonalNext == Cluster \/ Rescue \/ Finish

SeasonalSpec == SeasonalInit /\ [][SeasonalNext]_seasonalVars

-----------------------------------------------------------------------------
(* Properties.                                                             *)

Members(set) == Range(set.members)

\* After the first pass every prop with a season is in one set, waiting or alone, in
\* one place only, although members move between three lists; a set has two members
\* or more and no more than may be, all of one group, and if the first pass made it
\* alone, they tile the year.
EachInOnePlace ==
  pass # "cluster" =>
    /\ (UNION {Members(sets[k]) : k \in DOMAIN sets}) \cup Range(waiting) \cup Range(unmatched)
         = Candidates
    /\ IsInjective(waiting) /\ IsInjective(unmatched)
    /\ Range(waiting) \cap Range(unmatched) = {}
    /\ \A k \in DOMAIN sets :
         /\ IsInjective(sets[k].members)
         /\ Members(sets[k]) \cap (Range(waiting) \cup Range(unmatched)) = {}
         /\ \A l \in DOMAIN sets \ {k} : Members(sets[k]) \cap Members(sets[l]) = {}
         /\ Len(sets[k].members) \in 2 .. MaxSetMembers
         /\ \A p, q \in Members(sets[k]) : Group[p] = Group[q]
         /\ sets[k].confidence = 0 => WindowsLookSeasonal(Members(sets[k]))

\* The second pass, which never looks back, leaves nothing that would fit: of two
\* props that are alone no pair could be made, and none could join a set that has
\* room, whatever the order they came in.
NothingLeftThatFits ==
  pass = "rescue" /\ waiting = <<>> =>
    \A p \in Range(unmatched) :
      /\ \A q \in Range(unmatched) \ {p} : ~Pairs(p, q)
      /\ \A k \in DOMAIN sets : ~Fits(p, sets[k])
=============================================================================
