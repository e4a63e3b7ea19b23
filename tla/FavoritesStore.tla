--------------------------- MODULE FavoritesStore ---------------------------
(***************************************************************************)
(* What the user curates: stars, decal presets, prop families, seasonal    *)
(* sets and the recent paints.  FavoritesRepository keeps them in memory    *)
(* and writes the whole of favorites.cbor after every edit; the director    *)
(* loads it when the application starts; PropRepository keeps the stacks    *)
(* it derives from the seasonal sets.                                      *)
(*                                                                         *)
(* Members have no order and no weight; an edit that saves twice (create,  *)
(* then add) is one step with its last save.  A session starts with the    *)
(* props that the cache of that day holds, its catalogue.                  *)
(***************************************************************************)
EXTENDS Integers, FiniteSets, SequencesExt, Ordered

CONSTANTS
  Props,       \* props
  Others,      \* lots, props and flora that are starred
  Decals,      \* decals
  Names,       \* names the user or the program gives
  AutoSets,    \* detected seasonal sets: sequence of [name, members]
  GameFamilies,\* built-in families: their members
  Catalogues,  \* sets of props a session may find
  MaxRecents,  \* RecentPaintMaxItems
  NoFile, Broken, \* states of favorites.cbor
  Room,        \* bound on the number of things kept, see Fits
  MaxId        \* bound on family ids

Items == Others \cup Decals

\* What was painted: a prop, a family of the user's, a built-in family.
Sources ==
  ({"prop"} \X Props) \cup ({"family"} \X (1 .. MaxId)) \cup ({"builtin"} \X GameFamilies)

\* What the memory and the file hold.
Contents ==
  [stars : SUBSET Items,
   presets : [Decals -> Seq([name : Names, default : BOOLEAN])],
   families : Seq([name : Names, id : 1 .. MaxId, members : SUBSET Props]),
   sets : Seq([name : Names, members : SUBSET Props]),
   recents : Seq([source : Sources, type : Props, palette : SUBSET Props])]

ASSUME StoreAssumption ==
  /\ MaxRecents \in Nat \ {0} /\ {Room, MaxId} \subseteq Nat
  /\ IsFiniteSet(Props) /\ Catalogues \subseteq SUBSET Props
  /\ AutoSets \in Seq([name : Names, members : SUBSET Props])
  /\ GameFamilies \subseteq SUBSET Props
  /\ {NoFile, Broken} \cap Contents = {}

VARIABLES
  mem,       \* the repository and the director's recent paints
  active,    \* activeUserFamilyIndex_, counted from 1; 1 when there is none
  file,      \* favorites.cbor
  session,   \* the application runs
  catalogue, \* the props of this session
  stacks,    \* seasonalSets_: [members, custom]
  stackOf,   \* seasonalSetByMember_: prop to position in stacks
  intact,    \* the last read or write of the file did not fail
  orderly    \* the last session ended with a shutdown

view == <<stacks, stackOf>>
vars == <<mem, active, file, session, catalogue, view, intact, orderly>>

Empty == [stars |-> {}, presets |-> [d \in Decals |-> <<>>], families |-> <<>>,
          sets |-> <<>>, recents |-> <<>>]

-----------------------------------------------------------------------------
(* Helpers.                                                                *)

NamesIn(list) == {list[k].name : k \in DOMAIN list}

\* The name given to something new: the base, else the base with a number.
Fresh(list, base) == IF base \notin NamesIn(list) THEN {base} ELSE Names \ NamesIn(list)

\* One more than the largest id; the id of a family that is gone can return.
NextId(families) == Max({0} \cup {families[k].id : k \in DOMAIN families}) + 1

FaultyNormalized(presets) == presets   \* takes the list as it is

\* At most one default, and one as soon as there is a preset.
Normalized(presets) ==
  LET defaults == {k \in DOMAIN presets : presets[k].default}
      chosen == IF defaults = {} THEN 1 ELSE Min(defaults)
  IN [k \in DOMAIN presets |-> [name |-> presets[k].name, default |-> k = chosen]]

Clamp(list, index) == IF list = <<>> THEN 1 ELSE Min({index, Len(list)})

Trimmed(recents) == SubSeq(recents, 1, Min({Len(recents), MaxRecents}))

\* Push: the newest first, one entry for each source.
Pushed(recents, entry) ==
  Trimmed(<<entry>> \o Picked(recents, {k \in DOMAIN recents : recents[k].source # entry.source}))

\* Whether an entry can still be painted, and what is left of it then.
Able(e, c) == IF e.palette = {} THEN e.type \in c ELSE e.palette \cap c # {}

Reduced(e, c) ==
  [source |-> e.source, palette |-> e.palette \cap c,
   type |-> IF e.type \in c \/ ~Able(e, c) THEN e.type
            ELSE CHOOSE p \in e.palette \cap c : TRUE]

Validated(recents, c) ==
  Picked([k \in DOMAIN recents |-> Reduced(recents[k], c)],
         {k \in DOMAIN recents : Able(recents[k], c)})

\* The detected sets of a cache: those whose props it holds.
Detected(c) == {k \in DOMAIN AutoSets : AutoSets[k].members \subseteq c}

\* The custom sets that make a stack: of two members or more.
Works(sets) == {k \in DOMAIN sets : Cardinality(sets[k].members) >= 2}

Stack(list, isCustom) ==
  [k \in DOMAIN list |->
     [name |-> list[k].name, members |-> list[k].members, custom |-> isCustom]]

\* The custom ones, then the detected sets they leave alone.
Rebuilt(sets, c) ==
  LET claimed == UNION {sets[k].members : k \in Works(sets)}
      alone == {k \in Detected(c) : AutoSets[k].members \cap claimed = {}}
  IN Stack(Picked(sets, Works(sets)), TRUE) \o Stack(Picked(AutoSets, alone), FALSE)

\* The first stack of each prop that has one.
Lookup(list) ==
  [p \in UNION {list[k].members : k \in DOMAIN list} |->
     Min({k \in DOMAIN list : p \in list[k].members})]

Shown(sets, c) == stacks' = Rebuilt(sets, c) /\ stackOf' = Lookup(stacks')

Size(m) ==
  Cardinality(m.stars) + Len(m.recents) + Len(m.sets)
  + FoldLeft(LAMBDA n, f : n + 1 + Cardinality(f.members), 0, m.families)
  + FoldLeft(LAMBDA n, d : n + Len(m.presets[d]), 0, SetToSeq(Decals))

\* Sets are kept with one thing more at most; their members count for
\* nothing, so that they may overlap in any way.
Fits(m) == Size(m) <= IF m.sets = <<>> THEN Room ELSE 2

-----------------------------------------------------------------------------
(* Reading and writing the file.                                           *)

\* Save.  A write can fail without a trace or leave half a file; two failures
\* in a row are not explored.
Save ==
  \/ file' = mem' /\ intact' = TRUE
  \/ intact /\ intact' = FALSE /\ file' \in {file, Broken}

\* An edit: the memory, then Save.
Edit(new) ==
  /\ session /\ Fits(new)
  /\ mem' = new /\ Save
  /\ UNCHANGED <<session, catalogue, orderly>>

\* The memory with one of its lists replaced.
WithStars(stars, presets) ==
  [stars |-> stars, presets |-> presets, families |-> mem.families, sets |-> mem.sets,
   recents |-> mem.recents]
WithFamilies(families) ==
  [stars |-> mem.stars, presets |-> mem.presets, families |-> families, sets |-> mem.sets,
   recents |-> mem.recents]
WithSets(sets) ==
  [stars |-> mem.stars, presets |-> mem.presets, families |-> mem.families, sets |-> sets,
   recents |-> mem.recents]
WithRecents(recents) ==
  [stars |-> mem.stars, presets |-> mem.presets, families |-> mem.families, sets |-> mem.sets,
   recents |-> recents]

Unshown == UNCHANGED view
ApplySets == Shown(mem'.sets, catalogue)

-----------------------------------------------------------------------------
(* Stars and decal presets.                                                *)

ToggleStar(i) ==
  /\ Edit(IF i \in mem.stars
          THEN WithStars(mem.stars \ {i},
                 [d \in Decals |-> IF d = i THEN <<>> ELSE mem.presets[d]])
          ELSE WithStars(mem.stars \cup {i}, mem.presets))
  /\ UNCHANGED active /\ Unshown

\* The list with a preset of that name, the default one if asked or the first.
Upserted(presets, n, makeDefault) ==
  LET known == n \in NamesIn(presets)
      default == makeDefault \/ presets = <<>>
      others == [k \in DOMAIN presets |->
                   [name |-> presets[k].name,
                    default |-> IF default THEN presets[k].name = n ELSE presets[k].default]]
  IN IF known THEN others ELSE Append(others, [name |-> n, default |-> default])

UpsertPreset(d, n, makeDefault) ==
  /\ Edit(WithStars(mem.stars \cup {d},
       [mem.presets EXCEPT ![d] = Normalized(Upserted(@, n, makeDefault))]))
  /\ UNCHANGED active /\ Unshown

DeletePreset(d, n) ==
  /\ n \in NamesIn(mem.presets[d])
  /\ Edit(WithStars(mem.stars,
       [mem.presets EXCEPT ![d] = Normalized(Picked(@, {k \in DOMAIN @ : @[k].name # n}))]))
  /\ UNCHANGED active /\ Unshown

-----------------------------------------------------------------------------
(* Families.                                                               *)

Family(n, members) == [name |-> n, id |-> NextId(mem.families), members |-> members]

\* The families with another name, with other members for one of them.
RenamedFamily(k, n) ==
  [mem.families EXCEPT ![k] = [name |-> n, id |-> @.id, members |-> @.members]]
FamilyHolding(k, members) ==
  [mem.families EXCEPT ![k] = [name |-> @.name, id |-> @.id, members |-> members]]

CreateFamily(n) ==
  /\ n \notin NamesIn(mem.families) /\ NextId(mem.families) <= MaxId
  /\ Edit(WithFamilies(Append(mem.families, Family(n, {}))))
  /\ active' = Len(mem'.families) /\ Unshown

\* Create with a fresh name and add: one prop, which may be missing from the
\* cache, or what the cache has of a built-in family.
CreateFamilyWith(base, members) ==
  /\ NextId(mem.families) <= MaxId
  /\ \E n \in Fresh(mem.families, base) :
       Edit(WithFamilies(Append(mem.families, Family(n, members))))
  /\ active' = Len(mem'.families) /\ Unshown

DeleteFamily(k) ==
  /\ Edit(WithFamilies(RemoveAt(mem.families, k)))
  /\ active' = Clamp(mem'.families, active) /\ Unshown

RenameFamily(k, n) ==
  /\ n \notin NamesIn(RemoveAt(mem.families, k))
  /\ Edit(WithFamilies(RenamedFamily(k, n)))
  /\ UNCHANGED active /\ Unshown

AddToFamily(p, k) ==
  /\ p \in catalogue \ mem.families[k].members
  /\ Edit(WithFamilies(FamilyHolding(k, mem.families[k].members \cup {p})))
  /\ active' = k /\ Unshown

FaultyRemoveFromFamily(p, k) ==   \* the panel forgets to save
  /\ session /\ p \in mem.families[k].members
  /\ mem' = WithFamilies(FamilyHolding(k, mem.families[k].members \ {p}))
  /\ UNCHANGED <<active, file, session, catalogue, view, intact, orderly>>

\* The panel's "x": it erases the entry itself and saves.
RemoveFromFamily(p, k) ==
  /\ p \in mem.families[k].members
  /\ Edit(WithFamilies(FamilyHolding(k, mem.families[k].members \ {p})))
  /\ UNCHANGED active /\ Unshown

-----------------------------------------------------------------------------
(* Seasonal sets: each edit is followed by ApplyUserSeasonalSets.          *)

RenamedSet(k, n) == [mem.sets EXCEPT ![k] = [name |-> n, members |-> @.members]]
SetHolding(k, members) == [mem.sets EXCEPT ![k] = [name |-> @.name, members |-> members]]

CreateSet(n) ==
  /\ n \notin NamesIn(mem.sets)
  /\ Edit(WithSets(Append(mem.sets, [name |-> n, members |-> {}])))
  /\ UNCHANGED active /\ ApplySets

FaultyDeleteSet(k) ==        \* the stacks are not rebuilt
  /\ Edit(WithSets(RemoveAt(mem.sets, k)))
  /\ UNCHANGED active /\ Unshown

DeleteSet(k) ==
  /\ Edit(WithSets(RemoveAt(mem.sets, k)))
  /\ UNCHANGED active /\ ApplySets

RenameSet(k, n) ==
  /\ n \notin NamesIn(RemoveAt(mem.sets, k))
  /\ Edit(WithSets(RenamedSet(k, n)))
  /\ UNCHANGED active /\ ApplySets

AddToSet(p, k) ==
  /\ p \in catalogue \ mem.sets[k].members
  /\ Edit(WithSets(SetHolding(k, mem.sets[k].members \cup {p})))
  /\ UNCHANGED active /\ ApplySets

RemoveFromSet(p, k) ==
  /\ p \in mem.sets[k].members
  /\ Edit(WithSets(SetHolding(k, mem.sets[k].members \ {p})))
  /\ UNCHANGED active /\ ApplySets

CreateSetWith(base, members) ==
  /\ \E n \in Fresh(mem.sets, base) :
       Edit(WithSets(Append(mem.sets, [name |-> n, members |-> members])))
  /\ UNCHANGED active /\ ApplySets

NewSetFromProp(p, base) == p \in catalogue /\ CreateSetWith(base, {p})

\* A detected set becomes a custom one.
ConvertSet(p) ==
  /\ p \in catalogue /\ p \in DOMAIN stackOf
  /\ LET s == stacks[stackOf[p]] IN ~s.custom /\ CreateSetWith(s.name, s.members)

-----------------------------------------------------------------------------
(* Recent paints.                                                          *)

\* A painter was started: remembered, not yet saved.
Remember(entry) ==
  LET new == WithRecents(Pushed(mem.recents, entry))
  IN /\ session /\ Fits(new) /\ mem' = new
     /\ UNCHANGED <<active, file, session, catalogue, view, intact, orderly>>

PaintProp(p) ==
  /\ p \in catalogue
  /\ Remember([source |-> <<"prop", p>>, type |-> p, palette |-> {}])

\* A family that is not empty, with its first member as the type.
PaintPalette(source, members) ==
  \E p \in members : Remember([source |-> source, type |-> p, palette |-> members])

PaintFamily(k) ==
  PaintPalette(<<"family", mem.families[k].id>>, mem.families[k].members)

PaintGameFamily(f) == PaintPalette(<<"builtin", f>>, f \cap catalogue)

\* ActivateRecentPaint: not for the newest one.
PaintRecent(k) == k > 1 /\ Remember(mem.recents[k])

\* The weight slider, or the recent paints when a city is left: only a save.
SaveAgain == Edit(mem) /\ UNCHANGED active /\ Unshown

-----------------------------------------------------------------------------
(* Sessions.                                                               *)

\* The application ends; the recent paints are saved with the rest.
Shutdown ==
  /\ session /\ session' = FALSE /\ orderly' = TRUE
  /\ UNCHANGED mem /\ Save
  /\ UNCHANGED <<active, catalogue, view>>

Crash ==
  /\ session /\ session' = FALSE /\ orderly' = FALSE
  /\ UNCHANGED <<mem, active, file, catalogue, view, intact>>

\* What Load keeps of a file when the cache holds c.
Loaded(content, c) ==
  [stars |-> content.stars,
   presets |-> [d \in Decals |-> Normalized(content.presets[d])],
   families |-> [k \in DOMAIN content.families |->
                   [name |-> content.families[k].name, id |-> content.families[k].id,
                    members |-> content.families[k].members \cap c]],
   sets |-> [k \in DOMAIN content.sets |->
               [name |-> content.sets[k].name, members |-> content.sets[k].members \cap c]],
   recents |-> Validated(Trimmed(content.recents), c)]

\* PostAppInit: Load, ApplyUserSeasonalSets, the recent paints.  A file that
\* cannot be read leaves everything empty.
Start(c) ==
  /\ ~session /\ session' = TRUE /\ catalogue' = c /\ active' = 1
  /\ \/ file \notin {NoFile, Broken} /\ mem' = Loaded(file, c) /\ intact' = TRUE
     \/ mem' = Empty /\ intact' = (file = NoFile)
  /\ Shown(mem'.sets, c)
  /\ UNCHANGED <<file, orderly>>

Init ==
  /\ mem = Empty /\ active = 1 /\ file = NoFile
  /\ session = FALSE /\ catalogue = {} /\ stacks = <<>> /\ stackOf = <<>>
  /\ intact = TRUE /\ orderly = TRUE

StarsNext ==
  \/ \E i \in Items : ToggleStar(i)
  \/ \E d \in Decals, n \in Names :
       \/ \E makeDefault \in BOOLEAN : UpsertPreset(d, n, makeDefault)
       \/ DeletePreset(d, n)

FamiliesNext ==
  \/ \E n \in Names :
       \/ CreateFamily(n)
       \/ \E p \in Props : CreateFamilyWith(n, {p} \cap catalogue)
       \/ \E f \in GameFamilies : f \cap catalogue # {} /\ CreateFamilyWith(n, f \cap catalogue)
  \/ \E k \in DOMAIN mem.families :
       \/ DeleteFamily(k)
       \/ \E n \in Names : RenameFamily(k, n)
       \/ \E p \in Props : AddToFamily(p, k) \/ RemoveFromFamily(p, k)
       \/ PaintFamily(k)

SetsNext ==
  \/ \E n \in Names : CreateSet(n) \/ (\E p \in Props : NewSetFromProp(p, n))
  \/ \E k \in DOMAIN mem.sets :
       \/ DeleteSet(k)
       \/ \E n \in Names : RenameSet(k, n)
       \/ \E p \in Props : AddToSet(p, k) \/ RemoveFromSet(p, k)
  \/ \E p \in Props : ConvertSet(p)

Next ==
  \/ StarsNext \/ FamiliesNext \/ SetsNext
  \/ \E p \in Props : PaintProp(p)
  \/ \E f \in GameFamilies : PaintGameFamily(f)
  \/ \E k \in DOMAIN mem.recents : PaintRecent(k)
  \/ SaveAgain \/ Shutdown \/ Crash
  \/ \E c \in Catalogues : Start(c)

Spec == Init /\ [][Next]_vars

-----------------------------------------------------------------------------
(* What the store promises.                                                *)

\* Every variable has its type.
TypeOK ==
  /\ mem \in Contents /\ file \in {NoFile, Broken} \cup Contents
  /\ active \in Nat \ {0}
  /\ {session, intact, orderly} \subseteq BOOLEAN /\ catalogue \subseteq Props
  /\ stackOf \in [DOMAIN stackOf -> DOMAIN stacks]

NamedApart(list) == \A j, k \in DOMAIN list : list[j].name = list[k].name => j = k

\* Every variable has its type, and in a session the names of families and sets
\* and the ids of families are unique, a decal with presets is starred and one
\* of them is its default, each source has been painted recently once at most
\* and can be painted again, and the active index is one of a family.
CuratedSound ==
  /\ TypeOK
  /\ session =>
       /\ NamedApart(mem.families) /\ NamedApart(mem.sets)
       /\ \A j, k \in DOMAIN mem.families : mem.families[j].id = mem.families[k].id => j = k
       /\ \A d \in Decals : mem.presets[d] # <<>> =>
            /\ d \in mem.stars /\ NamedApart(mem.presets[d])
            /\ Cardinality({k \in DOMAIN mem.presets[d] : mem.presets[d][k].default}) = 1
       /\ Len(mem.recents) <= MaxRecents
       /\ \A j, k \in DOMAIN mem.recents : mem.recents[j].source = mem.recents[k].source => j = k
       /\ \A k \in DOMAIN mem.recents :
            mem.recents[k].type \in catalogue /\ mem.recents[k].palette \subseteq catalogue
       /\ mem.families # <<>> => active \in DOMAIN mem.families

\* The stack that is painted or stripped with a prop is the first custom set
\* of two members or more that has it, else the detected set that has it and
\* shares nothing with such a set, else none: after every edit, and from the
\* start of the session.
StacksFollowSets ==
  session =>
    \A p \in Props :
      LET works == {k \in DOMAIN mem.sets : Cardinality(mem.sets[k].members) > 1}
          mine == {k \in works : p \in mem.sets[k].members}
          free == {k \in DOMAIN AutoSets :
                     /\ p \in AutoSets[k].members /\ AutoSets[k].members \subseteq catalogue
                     /\ \A j \in works : mem.sets[j].members \cap AutoSets[k].members = {}}
      IN IF mine = {} /\ free = {} THEN p \notin DOMAIN stackOf
         ELSE /\ p \in DOMAIN stackOf
              /\ stacks[stackOf[p]].custom = (mine # {})
              /\ stacks[stackOf[p]].members =
                   IF mine # {} THEN mem.sets[Min(mine)].members
                                ELSE AutoSets[Min(free)].members

\* Two lists of families or sets that differ at most in props that one of
\* the two sessions misses.
SameUpToMissing(old, new, before, after) ==
  /\ DOMAIN old = DOMAIN new
  /\ \A k \in DOMAIN old :
       /\ old[k].name = new[k].name
       /\ old[k].members \cap after \subseteq new[k].members
       /\ new[k].members \subseteq (old[k].members \cap after) \cup (after \ before)

\* Unless the file fails, a new session has every star, preset, family and
\* set that the last one had when it ended, even if it crashed, and the
\* recent paints that can still be painted if it did not.
SurvivesRestart ==
  [][(~session /\ session' /\ intact /\ intact') =>
       /\ mem'.stars = mem.stars /\ mem'.presets = mem.presets
       /\ SameUpToMissing(mem.families, mem'.families, catalogue, catalogue')
       /\ SameUpToMissing(mem.sets, mem'.sets, catalogue, catalogue')
       /\ orderly =>
            [k \in DOMAIN mem'.recents |-> mem'.recents[k].source] =
            LET able == {k \in DOMAIN mem.recents : Able(mem.recents[k], catalogue')}
            IN [j \in DOMAIN Picked(mem.recents, able) |-> Picked(mem.recents, able)[j].source]]_vars
=============================================================================
