-------------------------- MODULE FavoritesProofs --------------------------
(***************************************************************************)
(* What the user curates stays sound and is found again, for any props,     *)
(* names, catalogues, detected sets and limits.  The lists of the           *)
(* repository are taken one by one (what an edit leaves of names, ids and   *)
(* members), then presets and recent paints, then what Load makes of a file *)
(* and what the stacks are; StoreInv says how memory, file and stacks       *)
(* belong together, and each step keeps it.                                 *)
(***************************************************************************)
EXTENDS FavoritesStore, OrderedProofs, FiniteSetTheorems, TLAPS

-----------------------------------------------------------------------------
(* The inductive invariant.                                                *)

Preset == [name : Names, default : BOOLEAN]
FamilyType == [name : Names, id : 1 .. MaxId, members : SUBSET Props]
SetType == [name : Names, members : SUBSET Props]
Entry == [source : Sources, type : Props, palette : SUBSET Props]

\* Names once, and exactly one default as soon as there is a preset.
PresetsSound(list) ==
  /\ list \in Seq(Preset) /\ NamedApart(list)
  /\ list # <<>> => \E c \in DOMAIN list : \A k \in DOMAIN list : list[k].default = (k = c)

StarsSound(stars, presets) ==
  /\ stars \in SUBSET Items
  /\ presets \in [Decals -> Seq(Preset)]
  /\ \A d \in Decals : PresetsSound(presets[d]) /\ (presets[d] # <<>> => d \in stars)

FamiliesSound(list) ==
  /\ list \in Seq(FamilyType)
  /\ NamedApart(list)
  /\ \A j, k \in DOMAIN list : list[j].id = list[k].id => j = k

SetsSound(list) == list \in Seq(SetType) /\ NamedApart(list)

RecentsSound(list) ==
  /\ list \in Seq(Entry) /\ Len(list) <= MaxRecents
  /\ \A j, k \in DOMAIN list : list[j].source = list[k].source => j = k

Sound(m) ==
  /\ m \in Contents
  /\ StarsSound(m.stars, m.presets) /\ FamiliesSound(m.families)
  /\ SetsSound(m.sets) /\ RecentsSound(m.recents)

\* Nothing refers to a prop that the catalogue misses.
Holds(list, c) == \A k \in DOMAIN list : list[k].members \subseteq c
Paintable(list, c) == \A k \in DOMAIN list : list[k].type \in c /\ list[k].palette \subseteq c
Within(m, c) == Holds(m.families, c) /\ Holds(m.sets, c) /\ Paintable(m.recents, c)

-----------------------------------------------------------------------------
(* The fields of the memory.                                               *)

LEMMA FieldsSound ==
  ASSUME NEW m, Sound(m), NEW n
  PROVE  /\ \A x, y : /\ n = [stars |-> x, presets |-> y, families |-> m.families,
                             sets |-> m.sets, recents |-> m.recents]
                       /\ StarsSound(x, y) => Sound(n)
         /\ \A x : /\ n = [stars |-> m.stars, presets |-> m.presets, families |-> x,
                             sets |-> m.sets, recents |-> m.recents]
                       /\ FamiliesSound(x) => Sound(n)
         /\ \A x : /\ n = [stars |-> m.stars, presets |-> m.presets,
                             families |-> m.families, sets |-> x, recents |-> m.recents]
                       /\ SetsSound(x) => Sound(n)
         /\ \A x : /\ n = [stars |-> m.stars, presets |-> m.presets,
                             families |-> m.families, sets |-> m.sets, recents |-> x]
                       /\ RecentsSound(x) => Sound(n)
<1>1. /\ StarsSound(m.stars, m.presets) /\ FamiliesSound(m.families)
      /\ SetsSound(m.sets) /\ RecentsSound(m.recents)
  BY DEF Sound
<1>2. ASSUME NEW a, NEW b, NEW c, NEW d, NEW e,
             StarsSound(a, b), FamiliesSound(c), SetsSound(d), RecentsSound(e),
             n = [stars |-> a, presets |-> b, families |-> c, sets |-> d, recents |-> e]
      PROVE  Sound(n)
  <2>1. n \in Contents
    BY <1>2 DEF Contents, StarsSound, FamiliesSound, SetsSound, RecentsSound,
                Preset, FamilyType, SetType, Entry
  <2>2. n.stars = a /\ n.presets = b /\ n.families = c /\ n.sets = d /\ n.recents = e
    BY <1>2
  <2> QED
    BY <1>2, <2>1, <2>2 DEF Sound
<1> QED
  BY <1>1, <1>2

-----------------------------------------------------------------------------
(* The lists.  An edit takes what is at one position to another one.       *)

\* What a list gives to another one, at positions that stay different, keeps
\* its names, ids and sources apart.
LEMMA TakenApart ==
  ASSUME NEW list, NEW new, NEW at \in [DOMAIN new -> DOMAIN list],
         \A j, k \in DOMAIN new : at[j] = at[k] => j = k,
         \A k \in DOMAIN new : new[k] = list[at[k]]
  PROVE  /\ NamedApart(list) => NamedApart(new)
         /\ (\A j, k \in DOMAIN list : list[j].id = list[k].id => j = k) =>
              (\A j, k \in DOMAIN new : new[j].id = new[k].id => j = k)
         /\ (\A j, k \in DOMAIN list : list[j].source = list[k].source => j = k) =>
              (\A j, k \in DOMAIN new : new[j].source = new[k].source => j = k)
BY DEF NamedApart

\* Where the elements of a list of length n are when the k-th is gone.
Around(k, n) == [i \in 1 .. n - 1 |-> IF i < k THEN i ELSE i + 1]

LEMMA RemovedAt ==
  ASSUME NEW A, NEW list \in Seq(A), NEW k \in DOMAIN list, NEW new, new = RemoveAt(list, k),
         NEW at, at = Around(k, Len(list))
  PROVE  /\ new \in Seq(A) /\ DOMAIN new = 1 .. Len(list) - 1 /\ Len(list) \in Nat
         /\ at \in [DOMAIN new -> DOMAIN list]
         /\ \A i, j \in DOMAIN new : at[i] = at[j] => i = j
         /\ \A i \in DOMAIN new : new[i] = list[at[i]]
         /\ \A i \in DOMAIN list \ {k} : \E j \in DOMAIN new : at[j] = i
<1> DEFINE n == Len(list)
<1>1. n \in Nat /\ DOMAIN list = 1 .. n /\ k \in 1 .. n
  BY LenProperties
<1>2. /\ new \in Seq(A) /\ DOMAIN new = 1 .. n - 1
      /\ \A j \in 1 .. n - 1 : new[j] = IF j < k THEN list[j] ELSE list[j + 1]
  BY <1>1, RemoveAtOK
<1>0. at = [i \in 1 .. n - 1 |-> IF i < k THEN i ELSE i + 1]
  BY DEF Around
<1> HIDE DEF n
<1>3. /\ at \in [1 .. n - 1 -> 1 .. n] /\ \A i, j \in 1 .. n - 1 : at[i] = at[j] => i = j
      /\ \A i \in 1 .. n - 1 : at[i] = IF i < k THEN i ELSE i + 1
  BY <1>0, <1>1
<1>4. \A i \in 1 .. n \ {k} : \E j \in 1 .. n - 1 : at[j] = i
  <2>1. TAKE i \in 1 .. n \ {k}
  <2>2. CASE i < k
    <3>1. i \in 1 .. n - 1 /\ at[i] = i
      BY <1>1, <1>3, <2>2
    <3> QED
      BY <3>1
  <2>3. CASE i > k
    <3>1. i - 1 \in 1 .. n - 1 /\ at[i - 1] = i
      BY <1>1, <1>3, <2>3
    <3> QED
      BY <3>1
  <2> QED
    BY <1>1, <2>2, <2>3
<1>5. \A i \in 1 .. n - 1 : new[i] = list[at[i]]
  BY <1>1, <1>2, <1>3
<1> QED
  BY <1>1, <1>2, <1>3, <1>4, <1>5 DEF n

LEMMA PickedFrom ==
  ASSUME NEW A, NEW list \in Seq(A), NEW I \in SUBSET DOMAIN list, NEW new, new = Picked(list, I),
         NEW at, at = Ascending(I)
  PROVE  /\ new \in Seq(A) /\ Len(new) <= Len(list) /\ Len(new) \in Nat /\ DOMAIN new = 1 .. Len(new)
         /\ at \in [DOMAIN new -> DOMAIN list]
         /\ \A i, j \in DOMAIN new : at[i] = at[j] => i = j
         /\ \A i \in DOMAIN new : at[i] \in I /\ new[i] = list[at[i]]
         /\ \A i \in I : \E j \in DOMAIN new : at[j] = i
         /\ \A i, j \in DOMAIN new : i < j <=> at[i] < at[j]
<1> DEFINE n == Cardinality(I)
<1>1. /\ n \in Nat /\ n <= Len(list) /\ new \in Seq(A) /\ Len(new) = n /\ DOMAIN new = 1 .. n
      /\ at \in [1 .. n -> I] /\ \A k \in 1 .. n : new[k] = list[at[k]]
      /\ \A i \in I : \E k \in 1 .. n : at[k] = i
      /\ \A j, k \in 1 .. n : j < k <=> at[j] < at[k]
  BY PickedOK
<1>2. DOMAIN list = 1 .. Len(list) /\ Len(list) \in Nat
  BY LenProperties
<1> HIDE DEF n
<1>3. at \in [DOMAIN new -> DOMAIN list]
  BY <1>1, <1>2
<1>4. \A i, j \in DOMAIN new : at[i] = at[j] => i = j
  BY <1>1, <1>2
<1> QED
  BY <1>1, <1>3, <1>4

\* What the repository holds under an index.
LEMMA At ==
  ASSUME NEW A, NEW list \in Seq(A)
  PROVE  /\ DOMAIN list = 1 .. Len(list) /\ Len(list) \in Nat
         /\ \A k \in DOMAIN list : list[k] \in A
BY LenProperties, ElementOfSeq

LEMMA Appended ==
  ASSUME NEW A, NEW list \in Seq(A), NEW x \in A
  PROVE  /\ Append(list, x) \in Seq(A) /\ Len(Append(list, x)) = Len(list) + 1
         /\ DOMAIN Append(list, x) = 1 .. Len(list) + 1
         /\ \A k \in DOMAIN list : k \in DOMAIN Append(list, x) /\ Append(list, x)[k] = list[k]
         /\ \A k \in DOMAIN Append(list, x) : k \in DOMAIN list \/ Append(list, x)[k] = x
BY AppendProperties, LenProperties

LEMMA Replaced ==
  ASSUME NEW A, NEW list \in Seq(A), NEW i \in DOMAIN list, NEW x \in A
  PROVE  /\ [list EXCEPT ![i] = x] \in Seq(A)
         /\ DOMAIN [list EXCEPT ![i] = x] = DOMAIN list
         /\ \A k \in DOMAIN list : [list EXCEPT ![i] = x][k] = IF k = i THEN x ELSE list[k]
BY ExceptSeq, LenProperties

\* A family gets an id that no other has.
LEMMA NextIdIsNew ==
  ASSUME StoreAssumption, NEW list \in Seq(FamilyType)
  PROVE  /\ NextId(list) \in Nat \ {0}
         /\ \A k \in DOMAIN list : list[k].id < NextId(list)
<1> DEFINE ids == {0} \cup {list[k].id : k \in DOMAIN list}
<1>1. \A k \in DOMAIN list : list[k].id \in 1 .. MaxId
  <2>1. \A k \in DOMAIN list : list[k] \in FamilyType
    BY At
  <2> QED
    BY <2>1 DEF FamilyType
<1>2. MaxId \in Nat
  BY DEF StoreAssumption
<1>3. ids \in SUBSET (0 .. MaxId) /\ ids # {} /\ \A k \in DOMAIN list : list[k].id \in ids
  BY <1>1, <1>2
<1>4. NextId(list) = Max(ids) + 1
  BY DEF NextId
<1> HIDE DEF ids
<1>5. IsFiniteSet(ids) /\ ids \in SUBSET Int /\ ids \in SUBSET Nat
  <2>1. 0 \in Int /\ MaxId \in Int
    BY <1>2
  <2>2. IsFiniteSet(0 .. MaxId)
    BY <2>1, FS_Interval
  <2>3. IsFiniteSet(ids)
    BY <1>3, <2>2, FS_Subset
  <2> QED
    BY <1>2, <1>3, <2>3
<1>6. \E b \in ids : \A x \in ids : x <= b
  BY <1>3, <1>5, LeastAndGreatest
<1>7. Max(ids) \in ids /\ \A x \in ids : x <= Max(ids)
  <2>1. \E b \in ids : \A x \in ids : b >= x
    BY <1>5, <1>6
  <2>2. Max(ids) \in ids /\ \A x \in ids : Max(ids) >= x
    BY <2>1 DEF Max
  <2> QED
    BY <1>5, <2>2
<1> QED
  <2>1. Max(ids) \in Nat /\ \A k \in DOMAIN list : list[k].id <= Max(ids) /\ list[k].id \in Nat
    BY <1>3, <1>5, <1>7
  <2> QED
    BY <1>4, <2>1

-----------------------------------------------------------------------------
(* Families.                                                               *)

LEMMA FamilyAppended ==
  ASSUME StoreAssumption, FamiliesSound(mem.families),
         NEW n \in Names, n \notin NamesIn(mem.families), NextId(mem.families) <= MaxId,
         NEW c \in SUBSET Props, NEW members \in SUBSET c, Holds(mem.families, c)
  PROVE  /\ FamiliesSound(Append(mem.families, Family(n, members)))
         /\ Holds(Append(mem.families, Family(n, members)), c)
         /\ Len(Append(mem.families, Family(n, members)))
              \in DOMAIN Append(mem.families, Family(n, members))
<1> DEFINE list == mem.families
           f == Family(n, members)
           new == Append(list, f)
<1>1. /\ list \in Seq(FamilyType) /\ NamedApart(list) /\ Holds(list, c)
      /\ \A j, k \in DOMAIN list : list[j].id = list[k].id => j = k
  BY DEF FamiliesSound
<1>2. DOMAIN list = 1 .. Len(list) /\ Len(list) \in Nat /\ \A k \in DOMAIN list : list[k] \in FamilyType
  BY <1>1, At
<1>3. NextId(list) \in Nat \ {0} /\ \A k \in DOMAIN list : list[k].id < NextId(list)
  BY <1>1, NextIdIsNew
<1>4. f.name = n /\ f.id = NextId(list) /\ f.members = members
  BY DEF Family
<1>5. MaxId \in Nat
  BY DEF StoreAssumption
<1>6. f \in FamilyType
  BY <1>3, <1>5 DEF Family, FamilyType
<1>7. \A k \in DOMAIN list : list[k].name # n
  BY DEF NamesIn
<1> HIDE DEF list, f
<1>8. /\ new \in Seq(FamilyType) /\ DOMAIN new = 1 .. Len(list) + 1 /\ Len(new) = Len(list) + 1
      /\ \A k \in DOMAIN list : k \in DOMAIN new /\ new[k] = list[k]
      /\ \A k \in DOMAIN new : k \in DOMAIN list \/ new[k] = f
  BY <1>1, <1>6, Appended
<1>9. \A k \in DOMAIN new : k \in DOMAIN list \/ k = Len(list) + 1
  BY <1>2, <1>8
<1>10. \A k \in DOMAIN list : list[k].id \in 1 .. MaxId
  BY <1>2 DEF FamilyType
<1> HIDE DEF new
<1>11. NamedApart(new)
  BY <1>1, <1>4, <1>7, <1>8, <1>9 DEF NamedApart
<1>12. \A j, k \in DOMAIN new : new[j].id = new[k].id => j = k
  BY <1>1, <1>3, <1>4, <1>8, <1>9, <1>10
<1>13. Holds(new, c)
  BY <1>1, <1>4, <1>8 DEF Holds
<1>14. FamiliesSound(new) /\ Len(new) \in DOMAIN new
  BY <1>2, <1>8, <1>11, <1>12 DEF FamiliesSound
<1> QED
  BY <1>13, <1>14 DEF new, list, f

LEMMA FamilyRemoved ==
  ASSUME NEW list, FamiliesSound(list), NEW k \in DOMAIN list, NEW c, Holds(list, c)
  PROVE  FamiliesSound(RemoveAt(list, k)) /\ Holds(RemoveAt(list, k), c)
<1> DEFINE new == RemoveAt(list, k)
           at == Around(k, Len(list))
<1>1. list \in Seq(FamilyType)
  BY DEF FamiliesSound
<1>2. /\ new \in Seq(FamilyType) /\ at \in [DOMAIN new -> DOMAIN list]
      /\ \A i, j \in DOMAIN new : at[i] = at[j] => i = j
      /\ \A i \in DOMAIN new : new[i] = list[at[i]]
  BY <1>1, RemovedAt
<1> HIDE DEF new, at
<1>4. NamedApart(new) /\ \A i, j \in DOMAIN new : new[i].id = new[j].id => i = j
  BY <1>2, TakenApart DEF FamiliesSound
<1>5. FamiliesSound(new)
  BY <1>2, <1>4 DEF FamiliesSound
<1>6. Holds(new, c)
  BY <1>2 DEF Holds
<1> QED
  BY <1>5, <1>6 DEF new

LEMMA FamilyRenamed ==
  ASSUME FamiliesSound(mem.families), NEW k \in DOMAIN mem.families, NEW n \in Names,
         n \notin NamesIn(RemoveAt(mem.families, k)), NEW c, Holds(mem.families, c)
  PROVE  FamiliesSound(RenamedFamily(k, n)) /\ Holds(RenamedFamily(k, n), c)
         /\ DOMAIN RenamedFamily(k, n) = DOMAIN mem.families
<1> DEFINE list == mem.families
           f == [name |-> n, id |-> list[k].id, members |-> list[k].members]
           new == [list EXCEPT ![k] = f]
<1>1. /\ list \in Seq(FamilyType) /\ NamedApart(list) /\ Holds(list, c)
      /\ \A i, j \in DOMAIN list : list[i].id = list[j].id => i = j
  BY DEF FamiliesSound
<1>2. f \in FamilyType /\ f.name = n /\ f.id = list[k].id /\ f.members = list[k].members
  BY <1>1, At DEF FamilyType
<1>3. new = RenamedFamily(k, n)
  BY DEF RenamedFamily
<1>4. \A i \in DOMAIN list \ {k} : list[i].name # n
  <2>1. k \in DOMAIN list
    OBVIOUS
  <2> DEFINE rest == RemoveAt(list, k)
             at == Around(k, Len(list))
  <2>2. /\ \A i \in DOMAIN rest : rest[i] = list[at[i]]
        /\ \A i \in DOMAIN list \ {k} : \E j \in DOMAIN rest : at[j] = i
    BY <1>1, <2>1, RemovedAt
  <2> QED
    BY <2>2 DEF NamesIn
<1>5. k \in DOMAIN list
  OBVIOUS
<1> HIDE DEF list, f
<1>6. /\ new \in Seq(FamilyType) /\ DOMAIN new = DOMAIN list
      /\ \A i \in DOMAIN list : new[i] = IF i = k THEN f ELSE list[i]
  BY <1>1, <1>2, <1>5, Replaced
<1> HIDE DEF new
<1>7. NamedApart(new)
  BY <1>1, <1>2, <1>4, <1>6 DEF NamedApart
<1>8. \A i \in DOMAIN new : new[i].id = list[i].id /\ new[i].members = list[i].members
  BY <1>2, <1>6
<1>9. FamiliesSound(new) /\ Holds(new, c)
  BY <1>1, <1>6, <1>7, <1>8 DEF FamiliesSound, Holds
<1> QED
  BY <1>3, <1>6, <1>9 DEF list

LEMMA FamilyFilled ==
  ASSUME FamiliesSound(mem.families), NEW k \in DOMAIN mem.families,
         NEW c \in SUBSET Props, NEW members \in SUBSET c, Holds(mem.families, c)
  PROVE  FamiliesSound(FamilyHolding(k, members)) /\ Holds(FamilyHolding(k, members), c)
         /\ DOMAIN FamilyHolding(k, members) = DOMAIN mem.families
<1> DEFINE list == mem.families
           f == [name |-> list[k].name, id |-> list[k].id, members |-> members]
           new == [list EXCEPT ![k] = f]
<1>1. /\ list \in Seq(FamilyType) /\ NamedApart(list) /\ Holds(list, c)
      /\ \A i, j \in DOMAIN list : list[i].id = list[j].id => i = j
  BY DEF FamiliesSound
<1>2. f \in FamilyType /\ f.name = list[k].name /\ f.id = list[k].id /\ f.members = members
  BY <1>1, At DEF FamilyType
<1>3. new = FamilyHolding(k, members)
  BY DEF FamilyHolding
<1>5. k \in DOMAIN list
  OBVIOUS
<1> HIDE DEF list, f
<1>6. /\ new \in Seq(FamilyType) /\ DOMAIN new = DOMAIN list
      /\ \A i \in DOMAIN list : new[i] = IF i = k THEN f ELSE list[i]
  BY <1>1, <1>2, <1>5, Replaced
<1> HIDE DEF new
<1>8. \A i \in DOMAIN new : new[i].id = list[i].id /\ new[i].name = list[i].name
  BY <1>2, <1>6
<1>7. Holds(new, c)
  BY <1>1, <1>2, <1>6 DEF Holds
<1>9. FamiliesSound(new)
  BY <1>1, <1>6, <1>8 DEF FamiliesSound, NamedApart
<1> QED
  BY <1>3, <1>6, <1>7, <1>9 DEF list

-----------------------------------------------------------------------------
(* Seasonal sets.                                                          *)

LEMMA SetAppended ==
  ASSUME SetsSound(mem.sets), NEW n \in Names, n \notin NamesIn(mem.sets),
         NEW c \in SUBSET Props, NEW members \in SUBSET c, Holds(mem.sets, c)
  PROVE  /\ SetsSound(Append(mem.sets, [name |-> n, members |-> members]))
         /\ Holds(Append(mem.sets, [name |-> n, members |-> members]), c)
<1> DEFINE list == mem.sets
           s == [name |-> n, members |-> members]
           new == Append(list, s)
<1>1. list \in Seq(SetType) /\ NamedApart(list) /\ Holds(list, c)
  BY DEF SetsSound
<1>2. DOMAIN list = 1 .. Len(list) /\ Len(list) \in Nat
  BY <1>1, At
<1>3. s \in SetType /\ s.name = n /\ s.members = members
  BY DEF SetType
<1>4. \A k \in DOMAIN list : list[k].name # n
  BY DEF NamesIn
<1> HIDE DEF list, s
<1>5. /\ new \in Seq(SetType) /\ DOMAIN new = 1 .. Len(list) + 1
      /\ \A k \in DOMAIN list : k \in DOMAIN new /\ new[k] = list[k]
      /\ \A k \in DOMAIN new : k \in DOMAIN list \/ new[k] = s
  BY <1>1, <1>3, Appended
<1>6. \A k \in DOMAIN new : k \in DOMAIN list \/ k = Len(list) + 1
  BY <1>2, <1>5
<1> HIDE DEF new
<1>7. NamedApart(new)
  BY <1>1, <1>3, <1>4, <1>5, <1>6 DEF NamedApart
<1>8. Holds(new, c)
  BY <1>1, <1>3, <1>5 DEF Holds
<1>9. SetsSound(new)
  BY <1>5, <1>7 DEF SetsSound
<1> QED
  BY <1>8, <1>9 DEF new, list, s

LEMMA SetRemoved ==
  ASSUME NEW list, SetsSound(list), NEW k \in DOMAIN list, NEW c, Holds(list, c)
  PROVE  SetsSound(RemoveAt(list, k)) /\ Holds(RemoveAt(list, k), c)
<1> DEFINE new == RemoveAt(list, k)
           at == Around(k, Len(list))
<1>1. list \in Seq(SetType)
  BY DEF SetsSound
<1>2. /\ new \in Seq(SetType) /\ at \in [DOMAIN new -> DOMAIN list]
      /\ \A i, j \in DOMAIN new : at[i] = at[j] => i = j
      /\ \A i \in DOMAIN new : new[i] = list[at[i]]
  BY <1>1, RemovedAt
<1> HIDE DEF new, at
<1>3. NamedApart(new)
  BY <1>2, TakenApart DEF SetsSound
<1>4. SetsSound(new) /\ Holds(new, c)
  BY <1>2, <1>3 DEF SetsSound, Holds
<1> QED
  BY <1>4 DEF new

LEMMA SetRenamed ==
  ASSUME SetsSound(mem.sets), NEW k \in DOMAIN mem.sets, NEW n \in Names,
         n \notin NamesIn(RemoveAt(mem.sets, k)), NEW c, Holds(mem.sets, c)
  PROVE  SetsSound(RenamedSet(k, n)) /\ Holds(RenamedSet(k, n), c)
<1> DEFINE list == mem.sets
           s == [name |-> n, members |-> list[k].members]
           new == [list EXCEPT ![k] = s]
<1>1. list \in Seq(SetType) /\ NamedApart(list) /\ Holds(list, c)
  BY DEF SetsSound
<1>2. s \in SetType /\ s.name = n /\ s.members = list[k].members
  BY <1>1, At DEF SetType
<1>3. new = RenamedSet(k, n)
  BY DEF RenamedSet
<1>4. \A i \in DOMAIN list \ {k} : list[i].name # n
  <2>1. k \in DOMAIN list
    OBVIOUS
  <2> DEFINE rest == RemoveAt(list, k)
             at == Around(k, Len(list))
  <2>2. /\ \A i \in DOMAIN rest : rest[i] = list[at[i]]
        /\ \A i \in DOMAIN list \ {k} : \E j \in DOMAIN rest : at[j] = i
    BY <1>1, <2>1, RemovedAt
  <2> QED
    BY <2>2 DEF NamesIn
<1>5. k \in DOMAIN list
  OBVIOUS
<1> HIDE DEF list, s
<1>6. /\ new \in Seq(SetType) /\ DOMAIN new = DOMAIN list
      /\ \A i \in DOMAIN list : new[i] = IF i = k THEN s ELSE list[i]
  BY <1>1, <1>2, <1>5, Replaced
<1> HIDE DEF new
<1>7. NamedApart(new)
  BY <1>1, <1>2, <1>4, <1>6 DEF NamedApart
<1>8. SetsSound(new) /\ Holds(new, c)
  BY <1>1, <1>2, <1>6, <1>7 DEF SetsSound, Holds
<1> QED
  BY <1>3, <1>8 DEF list

LEMMA SetFilled ==
  ASSUME SetsSound(mem.sets), NEW k \in DOMAIN mem.sets,
         NEW c \in SUBSET Props, NEW members \in SUBSET c, Holds(mem.sets, c)
  PROVE  SetsSound(SetHolding(k, members)) /\ Holds(SetHolding(k, members), c)
<1> DEFINE list == mem.sets
           s == [name |-> list[k].name, members |-> members]
           new == [list EXCEPT ![k] = s]
<1>1. list \in Seq(SetType) /\ NamedApart(list) /\ Holds(list, c)
  BY DEF SetsSound
<1>2. s \in SetType /\ s.name = list[k].name /\ s.members = members
  BY <1>1, At DEF SetType
<1>3. new = SetHolding(k, members)
  BY DEF SetHolding
<1>4. k \in DOMAIN list
  OBVIOUS
<1> HIDE DEF list, s
<1>5. /\ new \in Seq(SetType) /\ DOMAIN new = DOMAIN list
      /\ \A i \in DOMAIN list : new[i] = IF i = k THEN s ELSE list[i]
  BY <1>1, <1>2, <1>4, Replaced
<1> HIDE DEF new
<1>6. \A i \in DOMAIN new : new[i].name = list[i].name
  BY <1>2, <1>5
<1>7. SetsSound(new) /\ Holds(new, c)
  BY <1>1, <1>2, <1>5, <1>6 DEF SetsSound, NamedApart, Holds
<1> QED
  BY <1>3, <1>7 DEF list

-----------------------------------------------------------------------------
(* Presets.                                                                *)

\* Normalizing leaves one default, and changes no list that has one.
LEMMA NormalizedOK ==
  ASSUME NEW list \in Seq(Preset), NamedApart(list)
  PROVE  /\ PresetsSound(Normalized(list)) /\ DOMAIN Normalized(list) = DOMAIN list
         /\ PresetsSound(list) => Normalized(list) = list
<1> DEFINE new == Normalized(list)
           defaults == {k \in DOMAIN list : list[k].default}
           chosen == IF defaults = {} THEN 1 ELSE Min(defaults)
<1>1. /\ DOMAIN list = 1 .. Len(list) /\ Len(list) \in Nat
      /\ \A k \in DOMAIN list : list[k] \in Preset
  BY At
<1>2. \A k \in DOMAIN list : list[k].name \in Names /\ list[k].default \in BOOLEAN
                             /\ list[k] = [name |-> list[k].name, default |-> list[k].default]
  BY <1>1 DEF Preset
<1>3. new = [k \in DOMAIN list |-> [name |-> list[k].name, default |-> k = chosen]]
  BY DEF Normalized
<1>4. defaults # {} => chosen \in defaults
  <2>1. HAVE defaults # {}
  <2>2. IsFiniteSet(1 .. Len(list))
    BY <1>1, FiniteUpTo
  <2>3. IsFiniteSet(defaults) /\ defaults \in SUBSET Int
    BY <1>1, <2>2, FS_Subset
  <2>4. \E a \in defaults : \A x \in defaults : a <= x
    BY <2>1, <2>3, LeastAndGreatest
  <2> HIDE DEF defaults
  <2>5. Min(defaults) \in defaults
    BY <2>4 DEF Min
  <2> QED
    BY <2>1, <2>5
<1>5. list # <<>> => chosen \in DOMAIN list
  <2>1. HAVE list # <<>>
  <2>2. Len(list) # 0
    BY <2>1, EmptySeq
  <2>3. 1 \in DOMAIN list
    BY <1>1, <2>2
  <2> QED
    BY <1>4, <2>3
<1>6. \A c \in DOMAIN list : (\A k \in DOMAIN list : list[k].default = (k = c)) => chosen = c
  BY <1>4
<1> HIDE DEF chosen, defaults, new
<1>7. /\ DOMAIN new = DOMAIN list
      /\ \A k \in DOMAIN list : new[k] = [name |-> list[k].name, default |-> k = chosen]
  BY <1>3
<1>8. new \in Seq(Preset)
  <2>1. \A k \in DOMAIN list : new[k] \in Preset
    <3>1. TAKE k \in DOMAIN list
    <3>2. PICK b \in BOOLEAN : b = (k = chosen)
      OBVIOUS
    <3>3. new[k] = [name |-> list[k].name, default |-> b]
      BY <1>7, <3>2, Zenon
    <3>4. list[k].name \in Names
      BY <1>2
    <3> QED
      BY <3>3, <3>4 DEF Preset
  <2> QED
    BY <1>1, <1>7, <2>1, <1>3, SeqDef
<1>9. \A k \in DOMAIN list : new[k].name = list[k].name /\ new[k].default = (k = chosen)
  BY <1>7
<1>10. NamedApart(new)
  BY <1>7, <1>9 DEF NamedApart
<1>11. new # <<>> => \E c \in DOMAIN new : \A k \in DOMAIN new : new[k].default = (k = c)
  <2>1. new # <<>> => list # <<>>
    BY <1>7, <1>8, EmptySeq, LenProperties
  <2> QED
    BY <1>5, <1>7, <1>9, <2>1
<1>12. PresetsSound(list) => new = list
  <2>1. HAVE PresetsSound(list)
  <2>2. CASE list = <<>>
    <3>1. Len(list) = 0 /\ DOMAIN list = {}
      BY <1>1, <2>2
    <3>2. Len(new) = 0
      BY <1>1, <1>7, <1>8, <3>1, LenProperties
    <3> QED
      BY <1>8, <2>2, <3>2, EmptySeq
  <2>3. CASE list # <<>>
    <3>1. PICK c \in DOMAIN list : \A k \in DOMAIN list : list[k].default = (k = c)
      BY <2>1, <2>3 DEF PresetsSound
    <3>2. chosen = c
      BY <1>6, <3>1
    <3>3. \A k \in DOMAIN list : new[k] = list[k]
      BY <1>2, <1>7, <3>1, <3>2
    <3> QED
      BY <1>1, <1>7, <1>8, <3>3, LenProperties, SeqDef
  <2> QED
    BY <2>2, <2>3
<1> QED
  BY <1>7, <1>8, <1>10, <1>11, <1>12 DEF PresetsSound, new

LEMMA UpsertedOK ==
  ASSUME NEW list, PresetsSound(list), NEW n \in Names, NEW makeDefault \in BOOLEAN
  PROVE  PresetsSound(Normalized(Upserted(list, n, makeDefault)))
<1> DEFINE known == n \in NamesIn(list)
           default == makeDefault \/ list = <<>>
           others == [k \in DOMAIN list |->
                        [name |-> list[k].name,
                         default |-> IF default THEN list[k].name = n ELSE list[k].default]]
           e == [name |-> n, default |-> default]
<1>1. list \in Seq(Preset) /\ NamedApart(list)
  BY DEF PresetsSound
<1>2. /\ DOMAIN list = 1 .. Len(list) /\ Len(list) \in Nat
      /\ \A k \in DOMAIN list : list[k].name \in Names /\ list[k].default \in BOOLEAN
  <2>1. \A k \in DOMAIN list : list[k] \in Preset
    BY <1>1, At
  <2> QED
    BY <1>1, <2>1, At DEF Preset
<1>3. Upserted(list, n, makeDefault) = IF known THEN others ELSE Append(others, e)
  BY DEF Upserted
<1>4. e \in Preset /\ e.name = n
  BY DEF Preset
<1>5. known <=> \E k \in DOMAIN list : list[k].name = n
  BY DEF NamesIn
<1>6. \A k \in DOMAIN list : others[k] \in Preset /\ others[k].name = list[k].name
  <2>1. TAKE k \in DOMAIN list
  <2>2. PICK b \in BOOLEAN : b = (IF default THEN list[k].name = n ELSE list[k].default)
    BY <1>2
  <2>3. others[k] = [name |-> list[k].name, default |-> b]
    BY <2>2, Zenon
  <2>4. list[k].name \in Names
    BY <1>2
  <2> HIDE DEF others
  <2> QED
    BY <2>3, <2>4 DEF Preset
<1>7. DOMAIN others = DOMAIN list
  OBVIOUS
<1> HIDE DEF others, e, known
<1>8. others \in Seq(Preset)
  <2>1. others = [k \in 1 .. Len(list) |-> others[k]]
    BY <1>2, <1>7 DEF others
  <2> QED
    BY <1>2, <1>6, <1>7, <2>1, IsASeq
<1>9. NamedApart(others)
  BY <1>1, <1>6, <1>7 DEF NamedApart
<1>10. ASSUME ~known
       PROVE  Append(others, e) \in Seq(Preset) /\ NamedApart(Append(others, e))
  <2> DEFINE new == Append(others, e)
  <2>1. Len(others) \in Nat /\ DOMAIN others = 1 .. Len(others)
    BY <1>8, LenProperties
  <2>2. /\ new \in Seq(Preset) /\ DOMAIN new = 1 .. Len(others) + 1
        /\ \A k \in DOMAIN others : k \in DOMAIN new /\ new[k] = others[k]
        /\ \A k \in DOMAIN new : k \in DOMAIN others \/ new[k] = e
    BY <1>4, <1>8, Appended
  <2>3. \A k \in DOMAIN new : k \in DOMAIN others \/ k = Len(others) + 1
    BY <2>1, <2>2
  <2>4. \A k \in DOMAIN others : others[k].name # n
    BY <1>5, <1>6, <1>7, <1>10
  <2> HIDE DEF new
  <2>5. NamedApart(new)
    BY <1>4, <1>9, <2>2, <2>3, <2>4 DEF NamedApart
  <2> QED
    BY <2>2, <2>5 DEF new
<1>11. Upserted(list, n, makeDefault) \in Seq(Preset) /\ NamedApart(Upserted(list, n, makeDefault))
  BY <1>3, <1>8, <1>9, <1>10
<1> QED
  BY <1>11, NormalizedOK

LEMMA DroppedOK ==
  ASSUME NEW list, PresetsSound(list), NEW I \in SUBSET DOMAIN list
  PROVE  PresetsSound(Normalized(Picked(list, I)))
<1> DEFINE new == Picked(list, I)
           at == Ascending(I)
<1>1. list \in Seq(Preset) /\ NamedApart(list)
  BY DEF PresetsSound
<1>2. /\ new \in Seq(Preset) /\ at \in [DOMAIN new -> DOMAIN list]
      /\ \A i, j \in DOMAIN new : at[i] = at[j] => i = j
      /\ \A i \in DOMAIN new : new[i] = list[at[i]]
  BY <1>1, PickedFrom
<1> HIDE DEF new, at
<1>3. NamedApart(new)
  BY <1>1, <1>2, TakenApart
<1> QED
  BY <1>2, <1>3, NormalizedOK DEF new

LEMMA EmptyPresets == PresetsSound(<<>>)
BY EmptySeq DEF PresetsSound, NamedApart

LEMMA StarsToggled ==
  ASSUME NEW stars, NEW presets, StarsSound(stars, presets), NEW i \in Items
  PROVE  /\ StarsSound(stars \cup {i}, presets)
         /\ StarsSound(stars \ {i}, [d \in Decals |-> IF d = i THEN <<>> ELSE presets[d]])
<1>1. /\ stars \in SUBSET Items /\ presets \in [Decals -> Seq(Preset)]
      /\ \A d \in Decals : PresetsSound(presets[d]) /\ (presets[d] # <<>> => d \in stars)
  BY DEF StarsSound
<1>2. StarsSound(stars \cup {i}, presets)
  BY <1>1 DEF StarsSound
<1> DEFINE new == [d \in Decals |-> IF d = i THEN <<>> ELSE presets[d]]
<1>3. \A d \in Decals : /\ PresetsSound(new[d]) /\ new[d] \in Seq(Preset)
                        /\ new[d] # <<>> => d \in stars \ {i}
  BY <1>1, EmptyPresets DEF PresetsSound
<1>4. new \in [Decals -> Seq(Preset)]
  BY <1>3
<1> HIDE DEF new
<1>5. StarsSound(stars \ {i}, new)
  BY <1>1, <1>3, <1>4 DEF StarsSound
<1> QED
  BY <1>2, <1>5 DEF new

LEMMA PresetsChanged ==
  ASSUME NEW stars, NEW presets, StarsSound(stars, presets), NEW d \in Decals,
         NEW list, PresetsSound(list), NEW new \in SUBSET Items,
         stars \subseteq new, list # <<>> => d \in new
  PROVE  StarsSound(new, [presets EXCEPT ![d] = list])
<1>1. list \in Seq(Preset)
  BY DEF PresetsSound
<1>2. [presets EXCEPT ![d] = list] \in [Decals -> Seq(Preset)]
      /\ \A x \in Decals : [presets EXCEPT ![d] = list][x] = IF x = d THEN list ELSE presets[x]
  BY <1>1 DEF StarsSound
<1> QED
  BY <1>2 DEF StarsSound

-----------------------------------------------------------------------------
(* Recent paints.                                                          *)

LEMMA TrimmedOK ==
  ASSUME StoreAssumption, NEW A, NEW list \in Seq(A)
  PROVE  /\ Trimmed(list) \in Seq(A) /\ Len(Trimmed(list)) <= MaxRecents
         /\ Len(Trimmed(list)) <= Len(list) /\ DOMAIN Trimmed(list) = 1 .. Len(Trimmed(list))
         /\ \A k \in DOMAIN Trimmed(list) : k \in DOMAIN list /\ Trimmed(list)[k] = list[k]
         /\ Len(list) <= MaxRecents => Trimmed(list) = list
<1> DEFINE n == Len(list)
           m == Min({n, MaxRecents})
<1>1. n \in Nat /\ DOMAIN list = 1 .. n /\ MaxRecents \in Nat
  BY LenProperties DEF StoreAssumption
<1>2. m = IF n <= MaxRecents THEN n ELSE MaxRecents
  BY <1>1, LesserOfTwo
<1>3. Trimmed(list) = SubSeq(list, 1, m)
  BY DEF Trimmed
<1> HIDE DEF n, m
<1>4. m \in 0 .. n /\ m <= MaxRecents
  BY <1>1, <1>2
<1>5. /\ SubSeq(list, 1, m) \in Seq(A) /\ Len(SubSeq(list, 1, m)) = m
      /\ \A k \in 1 .. m : SubSeq(list, 1, m)[k] = list[k]
  <2>1. \A k \in 1 .. m : k \in 1 .. Len(list)
    BY <1>1, <1>4 DEF n
  <2>2. SubSeq(list, 1, m) \in Seq(A)
    BY <1>1, <1>4, <2>1, SubSeqProperties
  <2>3. Len(SubSeq(list, 1, m)) = m /\ \A k \in 1 .. m : SubSeq(list, 1, m)[k] = list[k]
    BY <1>1, <1>4, <2>1, SubSeqProperties
  <2> QED
    BY <2>2, <2>3
<1>6. DOMAIN SubSeq(list, 1, m) = 1 .. m
  BY <1>5, LenProperties
<1>7. n <= MaxRecents => SubSeq(list, 1, m) = list
  <2>1. HAVE n <= MaxRecents
  <2>2. m = n
    BY <1>2, <2>1
  <2> QED
    BY <1>1, <1>5, <2>2, SeqEqual DEF n
<1>8. \A k \in 1 .. m : k \in DOMAIN list
  BY <1>1, <1>4
<1> DEFINE new == SubSeq(list, 1, m)
<1>9. /\ new \in Seq(A) /\ Len(new) <= MaxRecents /\ Len(new) <= n
      /\ DOMAIN new = 1 .. Len(new)
      /\ \A k \in DOMAIN new : k \in DOMAIN list /\ new[k] = list[k]
      /\ n <= MaxRecents => new = list
  <2> HIDE DEF new
  <2>1. /\ new \in Seq(A) /\ Len(new) = m /\ DOMAIN new = 1 .. m
        /\ \A k \in 1 .. m : new[k] = list[k]
        /\ n <= MaxRecents => new = list
    BY <1>5, <1>6, <1>7 DEF new
  <2> QED
    BY <1>1, <1>4, <1>8, <2>1
<1> QED
  BY <1>3, <1>9 DEF n

LEMMA PushedOK ==
  ASSUME StoreAssumption, NEW list, RecentsSound(list), NEW entry \in Entry,
         NEW c, Paintable(list, c), entry.type \in c, entry.palette \subseteq c
  PROVE  RecentsSound(Pushed(list, entry)) /\ Paintable(Pushed(list, entry), c)
<1> DEFINE I == {k \in DOMAIN list : list[k].source # entry.source}
           rest == Picked(list, I)
           at == Ascending(I)
           all == <<entry>> \o rest
           new == Trimmed(all)
<1>1. /\ list \in Seq(Entry)
      /\ \A j, k \in DOMAIN list : list[j].source = list[k].source => j = k
      /\ \A k \in DOMAIN list : list[k].type \in c /\ list[k].palette \subseteq c
  BY DEF RecentsSound, Paintable
<1>2. I \in SUBSET DOMAIN list /\ \A k \in I : list[k].source # entry.source
  OBVIOUS
<1>3. Pushed(list, entry) = new
  BY DEF Pushed
<1> HIDE DEF I
<1>4. /\ rest \in Seq(Entry) /\ Len(rest) \in Nat /\ DOMAIN rest = 1 .. Len(rest)
      /\ at \in [DOMAIN rest -> DOMAIN list]
      /\ \A i, j \in DOMAIN rest : at[i] = at[j] => i = j
      /\ \A i \in DOMAIN rest : at[i] \in I /\ rest[i] = list[at[i]]
  BY <1>1, <1>2, PickedFrom
<1> HIDE DEF rest, at
<1>5. /\ \A j, k \in DOMAIN rest : rest[j].source = rest[k].source => j = k
      /\ \A k \in DOMAIN rest : rest[k].source # entry.source
      /\ \A k \in DOMAIN rest : rest[k].type \in c /\ rest[k].palette \subseteq c
  BY <1>1, <1>2, <1>4
<1>6. <<entry>> \in Seq(Entry) /\ Len(<<entry>>) = 1 /\ <<entry>>[1] = entry
  OBVIOUS
<1>7. /\ all \in Seq(Entry) /\ Len(all) = 1 + Len(rest)
      /\ \A i \in 1 .. 1 + Len(rest) : all[i] = IF i <= 1 THEN entry ELSE rest[i - 1]
  <2> DEFINE one == <<entry>>
  <2>1. one \in Seq(Entry) /\ Len(one) = 1 /\ one[1] = entry
    BY <1>6
  <2> HIDE DEF one
  <2>2. /\ one \o rest \in Seq(Entry) /\ Len(one \o rest) = Len(one) + Len(rest)
        /\ \A i \in 1 .. Len(one) + Len(rest) :
             (one \o rest)[i] = IF i <= Len(one) THEN one[i] ELSE rest[i - Len(one)]
    <3>1. one \in Seq(Entry) /\ rest \in Seq(Entry)
      BY <1>4, <2>1
    <3> QED
      BY <3>1, ConcatProperties, Zenon
  <2>3. all = one \o rest
    BY DEF one
  <2> HIDE DEF all
  <2>4. \A i \in 1 .. 1 + Len(rest) : i <= 1 => one[i] = entry
    BY <1>4, <2>1
  <2> QED
    BY <1>4, <2>1, <2>2, <2>3, <2>4
<1> HIDE DEF all
<1>8. DOMAIN all = 1 .. 1 + Len(rest)
  BY <1>7, LenProperties
<1>9. \A i \in DOMAIN all : \/ i = 1 /\ all[i] = entry
                            \/ i - 1 \in DOMAIN rest /\ all[i] = rest[i - 1] /\ i # 1
  <2>1. TAKE i \in DOMAIN all
  <2>2. i \in 1 .. 1 + Len(rest) /\ i \in Int /\ Len(rest) \in Nat
    BY <1>4, <1>8
  <2>3. all[i] = IF i <= 1 THEN entry ELSE rest[i - 1]
    BY <1>7, <2>2
  <2>4. CASE i = 1
    <3>1. i <= 1
      BY <2>4
    <3>2. all[i] = entry
      BY <2>3, <3>1
    <3> QED
      BY <2>4, <3>2
  <2>5. CASE i # 1
    <3>1. i - 1 \in DOMAIN rest /\ ~(i <= 1)
      BY <1>4, <2>2, <2>5
    <3> QED
      BY <2>3, <2>5, <3>1
  <2> QED
    BY <2>4, <2>5
<1>10. \A j, k \in DOMAIN all : all[j].source = all[k].source => j = k
  <2>1. ASSUME NEW j \in DOMAIN all, NEW k \in DOMAIN all, all[j].source = all[k].source
        PROVE  j = k
    <3>1. j \in Int /\ k \in Int
      BY <1>4, <1>8
    <3>2. CASE j = 1
      BY <1>5, <1>9, <2>1, <3>2
    <3>3. CASE k = 1
      BY <1>5, <1>9, <2>1, <3>3
    <3>4. CASE j # 1 /\ k # 1
      BY <1>5, <1>9, <2>1, <3>1, <3>4
    <3> QED
      BY <3>2, <3>3, <3>4
  <2> QED
    BY <2>1
<1>11. \A k \in DOMAIN all : all[k].type \in c /\ all[k].palette \subseteq c
  BY <1>5, <1>9
<1>12. /\ new \in Seq(Entry) /\ Len(new) <= MaxRecents
       /\ \A k \in DOMAIN new : k \in DOMAIN all /\ new[k] = all[k]
  BY <1>7, TrimmedOK
<1> HIDE DEF new
<1>13. RecentsSound(new)
  BY <1>10, <1>12 DEF RecentsSound
<1>14. Paintable(new, c)
  BY <1>11, <1>12 DEF Paintable
<1> QED
  BY <1>3, <1>13, <1>14

\* What Validate keeps are the entries that can still be painted, in their order.
LEMMA ValidatedOK ==
  ASSUME StoreAssumption, NEW list, RecentsSound(list), NEW c \in SUBSET Props
  PROVE  /\ RecentsSound(Validated(list, c)) /\ Paintable(Validated(list, c), c)
         /\ LET able == {k \in DOMAIN list : Able(list[k], c)} IN
            [k \in DOMAIN Validated(list, c) |-> Validated(list, c)[k].source] =
            [k \in DOMAIN Picked(list, able) |-> Picked(list, able)[k].source]
<1> DEFINE I == {k \in DOMAIN list : Able(list[k], c)}
           left == [k \in DOMAIN list |-> Reduced(list[k], c)]
           new == Picked(left, I)
           old == Picked(list, I)
           at == Ascending(I)
<1>1. /\ list \in Seq(Entry) /\ Len(list) <= MaxRecents
      /\ \A j, k \in DOMAIN list : list[j].source = list[k].source => j = k
  BY DEF RecentsSound
<1>2. /\ DOMAIN list = 1 .. Len(list) /\ Len(list) \in Nat
      /\ \A k \in DOMAIN list : list[k] \in Entry
  BY <1>1, At
<1>3. \A e \in Entry : /\ Reduced(e, c) \in Entry /\ Reduced(e, c).source = e.source
                       /\ Reduced(e, c).palette \subseteq c
                       /\ Able(e, c) => Reduced(e, c).type \in c
  <2>1. TAKE e \in Entry
  <2> DEFINE x == IF e.type \in c \/ ~Able(e, c) THEN e.type
                  ELSE CHOOSE p \in e.palette \cap c : TRUE
  <2>2. Reduced(e, c) = [source |-> e.source, palette |-> e.palette \cap c, type |-> x]
    BY DEF Reduced
  <2>3. e.source \in Sources /\ e.type \in Props /\ e.palette \in SUBSET Props
    BY DEF Entry
  <2>4. Able(e, c) /\ e.type \notin c => e.palette \cap c # {}
    BY DEF Able
  <2>5. x \in Props /\ (Able(e, c) => x \in c)
    <3>1. CASE e.type \in c \/ ~Able(e, c)
      BY <2>3, <3>1
    <3>2. CASE ~(e.type \in c \/ ~Able(e, c))
      <4>1. x = CHOOSE p \in e.palette \cap c : TRUE
        BY <3>2
      <4>2. e.palette \cap c # {}
        BY <2>4, <3>2
      <4>3. x \in e.palette \cap c
        BY <4>1, <4>2
      <4> QED
        BY <2>3, <4>3
    <3> QED
      BY <3>1, <3>2
  <2> HIDE DEF x
  <2>6. e.palette \cap c \in SUBSET Props
    BY <2>3
  <2> QED
    BY <2>2, <2>3, <2>5, <2>6 DEF Entry
<1>4. \A k \in DOMAIN list : left[k] \in Entry /\ left[k] = Reduced(list[k], c)
  BY <1>2, <1>3
<1>5. DOMAIN left = DOMAIN list
  OBVIOUS
<1>6. left = [k \in 1 .. Len(list) |-> left[k]]
  BY <1>2, <1>5
<1>7. I \in SUBSET DOMAIN list /\ \A k \in I : Able(list[k], c)
  OBVIOUS
<1>8. Validated(list, c) = new
  BY DEF Validated
<1> HIDE DEF left, I
<1>9. left \in Seq(Entry)
  BY <1>2, <1>4, <1>6, IsASeq
<1>10. /\ new \in Seq(Entry) /\ Len(new) <= Len(left) /\ Len(new) \in Nat /\ DOMAIN new = 1 .. Len(new)
       /\ at \in [DOMAIN new -> DOMAIN left]
       /\ \A i, j \in DOMAIN new : at[i] = at[j] => i = j
       /\ \A i \in DOMAIN new : at[i] \in I /\ new[i] = left[at[i]]
  BY <1>5, <1>7, <1>9, PickedFrom
<1>11. \A i \in DOMAIN old : at[i] \in I /\ old[i] = list[at[i]]
  BY <1>1, <1>7, PickedFrom
<1>12. DOMAIN new = DOMAIN old
  BY DEF Picked
<1>13. Len(left) = Len(list)
  BY <1>1, <1>5, <1>9, LenProperties
<1> HIDE DEF new, old, at
<1>14. \A i \in DOMAIN new : /\ new[i].source = list[at[i]].source /\ at[i] \in DOMAIN list
                             /\ new[i].type \in c /\ new[i].palette \subseteq c
  BY <1>2, <1>3, <1>4, <1>7, <1>10
<1>15. \A i, j \in DOMAIN new : new[i].source = new[j].source => i = j
  BY <1>1, <1>10, <1>14
<1>16. Len(new) <= MaxRecents
  <2>1. MaxRecents \in Nat
    BY DEF StoreAssumption
  <2> QED
    BY <1>1, <1>2, <1>10, <1>13, <2>1
<1>17. RecentsSound(new) /\ Paintable(new, c)
  BY <1>10, <1>14, <1>15, <1>16 DEF RecentsSound, Paintable
<1>18. [k \in DOMAIN new |-> new[k].source] = [k \in DOMAIN old |-> old[k].source]
  BY <1>11, <1>12, <1>14
<1> QED
  BY <1>8, <1>17, <1>18 DEF old, I

-----------------------------------------------------------------------------
(* What Load keeps.                                                        *)

LEMMA ListsTakenOver ==
  ASSUME NEW c \in SUBSET Props
  PROVE  /\ \A list : FamiliesSound(list) =>
              LET new == [k \in DOMAIN list |-> [name |-> list[k].name, id |-> list[k].id,
                                                 members |-> list[k].members \cap c]]
              IN FamiliesSound(new) /\ Holds(new, c) /\ (Holds(list, c) => new = list)
         /\ \A list : SetsSound(list) =>
              LET new == [k \in DOMAIN list |-> [name |-> list[k].name,
                                                 members |-> list[k].members \cap c]]
              IN SetsSound(new) /\ Holds(new, c) /\ (Holds(list, c) => new = list)
<1>1. ASSUME NEW list, FamiliesSound(list)
      PROVE  LET new == [k \in DOMAIN list |-> [name |-> list[k].name, id |-> list[k].id,
                                                 members |-> list[k].members \cap c]]
             IN FamiliesSound(new) /\ Holds(new, c) /\ (Holds(list, c) => new = list)
  <2> DEFINE new == [k \in DOMAIN list |-> [name |-> list[k].name, id |-> list[k].id,
                                            members |-> list[k].members \cap c]]
  <2>1. /\ list \in Seq(FamilyType) /\ NamedApart(list)
        /\ \A j, k \in DOMAIN list : list[j].id = list[k].id => j = k
    BY <1>1 DEF FamiliesSound
  <2>2. /\ DOMAIN list = 1 .. Len(list) /\ Len(list) \in Nat
        /\ \A k \in DOMAIN list : list[k] \in FamilyType
    BY <2>1, At
  <2>3. DOMAIN new = DOMAIN list
    OBVIOUS
  <2>4. \A k \in DOMAIN list : /\ new[k] \in FamilyType /\ new[k].name = list[k].name
                               /\ new[k].id = list[k].id /\ new[k].members = list[k].members \cap c
    BY <2>2 DEF FamilyType
  <2>5. \A k \in DOMAIN list : list[k].members \subseteq c => new[k] = list[k]
    <3>1. TAKE k \in DOMAIN list
    <3>2. HAVE list[k].members \subseteq c
    <3>3. list[k].members \cap c = list[k].members
      BY <3>2
    <3>4. new[k] = [name |-> list[k].name, id |-> list[k].id, members |-> list[k].members]
      BY <3>3
    <3>5. list[k] \in FamilyType
      BY <2>2
    <3> QED
      BY <3>4, <3>5 DEF FamilyType
  <2>6. new = [k \in 1 .. Len(list) |-> new[k]]
    BY <2>2, <2>3
  <2> HIDE DEF new
  <2>7. new \in Seq(FamilyType)
    BY <2>2, <2>4, <2>6, IsASeq
  <2>8. FamiliesSound(new) /\ Holds(new, c)
    BY <2>1, <2>3, <2>4, <2>7 DEF FamiliesSound, NamedApart, Holds
  <2>9. Holds(list, c) => new = list
    <3>1. HAVE Holds(list, c)
    <3>2. \A k \in DOMAIN list : new[k] = list[k]
      BY <2>5, <3>1 DEF Holds
    <3>3. Len(new) = Len(list)
      BY <2>1, <2>2, <2>3, <2>7, LenProperties
    <3> QED
      BY <2>1, <2>2, <2>7, <3>2, <3>3, SeqEqual
  <2> QED
    BY <2>8, <2>9 DEF new
<1>2. ASSUME NEW list, SetsSound(list)
      PROVE  LET new == [k \in DOMAIN list |-> [name |-> list[k].name,
                                                 members |-> list[k].members \cap c]]
             IN SetsSound(new) /\ Holds(new, c) /\ (Holds(list, c) => new = list)
  <2> DEFINE new == [k \in DOMAIN list |-> [name |-> list[k].name,
                                            members |-> list[k].members \cap c]]
  <2>1. list \in Seq(SetType) /\ NamedApart(list)
    BY <1>2 DEF SetsSound
  <2>2. /\ DOMAIN list = 1 .. Len(list) /\ Len(list) \in Nat
        /\ \A k \in DOMAIN list : list[k] \in SetType
    BY <2>1, At
  <2>3. DOMAIN new = DOMAIN list
    OBVIOUS
  <2>4. \A k \in DOMAIN list : /\ new[k] \in SetType /\ new[k].name = list[k].name
                               /\ new[k].members = list[k].members \cap c
    BY <2>2 DEF SetType
  <2>5. \A k \in DOMAIN list : list[k].members \subseteq c => new[k] = list[k]
    <3>1. TAKE k \in DOMAIN list
    <3>2. HAVE list[k].members \subseteq c
    <3>3. list[k].members \cap c = list[k].members
      BY <3>2
    <3>4. new[k] = [name |-> list[k].name, members |-> list[k].members]
      BY <3>3
    <3>5. list[k] \in SetType
      BY <2>2
    <3> QED
      BY <3>4, <3>5 DEF SetType
  <2>6. new = [k \in 1 .. Len(list) |-> new[k]]
    BY <2>2, <2>3
  <2> HIDE DEF new
  <2>7. new \in Seq(SetType)
    BY <2>2, <2>4, <2>6, IsASeq
  <2>8. SetsSound(new) /\ Holds(new, c)
    BY <2>1, <2>3, <2>4, <2>7 DEF SetsSound, NamedApart, Holds
  <2>9. Holds(list, c) => new = list
    <3>1. HAVE Holds(list, c)
    <3>2. \A k \in DOMAIN list : new[k] = list[k]
      BY <2>5, <3>1 DEF Holds
    <3>3. Len(new) = Len(list)
      BY <2>1, <2>2, <2>3, <2>7, LenProperties
    <3> QED
      BY <2>1, <2>2, <2>7, <3>2, <3>3, SeqEqual
  <2> QED
    BY <2>8, <2>9 DEF new
<1> QED
  BY <1>1, <1>2

LEMMA LoadedOK ==
  ASSUME StoreAssumption, NEW m, Sound(m), NEW c \in SUBSET Props
  PROVE  /\ Sound(Loaded(m, c)) /\ Within(Loaded(m, c), c)
         /\ Loaded(m, c).stars = m.stars
         /\ Loaded(m, c).presets = m.presets
         /\ Loaded(m, c).recents = Validated(m.recents, c)
         /\ Holds(m.families, c) => Loaded(m, c).families = m.families
         /\ Holds(m.sets, c) => Loaded(m, c).sets = m.sets
<1> DEFINE presets == [d \in Decals |-> Normalized(m.presets[d])]
           families == [k \in DOMAIN m.families |->
                   [name |-> m.families[k].name, id |-> m.families[k].id,
                    members |-> m.families[k].members \cap c]]
           sets == [k \in DOMAIN m.sets |->
               [name |-> m.sets[k].name, members |-> m.sets[k].members \cap c]]
           recents == Validated(Trimmed(m.recents), c)
           new == [stars |-> m.stars, presets |-> presets, families |-> families,
                   sets |-> sets, recents |-> recents]
<1>1. /\ StarsSound(m.stars, m.presets) /\ FamiliesSound(m.families)
      /\ SetsSound(m.sets) /\ RecentsSound(m.recents)
  BY DEF Sound
<1>2. Loaded(m, c) = new
  BY DEF Loaded
<1>3. presets = m.presets
  <2>1. m.presets \in [Decals -> Seq(Preset)] /\ \A d \in Decals : PresetsSound(m.presets[d])
    BY <1>1 DEF StarsSound
  <2>2. \A d \in Decals : Normalized(m.presets[d]) = m.presets[d]
    BY <2>1, NormalizedOK DEF PresetsSound
  <2> QED
    BY <2>1, <2>2
<1>4. FamiliesSound(families) /\ Holds(families, c) /\ (Holds(m.families, c) => families = m.families)
  BY <1>1, ListsTakenOver
<1>5. SetsSound(sets) /\ Holds(sets, c) /\ (Holds(m.sets, c) => sets = m.sets)
  BY <1>1, ListsTakenOver
<1>6. Trimmed(m.recents) = m.recents
  BY <1>1, TrimmedOK DEF RecentsSound
<1>7. RecentsSound(recents) /\ Paintable(recents, c) /\ recents = Validated(m.recents, c)
  BY <1>1, <1>6, ValidatedOK
<1> HIDE DEF presets, families, sets, recents
<1>8. /\ new.stars = m.stars /\ new.presets = presets /\ new.families = families
      /\ new.sets = sets /\ new.recents = recents
  OBVIOUS
<1>9. new \in Contents
  BY <1>1, <1>3, <1>4, <1>5, <1>7 DEF Contents, StarsSound, FamiliesSound, SetsSound,
     RecentsSound, Preset, FamilyType, SetType, Entry
<1> HIDE DEF new
<1>10. Sound(new)
  BY <1>1, <1>3, <1>4, <1>5, <1>7, <1>8, <1>9 DEF Sound
<1>11. Within(new, c)
  BY <1>4, <1>5, <1>7, <1>8 DEF Within
<1> QED
  BY <1>2, <1>3, <1>4, <1>5, <1>7, <1>8, <1>10, <1>11

LEMMA EmptyOK ==
  ASSUME StoreAssumption, NEW c
  PROVE  Sound(Empty) /\ Within(Empty, c)
<1>1. /\ Empty.stars = {} /\ Empty.presets = [d \in Decals |-> <<>>]
      /\ Empty.families = <<>> /\ Empty.sets = <<>> /\ Empty.recents = <<>>
  BY DEF Empty
<1>2. \A A : <<>> \in Seq(A)
  BY EmptySeq
<1>3. DOMAIN <<>> = {} /\ Len(<<>>) = 0 /\ MaxRecents \in Nat \ {0}
  BY EmptySeq DEF StoreAssumption
<1>4. Empty \in Contents
  <2>1. [d \in Decals |-> <<>>] \in [Decals -> Seq([name : Names, default : BOOLEAN])]
    BY <1>2
  <2> QED
    BY <1>2, <2>1 DEF Empty, Contents
<1>5. StarsSound(Empty.stars, Empty.presets)
  BY <1>1, <1>2, EmptyPresets DEF StarsSound
<1>6. FamiliesSound(<<>>) /\ SetsSound(<<>>)
  BY <1>2, <1>3 DEF FamiliesSound, SetsSound, NamedApart
<1>7. RecentsSound(<<>>)
  BY <1>2, <1>3 DEF RecentsSound
<1>8. Within(Empty, c)
  BY <1>1, <1>3 DEF Within, Holds, Paintable
<1> QED
  BY <1>1, <1>4, <1>5, <1>6, <1>7, <1>8 DEF Sound

-----------------------------------------------------------------------------
(* The stacks.                                                             *)

StackType == [name : Names, members : SUBSET Props, custom : BOOLEAN]

\* The detected sets that stay.
Alone(sets, c) ==
  {k \in DOMAIN AutoSets :
     /\ AutoSets[k].members \subseteq c
     /\ \A j \in Works(sets) : sets[j].members \cap AutoSets[k].members = {}}

\* The stacks new: n custom sets in their order, then m detected ones.
Layout(new, sets, works, alone, n, m, up, down) ==
  /\ new \in Seq(StackType) /\ n \in Nat /\ m \in Nat /\ DOMAIN new = 1 .. n + m
  /\ works \in SUBSET DOMAIN sets /\ alone \in SUBSET DOMAIN AutoSets
  /\ up \in [1 .. n -> works] /\ down \in [1 .. m -> alone]
  /\ \A i \in works : \E k \in 1 .. n : up[k] = i
  /\ \A i \in alone : \E k \in 1 .. m : down[k] = i
  /\ \A j, k \in 1 .. n : j < k <=> up[j] < up[k]
  /\ \A j, k \in 1 .. m : j < k <=> down[j] < down[k]
  /\ \A k \in 1 .. n : new[k].members = sets[up[k]].members /\ new[k].custom = TRUE
  /\ \A k \in 1 .. m : /\ new[n + k].members = AutoSets[down[k]].members
                       /\ new[n + k].custom = FALSE

LEMMA StackOK ==
  ASSUME NEW list \in Seq(SetType), NEW own \in BOOLEAN
  PROVE  /\ Stack(list, own) \in Seq(StackType) /\ Len(Stack(list, own)) = Len(list)
         /\ \A k \in DOMAIN list : /\ Stack(list, own)[k].members = list[k].members
                                   /\ Stack(list, own)[k].custom = own
<1> DEFINE s == [k \in DOMAIN list |->
                     [name |-> list[k].name, members |-> list[k].members, custom |-> own]]
<1>1. DOMAIN list = 1 .. Len(list) /\ Len(list) \in Nat /\ \A k \in DOMAIN list : list[k] \in SetType
  BY At
<1>2. Stack(list, own) = s
  BY DEF Stack
<1>3. \A k \in DOMAIN list : s[k] \in StackType /\ s[k].members = list[k].members /\ s[k].custom = own
  BY <1>1 DEF SetType, StackType
<1>4. s = [k \in 1 .. Len(list) |-> s[k]] /\ DOMAIN s = 1 .. Len(list)
  BY <1>1
<1> HIDE DEF s
<1>5. s \in Seq(StackType)
  BY <1>1, <1>3, <1>4, IsASeq
<1>6. Len(s) = Len(list)
  BY <1>1, <1>4, <1>5, LenProperties
<1> QED
  BY <1>2, <1>3, <1>5, <1>6

\* A stack made of what is picked of a list.
LEMMA StackOfPicked ==
  ASSUME NEW list \in Seq(SetType), NEW I \in SUBSET DOMAIN list, NEW own \in BOOLEAN,
         NEW n, n = Cardinality(I), NEW up, up = Ascending(I), NEW s, s = Stack(Picked(list, I), own)
  PROVE  /\ n \in Nat /\ s \in Seq(StackType) /\ Len(s) = n /\ up \in [1 .. n -> I]
         /\ \A k \in 1 .. n : s[k].members = list[up[k]].members /\ s[k].custom = own
         /\ \A i \in I : \E k \in 1 .. n : up[k] = i
         /\ \A j, k \in 1 .. n : j < k <=> up[j] < up[k]
<1> DEFINE a == Picked(list, I)
<1>1. /\ n \in Nat /\ a \in Seq(SetType) /\ DOMAIN a = 1 .. n /\ Len(a) = n
      /\ up \in [1 .. n -> I] /\ \A k \in 1 .. n : a[k] = list[up[k]]
      /\ \A i \in I : \E k \in 1 .. n : up[k] = i
      /\ \A j, k \in 1 .. n : j < k <=> up[j] < up[k]
  BY PickedOK
<1> HIDE DEF a
<1>2. /\ s \in Seq(StackType) /\ Len(s) = n
      /\ \A k \in DOMAIN a : s[k].members = a[k].members /\ s[k].custom = own
  <2>1. s = Stack(a, own)
    BY DEF a
  <2> QED
    BY <1>1, <2>1, StackOK
<1> QED
  BY <1>1, <1>2

\* What Rebuilt puts where: the custom sets in their order, then the detected
\* ones that share nothing with them.
LEMMA RebuiltOK ==
  ASSUME StoreAssumption, NEW sets, SetsSound(sets), NEW c \in SUBSET Props,
         NEW works, works = Works(sets),
         NEW alone, alone = Alone(sets, c),
         NEW n, n = Cardinality(works), NEW m, m = Cardinality(alone),
         NEW up, up = Ascending(works), NEW down, down = Ascending(alone),
         NEW new, new = Rebuilt(sets, c)
  PROVE  Layout(new, sets, works, alone, n, m, up, down)
<1>1. /\ sets \in Seq(SetType) /\ AutoSets \in Seq(SetType)
  BY DEF SetsSound, StoreAssumption, SetType
<1>2. works \in SUBSET DOMAIN sets /\ alone \in SUBSET DOMAIN AutoSets
  BY DEF Works, Alone
<1>3. new = Stack(Picked(sets, works), TRUE) \o Stack(Picked(AutoSets, alone), FALSE)
  <2> DEFINE claimed == UNION {sets[k].members : k \in works}
             rest == {k \in Detected(c) : AutoSets[k].members \cap claimed = {}}
  <2>1. \A k \in DOMAIN AutoSets : AutoSets[k].members \cap claimed = {} <=>
          \A j \in works : sets[j].members \cap AutoSets[k].members = {}
    OBVIOUS
  <2>2. alone = rest
    BY <2>1 DEF Detected, Alone
  <2>3. new = Stack(Picked(sets, works), TRUE) \o Stack(Picked(AutoSets, rest), FALSE)
    BY DEF Rebuilt
  <2> QED
    BY <2>2, <2>3
<1>4. PICK yes \in BOOLEAN, no \in BOOLEAN : yes = TRUE /\ no = FALSE
  OBVIOUS
<1> DEFINE s == Stack(Picked(sets, works), yes)
           t == Stack(Picked(AutoSets, alone), no)
<1>7. /\ n \in Nat /\ s \in Seq(StackType) /\ Len(s) = n /\ up \in [1 .. n -> works]
      /\ \A k \in 1 .. n : s[k].members = sets[up[k]].members /\ s[k].custom = yes
      /\ \A i \in works : \E k \in 1 .. n : up[k] = i
      /\ \A j, k \in 1 .. n : j < k <=> up[j] < up[k]
  BY <1>1, <1>2, StackOfPicked
<1>8. /\ m \in Nat /\ t \in Seq(StackType) /\ Len(t) = m /\ down \in [1 .. m -> alone]
      /\ \A k \in 1 .. m : t[k].members = AutoSets[down[k]].members /\ t[k].custom = no
      /\ \A i \in alone : \E k \in 1 .. m : down[k] = i
      /\ \A j, k \in 1 .. m : j < k <=> down[j] < down[k]
  <2>1. AutoSets \in Seq(SetType) /\ alone \in SUBSET DOMAIN AutoSets /\ no \in BOOLEAN
    BY <1>1, <1>2
  <2>2. t = Stack(Picked(AutoSets, alone), no)
    OBVIOUS
  <2> HIDE DEF t
  <2> QED
    BY <2>1, <2>2, StackOfPicked
<1>9. new = s \o t
  BY <1>3, <1>4
<1> HIDE DEF s, t
<1>5. s \in Seq(StackType) /\ t \in Seq(StackType)
  BY <1>7, <1>8
<1>10. /\ s \o t \in Seq(StackType) /\ Len(s \o t) = Len(s) + Len(t)
       /\ \A i \in 1 .. Len(s) + Len(t) : (s \o t)[i] = IF i <= Len(s) THEN s[i] ELSE t[i - Len(s)]
  BY <1>5, ConcatProperties, Zenon
<1>11. new \in Seq(StackType) /\ DOMAIN new = 1 .. n + m
  BY <1>7, <1>8, <1>9, <1>10, LenProperties
<1>12. \A k \in 1 .. n : new[k] = s[k]
  BY <1>7, <1>8, <1>9, <1>10
<1>13. \A k \in 1 .. m : new[n + k] = t[k]
  <2>1. TAKE k \in 1 .. m
  <2>2. n + k \in 1 .. n + m /\ ~(n + k <= n) /\ n + k - n = k
    BY <1>7, <1>8
  <2>3. (s \o t)[n + k] = t[n + k - n]
    <3> DEFINE i == n + k
    <3>1. i \in 1 .. Len(s) + Len(t) /\ ~(i <= Len(s)) /\ Len(s) = n
      BY <1>7, <1>8, <2>2
    <3> HIDE DEF i
    <3>2. (s \o t)[i] = t[i - Len(s)]
      BY <1>10, <3>1
    <3> QED
      BY <3>1, <3>2 DEF i
  <2> QED
    BY <1>9, <2>2, <2>3
<1>14. \A k \in 1 .. n : new[k].members = sets[up[k]].members /\ new[k].custom = TRUE
  BY <1>4, <1>7, <1>12
<1>15. \A k \in 1 .. m : /\ new[n + k].members = AutoSets[down[k]].members
                        /\ new[n + k].custom = FALSE
  BY <1>4, <1>8, <1>13
<1> QED
  BY <1>2, <1>7, <1>8, <1>11, <1>14, <1>15 DEF Layout

LEMMA LookupOK ==
  ASSUME NEW list \in Seq(StackType), NEW where, where = Lookup(list)
  PROVE  /\ DOMAIN where = UNION {list[k].members : k \in DOMAIN list}
         /\ where \in [DOMAIN where -> DOMAIN list]
         /\ \A p \in DOMAIN where : /\ where[p] \in DOMAIN list /\ p \in list[where[p]].members
                                    /\ \A k \in DOMAIN list : p \in list[k].members => where[p] <= k
         /\ \A k \in DOMAIN list : \A p \in list[k].members : p \in DOMAIN where
<1>1. DOMAIN list = 1 .. Len(list) /\ Len(list) \in Nat
  BY LenProperties
<1> DEFINE D == UNION {list[k].members : k \in DOMAIN list}
           ks(p) == {k \in DOMAIN list : p \in list[k].members}
<1>2. where = [p \in D |-> Min(ks(p))]
  BY DEF Lookup
<1>3. \A p \in D : Min(ks(p)) \in ks(p) /\ \A k \in ks(p) : Min(ks(p)) <= k
  <2>1. TAKE p \in D
  <2>2. ks(p) # {} /\ ks(p) \in SUBSET (1 .. Len(list))
    BY <1>1
  <2>3. IsFiniteSet(1 .. Len(list))
    BY <1>1, FiniteUpTo
  <2>4. IsFiniteSet(ks(p)) /\ ks(p) \in SUBSET Int
    BY <2>2, <2>3, FS_Subset
  <2> DEFINE S == ks(p)
  <2> HIDE DEF S
  <2>5. \E a \in S : \A x \in S : a <= x
    BY <2>2, <2>4, LeastAndGreatest DEF S
  <2>6. Min(S) \in S /\ \A x \in S : Min(S) <= x
    BY <2>5 DEF Min
  <2> QED
    BY <2>6 DEF S
<1>4. \A k \in DOMAIN list : \A p \in list[k].members : p \in D
  OBVIOUS
<1>5. \A p \in D : \A k \in DOMAIN list : k \in ks(p) <=> p \in list[k].members
  OBVIOUS
<1>6. \A p \in D : ks(p) \subseteq DOMAIN list
  OBVIOUS
<1>7. DOMAIN where = D /\ \A p \in D : where[p] = Min(ks(p))
  BY <1>2
<1> DEFINE mk(p) == Min(ks(p))
<1>8. \A p \in D : /\ mk(p) \in DOMAIN list /\ p \in list[mk(p)].members
                   /\ \A k \in DOMAIN list : p \in list[k].members => mk(p) <= k
  BY <1>3
<1>9. where = [p \in D |-> mk(p)]
  BY <1>2
<1>10. D = UNION {list[k].members : k \in DOMAIN list}
  OBVIOUS
<1> HIDE DEF D, mk
<1> QED
  BY <1>4, <1>8, <1>9, <1>10

\* What a prop is painted with by these stacks is what the sets say.
Follows(list, where, sets, c, p) ==
  LET works == {k \in DOMAIN sets : Cardinality(sets[k].members) > 1}
      mine == {k \in works : p \in sets[k].members}
      free == {k \in DOMAIN AutoSets :
                 /\ p \in AutoSets[k].members /\ AutoSets[k].members \subseteq c
                 /\ \A j \in works : sets[j].members \cap AutoSets[k].members = {}}
  IN IF mine = {} /\ free = {} THEN p \notin DOMAIN where
     ELSE /\ p \in DOMAIN where
          /\ list[where[p]].custom = (mine # {})
          /\ list[where[p]].members =
               IF mine # {} THEN sets[Min(mine)].members ELSE AutoSets[Min(free)].members

LEMMA StacksRight ==
  ASSUME StoreAssumption, NEW sets, SetsSound(sets), NEW c \in SUBSET Props,
         NEW list, list = Rebuilt(sets, c), NEW where, where = Lookup(list), NEW p
  PROVE  Follows(list, where, sets, c, p)
<1> DEFINE works == {k \in DOMAIN sets : Cardinality(sets[k].members) > 1}
           mine == {k \in works : p \in sets[k].members}
           free == {k \in DOMAIN AutoSets :
                        /\ p \in AutoSets[k].members /\ AutoSets[k].members \subseteq c
                        /\ \A j \in works : sets[j].members \cap AutoSets[k].members = {}}
<1>1. works = Works(sets)
  <2>1. \A k \in DOMAIN sets : Cardinality(sets[k].members) \in Nat
    <3>1. TAKE k \in DOMAIN sets
    <3>2. sets[k] \in SetType
      BY At DEF SetsSound
    <3>3. IsFiniteSet(sets[k].members)
      BY <3>2, FS_Subset DEF StoreAssumption, SetType
    <3> QED
      BY <3>3, FS_CardinalityType
  <2>2. \A k \in DOMAIN sets : Cardinality(sets[k].members) > 1 <=> Cardinality(sets[k].members) >= 2
    BY <2>1
  <2> QED
    BY <2>2 DEF Works
<1>2. free = {k \in Alone(sets, c) : p \in AutoSets[k].members}
  BY <1>1 DEF Alone
<1> PICK ws, al : ws = Works(sets) /\ al = Alone(sets, c)
  OBVIOUS
<1> PICK n, m, up, down : /\ n = Cardinality(ws) /\ m = Cardinality(al)
                          /\ up = Ascending(ws) /\ down = Ascending(al)
  OBVIOUS
<1>0. Layout(list, sets, ws, al, n, m, up, down)
  BY RebuiltOK
<1>3. /\ list \in Seq(StackType) /\ n \in Nat /\ m \in Nat /\ DOMAIN list = 1 .. n + m
      /\ ws \in SUBSET DOMAIN sets /\ al \in SUBSET DOMAIN AutoSets
      /\ up \in [1 .. n -> ws] /\ down \in [1 .. m -> al]
      /\ \A i \in ws : \E k \in 1 .. n : up[k] = i
      /\ \A i \in al : \E k \in 1 .. m : down[k] = i
      /\ \A j, k \in 1 .. n : j < k <=> up[j] < up[k]
      /\ \A j, k \in 1 .. m : j < k <=> down[j] < down[k]
      /\ \A k \in 1 .. n : list[k].members = sets[up[k]].members
      /\ \A k \in 1 .. m : list[n + k].members = AutoSets[down[k]].members
  BY <1>0 DEF Layout
<1>16. /\ \A k \in 1 .. n : list[k].custom = TRUE
       /\ \A k \in 1 .. m : list[n + k].custom = FALSE
  BY <1>0 DEF Layout
<1>4. mine = {k \in ws : p \in sets[k].members}
  BY <1>1
<1>5. /\ DOMAIN where = UNION {list[k].members : k \in DOMAIN list}
      /\ \A q \in DOMAIN where : /\ where[q] \in DOMAIN list /\ q \in list[where[q]].members
                                 /\ \A k \in DOMAIN list : q \in list[k].members => where[q] <= k
      /\ \A k \in DOMAIN list : \A q \in list[k].members : q \in DOMAIN where
  <2>1. list \in Seq(StackType)
    BY <1>3
  <2> QED
    BY <2>1, LookupOK
<1>6. ASSUME NEW A, NEW s \in Seq(A), NEW S \in SUBSET DOMAIN s, S # {}
      PROVE  Min(S) \in S /\ \A x \in S : Min(S) <= x
  <2>1. DOMAIN s = 1 .. Len(s) /\ Len(s) \in Nat
    BY LenProperties
  <2>2. IsFiniteSet(1 .. Len(s))
    BY <2>1, FiniteUpTo
  <2>3. IsFiniteSet(S) /\ S \in SUBSET Int
    BY <2>1, <2>2, FS_Subset
  <2>4. \E a \in S : \A x \in S : a <= x
    BY <1>6, <2>3, LeastAndGreatest
  <2> QED
    BY <2>4 DEF Min
<1>7. /\ mine \in SUBSET DOMAIN sets /\ free \in SUBSET DOMAIN AutoSets
      /\ \A k \in mine : k \in ws /\ p \in sets[k].members
      /\ \A k \in ws : p \in sets[k].members => k \in mine
      /\ \A k \in free : k \in al /\ p \in AutoSets[k].members
      /\ \A k \in al : p \in AutoSets[k].members => k \in free
  BY <1>2, <1>3, <1>4
<1>8. sets \in Seq(SetType) /\ AutoSets \in Seq(SetType)
  BY DEF SetsSound, StoreAssumption, SetType
<1>9. DOMAIN sets \in SUBSET Int /\ DOMAIN AutoSets \in SUBSET Int
  BY <1>8, LenProperties
<1> HIDE DEF works, mine, free
<1>10. \A k \in DOMAIN list : k \in 1 .. n \/ \E i \in 1 .. m : k = n + i
  <2>1. TAKE k \in DOMAIN list
  <2>2. k \in 1 .. n + m /\ k \in Int
    BY <1>3
  <2>3. CASE k <= n
    BY <1>3, <2>2, <2>3
  <2>4. CASE k > n
    <3>1. k - n \in 1 .. m /\ k = n + (k - n)
      BY <1>3, <2>2, <2>4
    <3> QED
      BY <3>1
  <2> QED
    BY <1>3, <2>2, <2>3, <2>4
<1>11. ASSUME mine # {}
       PROVE  /\ p \in DOMAIN where /\ list[where[p]].custom = TRUE
              /\ list[where[p]].members = sets[Min(mine)].members
  <2> DEFINE a == Min(mine)
  <2>1. a \in mine /\ \A x \in mine : a <= x
    BY <1>6, <1>7, <1>8, <1>11
  <2> HIDE DEF a
  <2>2. PICK k \in 1 .. n : up[k] = a
    BY <1>3, <1>7, <2>1
  <2>3. k \in DOMAIN list /\ p \in list[k].members
    BY <1>3, <1>7, <2>1, <2>2
  <2>4. p \in DOMAIN where
    BY <1>5, <2>3
  <2> DEFINE w == where[p]
  <2>5. w \in DOMAIN list /\ p \in list[w].members /\ w <= k
    BY <1>5, <2>3, <2>4
  <2> HIDE DEF w
  <2>6. w \in 1 .. n
    BY <1>3, <2>2, <2>5
  <2>7. up[w] \in mine /\ up[w] \in Int /\ a \in Int
    BY <1>3, <1>7, <1>9, <2>1, <2>5, <2>6
  <2>8. a <= up[w] /\ ~(w < k)
    BY <1>3, <2>1, <2>2, <2>6, <2>7
  <2>9. w = k
    BY <1>3, <2>2, <2>5, <2>6, <2>8
  <2>10. list[w].members = sets[a].members /\ list[w].custom = TRUE
    BY <1>3, <1>16, <2>2, <2>9
  <2> QED
    BY <2>4, <2>10 DEF w, a
<1>12. ASSUME mine = {}
       PROVE  \A k \in 1 .. n : p \notin list[k].members
  <2>1. ASSUME NEW k \in 1 .. n, p \in list[k].members
        PROVE  FALSE
    <3>1. up[k] \in ws /\ p \in sets[up[k]].members
      BY <1>3, <2>1
    <3> QED
      BY <1>7, <1>12, <3>1
  <2> QED
    BY <2>1
<1>13. ASSUME mine = {}, free # {}
       PROVE  /\ p \in DOMAIN where /\ list[where[p]].custom = FALSE
              /\ list[where[p]].members = AutoSets[Min(free)].members
  <2> DEFINE a == Min(free)
  <2>1. a \in free /\ \A x \in free : a <= x
    BY <1>6, <1>7, <1>8, <1>13
  <2> HIDE DEF a
  <2>2. PICK k \in 1 .. m : down[k] = a
    BY <1>3, <1>7, <2>1
  <2>3. n + k \in DOMAIN list /\ p \in list[n + k].members
    BY <1>3, <1>7, <2>1, <2>2
  <2>4. p \in DOMAIN where
    BY <1>5, <2>3
  <2> DEFINE w == where[p]
  <2>5. w \in DOMAIN list /\ p \in list[w].members /\ w <= n + k
    BY <1>5, <2>3, <2>4
  <2> HIDE DEF w
  <2>6. PICK i \in 1 .. m : w = n + i
    BY <1>10, <1>12, <1>13, <2>5
  <2>7. down[i] \in free /\ down[i] \in Int /\ a \in Int
    <3>1. down[i] \in al /\ p \in AutoSets[down[i]].members
      BY <1>3, <2>5, <2>6
    <3> QED
      BY <1>7, <1>9, <2>1, <3>1
  <2>8. a <= down[i] /\ ~(i < k)
    BY <1>3, <2>1, <2>2, <2>6, <2>7
  <2>9. i = k
    BY <1>3, <2>2, <2>5, <2>6, <2>8
  <2>10. list[w].members = AutoSets[a].members /\ list[w].custom = FALSE
    BY <1>3, <1>16, <2>2, <2>6, <2>9
  <2> QED
    BY <2>4, <2>10 DEF w, a
<1>14. ASSUME mine = {}, free = {}
       PROVE  p \notin DOMAIN where
  <2>1. ASSUME NEW k \in DOMAIN list, p \in list[k].members
        PROVE  FALSE
    <3>1. PICK i \in 1 .. m : k = n + i
      BY <1>10, <1>12, <1>14, <2>1
    <3>2. down[i] \in al /\ p \in AutoSets[down[i]].members
      BY <1>3, <2>1, <3>1
    <3> QED
      BY <1>7, <1>14, <3>2
  <2> QED
    BY <1>5, <2>1
<1>15. IF mine = {} /\ free = {} THEN p \notin DOMAIN where
       ELSE /\ p \in DOMAIN where
            /\ list[where[p]].custom = (mine # {})
            /\ list[where[p]].members =
                 IF mine # {} THEN sets[Min(mine)].members ELSE AutoSets[Min(free)].members
  <2>1. CASE mine # {}
    BY <1>11, <2>1
  <2>2. CASE mine = {} /\ free # {}
    BY <1>13, <2>2
  <2>3. CASE mine = {} /\ free = {}
    BY <1>14, <2>3
  <2> QED
    BY <2>1, <2>2, <2>3
<1> QED
  BY <1>15 DEF works, mine, free, Follows

-----------------------------------------------------------------------------
(* The inductive invariant of the store.                                   *)

MemoryOK == Sound(mem) /\ Within(mem, catalogue)

FileOK == file \in {NoFile, Broken} \/ Sound(file)

FlagsOK ==
  /\ active \in Nat \ {0}
  /\ {session, intact, orderly} \subseteq BOOLEAN /\ catalogue \in SUBSET Props

ActiveOK == session /\ mem.families # <<>> => active \in DOMAIN mem.families

ViewOK ==
  /\ stacks \in Seq(StackType) /\ stackOf = Lookup(stacks)
  /\ session => stacks = Rebuilt(mem.sets, catalogue)

\* Up to the recent paints, the memory is what a session with this catalogue
\* finds in the file; after a shutdown the recent paints are the file's.
Agrees ==
  \/ /\ file = NoFile /\ mem.stars = {} /\ mem.presets = [d \in Decals |-> <<>>]
     /\ mem.families = <<>> /\ mem.sets = <<>>
     /\ orderly /\ ~session => mem.recents = <<>>
  \/ /\ Sound(file) /\ mem.stars = file.stars /\ mem.presets = file.presets
     /\ mem.families = Loaded(file, catalogue).families
     /\ mem.sets = Loaded(file, catalogue).sets
     /\ orderly /\ ~session => mem.recents = file.recents

StoreInv == MemoryOK /\ FileOK /\ FlagsOK /\ ActiveOK /\ ViewOK /\ (intact => Agrees)

\* An edit that replaces one list by a sound one leaves a sound memory.
LEMMA WithOK ==
  ASSUME MemoryOK
  PROVE  /\ \A x, y : StarsSound(x, y) =>
              LET n == WithStars(x, y) IN
              /\ Sound(n) /\ Within(n, catalogue)
              /\ n.families = mem.families /\ n.sets = mem.sets
         /\ \A x : FamiliesSound(x) /\ Holds(x, catalogue) =>
              LET n == WithFamilies(x) IN
              Sound(n) /\ Within(n, catalogue) /\ n.families = x /\ n.sets = mem.sets
         /\ \A x : SetsSound(x) /\ Holds(x, catalogue) =>
              LET n == WithSets(x) IN
              Sound(n) /\ Within(n, catalogue) /\ n.families = mem.families /\ n.sets = x
         /\ \A x : RecentsSound(x) /\ Paintable(x, catalogue) =>
              LET n == WithRecents(x) IN
              /\ Sound(n) /\ Within(n, catalogue) /\ n.families = mem.families
              /\ n.sets = mem.sets /\ n.stars = mem.stars /\ n.presets = mem.presets
<1>1. /\ Sound(mem) /\ Holds(mem.families, catalogue) /\ Holds(mem.sets, catalogue)
      /\ Paintable(mem.recents, catalogue)
  BY DEF MemoryOK, Within
<1>2. ASSUME NEW x, NEW y, StarsSound(x, y)
      PROVE  LET n == WithStars(x, y) IN
             /\ Sound(n) /\ Within(n, catalogue)
             /\ n.families = mem.families /\ n.sets = mem.sets
  BY <1>1, <1>2, FieldsSound DEF WithStars, Within
<1>3. ASSUME NEW x, FamiliesSound(x), Holds(x, catalogue)
      PROVE  LET n == WithFamilies(x) IN
             Sound(n) /\ Within(n, catalogue) /\ n.families = x /\ n.sets = mem.sets
  BY <1>1, <1>3, FieldsSound DEF WithFamilies, Within
<1>4. ASSUME NEW x, SetsSound(x), Holds(x, catalogue)
      PROVE  LET n == WithSets(x) IN
             Sound(n) /\ Within(n, catalogue) /\ n.families = mem.families /\ n.sets = x
  BY <1>1, <1>4, FieldsSound DEF WithSets, Within
<1>5. ASSUME NEW x, RecentsSound(x), Paintable(x, catalogue)
      PROVE  LET n == WithRecents(x) IN
             /\ Sound(n) /\ Within(n, catalogue) /\ n.families = mem.families
             /\ n.sets = mem.sets /\ n.stars = mem.stars /\ n.presets = mem.presets
  BY <1>1, <1>5, FieldsSound DEF WithRecents, Within
<1> QED
  BY <1>2, <1>3, <1>4, <1>5

\* What Save leaves is what the next session finds.
LEMMA EditOK ==
  ASSUME StoreAssumption, StoreInv, NEW new, Edit(new), Sound(new), Within(new, catalogue)
  PROVE  /\ MemoryOK' /\ FileOK' /\ (intact => Agrees)' /\ mem' = new
         /\ session /\ session' = session /\ catalogue' = catalogue
         /\ {session', intact', orderly'} \subseteq BOOLEAN /\ catalogue' \in SUBSET Props
<1>1. /\ mem' = new /\ Save /\ session /\ session' = session /\ catalogue' = catalogue
      /\ orderly' = orderly
  BY DEF Edit
<1>2. MemoryOK'
  BY <1>1 DEF MemoryOK
<1>3. catalogue \in SUBSET Props /\ {session, intact, orderly} \subseteq BOOLEAN
  BY DEF StoreInv, FlagsOK
<1>4. CASE file' = mem' /\ intact' = TRUE
  <2>1. Sound(file') /\ file' = new
    BY <1>1, <1>4
  <2>2. /\ Loaded(new, catalogue).families = new.families
        /\ Loaded(new, catalogue).sets = new.sets
    BY <1>3, LoadedOK DEF Within
  <2>3. Agrees'
    BY <1>1, <2>1, <2>2 DEF Agrees
  <2> QED
    BY <1>1, <1>2, <1>3, <1>4, <2>1, <2>3 DEF FileOK
<1>5. CASE intact /\ intact' = FALSE /\ file' \in {file, Broken}
  <2>1. FileOK'
    BY <1>5 DEF StoreInv, FileOK
  <2> QED
    BY <1>1, <1>2, <1>3, <1>5, <2>1
<1> QED
  BY <1>1, <1>4, <1>5 DEF Save

LEMMA ViewStays ==
  ASSUME StoreInv, Unshown, mem'.sets = mem.sets, session' => session, catalogue' = catalogue
  PROVE  ViewOK'
BY DEF StoreInv, ViewOK, Unshown, view

LEMMA ViewFollows ==
  ASSUME StoreAssumption, SetsSound(mem'.sets), catalogue' \in SUBSET Props,
         Shown(mem'.sets, catalogue')
  PROVE  ViewOK'
<1> DEFINE s == mem'.sets
           c == catalogue'
           new == Rebuilt(s, c)
<1>1. stacks' = new /\ stackOf' = Lookup(stacks')
  BY DEF Shown
<1>2. new \in Seq(StackType)
  <2> PICK ws, al, n, m, up, down : /\ ws = Works(s) /\ al = Alone(s, c)
        /\ n = Cardinality(ws) /\ m = Cardinality(al) /\ up = Ascending(ws) /\ down = Ascending(al)
    OBVIOUS
  <2>1. SetsSound(s) /\ c \in SUBSET Props
    OBVIOUS
  <2> HIDE DEF s, c
  <2>2. Layout(new, s, ws, al, n, m, up, down)
    BY <2>1, RebuiltOK
  <2> QED
    BY <2>2 DEF Layout
<1> QED
  BY <1>1, <1>2 DEF ViewOK

-----------------------------------------------------------------------------
(* Every step keeps it.                                                    *)

\* An edit that leaves families, sets and stacks alone.
LEMMA QuietEdit ==
  ASSUME StoreAssumption, StoreInv, NEW new, Edit(new), Sound(new), Within(new, catalogue),
         new.families = mem.families, new.sets = mem.sets, UNCHANGED active, Unshown
  PROVE  StoreInv'
<1>1. /\ MemoryOK' /\ FileOK' /\ (intact => Agrees)' /\ mem' = new
      /\ session /\ session' = session /\ catalogue' = catalogue
      /\ {session', intact', orderly'} \subseteq BOOLEAN /\ catalogue' \in SUBSET Props
  BY EditOK
<1>2. ViewOK'
  BY <1>1, ViewStays
<1>3. FlagsOK' /\ ActiveOK'
  BY <1>1 DEF StoreInv, FlagsOK, ActiveOK
<1> QED
  BY <1>1, <1>2, <1>3 DEF StoreInv

\* An edit of the families.
LEMMA FamilyEdit ==
  ASSUME StoreAssumption, StoreInv, NEW list, Edit(WithFamilies(list)),
         FamiliesSound(list), Holds(list, catalogue), Unshown,
         active' \in Nat \ {0}, list # <<>> => active' \in DOMAIN list
  PROVE  StoreInv'
<1> DEFINE new == WithFamilies(list)
<1>1. Sound(new) /\ Within(new, catalogue) /\ new.families = list /\ new.sets = mem.sets
  BY WithOK DEF StoreInv
<1> HIDE DEF new
<1>2. /\ MemoryOK' /\ FileOK' /\ (intact => Agrees)' /\ mem' = new
      /\ session /\ session' = session /\ catalogue' = catalogue
      /\ {session', intact', orderly'} \subseteq BOOLEAN /\ catalogue' \in SUBSET Props
  BY <1>1, EditOK DEF new
<1>3. ViewOK'
  BY <1>1, <1>2, ViewStays
<1>4. FlagsOK' /\ ActiveOK'
  BY <1>1, <1>2 DEF FlagsOK, ActiveOK
<1> QED
  BY <1>2, <1>3, <1>4 DEF StoreInv

\* An edit of the sets, with the stacks that follow.
LEMMA SetEdit ==
  ASSUME StoreAssumption, StoreInv, NEW list, Edit(WithSets(list)),
         SetsSound(list), Holds(list, catalogue), UNCHANGED active, ApplySets
  PROVE  StoreInv'
<1> DEFINE new == WithSets(list)
<1>1. Sound(new) /\ Within(new, catalogue) /\ new.families = mem.families /\ new.sets = list
  BY WithOK DEF StoreInv
<1> HIDE DEF new
<1>2. /\ MemoryOK' /\ FileOK' /\ (intact => Agrees)' /\ mem' = new
      /\ session /\ session' = session /\ catalogue' = catalogue
      /\ {session', intact', orderly'} \subseteq BOOLEAN /\ catalogue' \in SUBSET Props
  BY <1>1, EditOK DEF new
<1>3. ViewOK'
  <2>1. Shown(mem'.sets, catalogue') /\ SetsSound(mem'.sets)
    BY <1>1, <1>2 DEF ApplySets
  <2> QED
    BY <1>2, <2>1, ViewFollows
<1>4. FlagsOK' /\ ActiveOK'
  BY <1>1, <1>2 DEF StoreInv, FlagsOK, ActiveOK
<1> QED
  BY <1>2, <1>3, <1>4 DEF StoreInv

LEMMA StarStep ==
  ASSUME StoreAssumption, StoreInv, StarsNext
  PROVE  StoreInv'
<1>1. MemoryOK /\ StarsSound(mem.stars, mem.presets)
  BY DEF StoreInv, MemoryOK, Sound
<1>2. ASSUME NEW x, NEW y, StarsSound(x, y), Edit(WithStars(x, y)), UNCHANGED active, Unshown
      PROVE  StoreInv'
  <2> DEFINE new == WithStars(x, y)
  <2>1. /\ Sound(new) /\ Within(new, catalogue)
        /\ new.families = mem.families /\ new.sets = mem.sets
    BY <1>1, <1>2, WithOK
  <2>2. Edit(new) /\ UNCHANGED active /\ Unshown
    BY <1>2
  <2> HIDE DEF new
  <2> QED
    BY <2>1, <2>2, QuietEdit
<1>3. ASSUME NEW i \in Items, ToggleStar(i)
      PROVE  StoreInv'
  <2>1. UNCHANGED active /\ Unshown
    BY <1>3 DEF ToggleStar
  <2> DEFINE fewer == [d \in Decals |-> IF d = i THEN <<>> ELSE mem.presets[d]]
  <2>2. StarsSound(mem.stars \cup {i}, mem.presets) /\ StarsSound(mem.stars \ {i}, fewer)
    BY <1>1, StarsToggled
  <2>3. CASE i \in mem.stars
    <3>1. Edit(WithStars(mem.stars \ {i}, fewer))
      BY <1>3, <2>3 DEF ToggleStar
    <3> HIDE DEF fewer
    <3> QED
      BY <1>2, <2>1, <2>2, <3>1
  <2>4. CASE i \notin mem.stars
    <3>1. Edit(WithStars(mem.stars \cup {i}, mem.presets))
      BY <1>3, <2>4 DEF ToggleStar
    <3> QED
      BY <1>2, <2>1, <2>2, <3>1
  <2> QED
    BY <2>3, <2>4
<1>4. ASSUME NEW d \in Decals, NEW n \in Names, NEW makeDefault \in BOOLEAN,
             UpsertPreset(d, n, makeDefault)
      PROVE  StoreInv'
  <2> DEFINE list == Normalized(Upserted(mem.presets[d], n, makeDefault))
             stars == mem.stars \cup {d}
             presets == [mem.presets EXCEPT ![d] = list]
  <2>1. Edit(WithStars(stars, presets)) /\ UNCHANGED active /\ Unshown
    BY <1>4 DEF UpsertPreset
  <2>2. PresetsSound(mem.presets[d]) /\ mem.stars \in SUBSET Items /\ d \in Items
    BY <1>1 DEF StarsSound, Items
  <2>3. PresetsSound(list)
    BY <2>2, UpsertedOK
  <2>4. stars \in SUBSET Items /\ mem.stars \subseteq stars /\ d \in stars
    BY <2>2
  <2> HIDE DEF list, stars
  <2>5. StarsSound(stars, presets)
    BY <1>1, <2>3, <2>4, PresetsChanged
  <2> HIDE DEF presets
  <2> QED
    BY <1>2, <2>1, <2>5
<1>5. ASSUME NEW d \in Decals, NEW n \in Names, DeletePreset(d, n)
      PROVE  StoreInv'
  <2> DEFINE old == mem.presets[d]
             I == {k \in DOMAIN old : old[k].name # n}
             list == Normalized(Picked(old, I))
             presets == [mem.presets EXCEPT ![d] = list]
  <2>1. Edit(WithStars(mem.stars, presets)) /\ UNCHANGED active /\ Unshown /\ n \in NamesIn(old)
    BY <1>5 DEF DeletePreset
  <2>2. PresetsSound(old) /\ (old # <<>> => d \in mem.stars) /\ mem.stars \in SUBSET Items
    BY <1>1 DEF StarsSound
  <2>3. I \in SUBSET DOMAIN old
    OBVIOUS
  <2>4. old # <<>>
    <3>1. PICK k \in DOMAIN old : old[k].name = n
      BY <2>1 DEF NamesIn
    <3> QED
      BY <3>1, EmptySeq
  <2> HIDE DEF I
  <2>5. PresetsSound(list)
    BY <2>2, <2>3, DroppedOK
  <2> HIDE DEF list
  <2>6. StarsSound(mem.stars, presets)
    BY <1>1, <2>2, <2>4, <2>5, PresetsChanged
  <2> HIDE DEF presets
  <2> QED
    BY <1>2, <2>1, <2>6
<1> QED
  BY <1>3, <1>4, <1>5 DEF StarsNext

\* A painter was started.
LEMMA Remembered ==
  ASSUME StoreAssumption, StoreInv, NEW entry \in Entry, Remember(entry),
         entry.type \in catalogue, entry.palette \subseteq catalogue
  PROVE  StoreInv'
<1> DEFINE list == Pushed(mem.recents, entry)
           new == WithRecents(list)
<1>1. /\ session /\ mem' = new
      /\ UNCHANGED <<active, file, session, catalogue, view, intact, orderly>>
  BY DEF Remember
<1>2. RecentsSound(mem.recents) /\ Paintable(mem.recents, catalogue) /\ MemoryOK
  BY DEF StoreInv, MemoryOK, Sound, Within
<1>3. RecentsSound(list) /\ Paintable(list, catalogue)
  BY <1>2, PushedOK
<1> HIDE DEF list
<1>4. /\ Sound(new) /\ Within(new, catalogue) /\ new.families = mem.families
      /\ new.sets = mem.sets /\ new.stars = mem.stars /\ new.presets = mem.presets
  BY <1>2, <1>3, WithOK
<1> HIDE DEF new
<1>5. MemoryOK'
  BY <1>1, <1>4 DEF MemoryOK
<1>6. FileOK' /\ FlagsOK' /\ ActiveOK'
  BY <1>1, <1>4 DEF StoreInv, FileOK, FlagsOK, ActiveOK
<1>7. ViewOK'
  BY <1>1, <1>4 DEF StoreInv, ViewOK, view
<1>8. (intact => Agrees)'
  BY <1>1, <1>4 DEF StoreInv, Agrees
<1> QED
  BY <1>5, <1>6, <1>7, <1>8 DEF StoreInv

LEMMA FamilyStep ==
  ASSUME StoreAssumption, StoreInv, FamiliesNext
  PROVE  StoreInv'
<1> DEFINE list == mem.families
<1>1. /\ FamiliesSound(list) /\ Holds(list, catalogue) /\ catalogue \in SUBSET Props
      /\ active \in Nat \ {0} /\ (session /\ list # <<>> => active \in DOMAIN list)
  BY DEF StoreInv, MemoryOK, Sound, Within, FlagsOK, ActiveOK
<1>2. /\ list \in Seq(FamilyType) /\ DOMAIN list = 1 .. Len(list) /\ Len(list) \in Nat
      /\ \A k \in DOMAIN list : list # <<>> /\ k \in Nat \ {0}
                                /\ list[k].members \subseteq catalogue
  <2>1. list \in Seq(FamilyType)
    BY <1>1 DEF FamiliesSound
  <2>2. DOMAIN list = 1 .. Len(list) /\ Len(list) \in Nat
    BY <2>1, LenProperties
  <2>3. \A k \in DOMAIN list : list # <<>>
    BY <2>2, EmptySeq
  <2> QED
    BY <1>1, <2>1, <2>2, <2>3 DEF Holds
<1>3. \A new : Edit(WithFamilies(new)) => mem'.families = new /\ session
  BY DEF Edit, WithFamilies
<1>4. ASSUME NEW n \in Names, n \notin NamesIn(list), NextId(list) <= MaxId,
             NEW members \in SUBSET catalogue,
             Edit(WithFamilies(Append(list, Family(n, members)))),
             active' = Len(mem'.families), Unshown
      PROVE  StoreInv'
  <2> DEFINE new == Append(list, Family(n, members))
  <2>1. FamiliesSound(new) /\ Holds(new, catalogue) /\ Len(new) \in DOMAIN new
    BY <1>1, <1>4, FamilyAppended
  <2>2. Edit(WithFamilies(new))
    BY <1>4
  <2> HIDE DEF new
  <2>3. active' = Len(new)
    BY <1>3, <1>4, <2>2
  <2>4. active' \in DOMAIN new /\ active' \in Nat \ {0}
    <3>1. new \in Seq(FamilyType)
      BY <2>1 DEF FamiliesSound
    <3>2. DOMAIN new = 1 .. Len(new) /\ Len(new) \in Nat
      BY <3>1, LenProperties
    <3> QED
      BY <2>1, <2>3, <3>2
  <2> QED
    BY <1>4, <2>1, <2>2, <2>4, FamilyEdit
<1>5. ASSUME NEW base \in Names, NEW members \in SUBSET catalogue, CreateFamilyWith(base, members)
      PROVE  StoreInv'
  <2>1. PICK n \in Fresh(list, base) : Edit(WithFamilies(Append(list, Family(n, members))))
    BY <1>5 DEF CreateFamilyWith
  <2>2. NextId(list) <= MaxId /\ active' = Len(mem'.families) /\ Unshown
    BY <1>5 DEF CreateFamilyWith
  <2>3. n \in Names /\ n \notin NamesIn(list)
    BY <2>1 DEF Fresh
  <2> QED
    BY <1>4, <2>1, <2>2, <2>3
<1>6. ASSUME NEW n \in Names, CreateFamily(n)
      PROVE  StoreInv'
  <2>1. {} \in SUBSET catalogue
    OBVIOUS
  <2>2. /\ n \notin NamesIn(list) /\ NextId(list) <= MaxId
        /\ Edit(WithFamilies(Append(list, Family(n, {}))))
        /\ active' = Len(mem'.families) /\ Unshown
    BY <1>6 DEF CreateFamily
  <2> QED
    BY <1>4, <2>1, <2>2
<1>7. ASSUME NEW k \in DOMAIN list, DeleteFamily(k)
      PROVE  StoreInv'
  <2> DEFINE new == RemoveAt(list, k)
  <2>1. Edit(WithFamilies(new)) /\ active' = Clamp(mem'.families, active) /\ Unshown
    BY <1>7 DEF DeleteFamily
  <2>2. FamiliesSound(new) /\ Holds(new, catalogue)
    BY <1>1, FamilyRemoved
  <2> HIDE DEF new
  <2>3. active' = Clamp(new, active)
    BY <1>3, <2>1
  <2>4. new \in Seq(FamilyType)
    BY <2>2 DEF FamiliesSound
  <2>5. DOMAIN new = 1 .. Len(new) /\ Len(new) \in Nat
    BY <2>4, LenProperties
  <2>6. active' \in Nat \ {0} /\ (new # <<>> => active' \in DOMAIN new)
    <3>1. CASE new = <<>>
      BY <2>3, <3>1 DEF Clamp
    <3>2. CASE new # <<>>
      <4>1. Len(new) # 0
        BY <2>4, <3>2, EmptySeq
      <4>2. Min({active, Len(new)}) = IF active <= Len(new) THEN active ELSE Len(new)
        BY <1>1, <2>5, LesserOfTwo
      <4>3. active' = Min({active, Len(new)})
        BY <2>3, <3>2 DEF Clamp
      <4> QED
        BY <1>1, <2>5, <4>1, <4>2, <4>3
    <3> QED
      BY <3>1, <3>2
  <2> QED
    BY <2>1, <2>2, <2>6, FamilyEdit
<1>8. ASSUME NEW k \in DOMAIN list, NEW n \in Names, RenameFamily(k, n)
      PROVE  StoreInv'
  <2> DEFINE new == RenamedFamily(k, n)
  <2>1. Edit(WithFamilies(new)) /\ active' = active /\ Unshown /\ n \notin NamesIn(RemoveAt(list, k))
    BY <1>8 DEF RenameFamily
  <2>2. FamiliesSound(new) /\ Holds(new, catalogue) /\ DOMAIN new = DOMAIN list
    BY <1>1, <2>1, FamilyRenamed
  <2> HIDE DEF new
  <2>3. active' \in Nat \ {0} /\ (new # <<>> => active' \in DOMAIN new)
    BY <1>1, <1>2, <1>3, <2>1, <2>2
  <2> QED
    BY <2>1, <2>2, <2>3, FamilyEdit
<1>9. ASSUME NEW k \in DOMAIN list, NEW members \in SUBSET catalogue,
             Edit(WithFamilies(FamilyHolding(k, members))), Unshown, active' \in {active, k}
      PROVE  StoreInv'
  <2> DEFINE new == FamilyHolding(k, members)
  <2>1. Edit(WithFamilies(new))
    BY <1>9
  <2>2. FamiliesSound(new) /\ Holds(new, catalogue) /\ DOMAIN new = DOMAIN list
    BY <1>1, FamilyFilled
  <2> HIDE DEF new
  <2>3. active' \in Nat \ {0} /\ (new # <<>> => active' \in DOMAIN new)
    BY <1>1, <1>2, <1>3, <1>9, <2>1, <2>2
  <2> QED
    BY <1>9, <2>1, <2>2, <2>3, FamilyEdit
<1>10. ASSUME NEW k \in DOMAIN list, NEW p \in Props, AddToFamily(p, k)
       PROVE  StoreInv'
  <2> DEFINE members == list[k].members \cup {p}
  <2>1. Edit(WithFamilies(FamilyHolding(k, members))) /\ active' = k /\ Unshown /\ p \in catalogue
    BY <1>10 DEF AddToFamily
  <2>2. members \in SUBSET catalogue
    BY <1>2, <2>1
  <2> HIDE DEF members
  <2> QED
    BY <1>9, <2>1, <2>2
<1>11. ASSUME NEW k \in DOMAIN list, NEW p \in Props, RemoveFromFamily(p, k)
       PROVE  StoreInv'
  <2> DEFINE members == list[k].members \ {p}
  <2>1. Edit(WithFamilies(FamilyHolding(k, members))) /\ active' = active /\ Unshown
    BY <1>11 DEF RemoveFromFamily
  <2>2. members \in SUBSET catalogue
    BY <1>2
  <2> HIDE DEF members
  <2> QED
    BY <1>9, <2>1, <2>2
<1>12. ASSUME NEW k \in DOMAIN list, PaintFamily(k)
       PROVE  StoreInv'
  <2>1. PICK p \in list[k].members :
          Remember([source |-> <<"family", list[k].id>>, type |-> p, palette |-> list[k].members])
    BY <1>12 DEF PaintFamily, PaintPalette
  <2> DEFINE e == [source |-> <<"family", list[k].id>>, type |-> p, palette |-> list[k].members]
  <2>2. list[k] \in FamilyType
    BY <1>2, At
  <2>3. list[k].id \in 1 .. MaxId /\ list[k].members \in SUBSET Props
    BY <2>2 DEF FamilyType
  <2>4. <<"family", list[k].id>> \in Sources
    BY <2>3 DEF Sources
  <2>5. e \in Entry /\ e.type = p /\ e.palette = list[k].members
    BY <2>3, <2>4 DEF Entry
  <2>6. Remember(e)
    BY <2>1
  <2> HIDE DEF e
  <2> QED
    BY <1>2, <2>1, <2>5, <2>6, Remembered
<1>13. CASE \E n \in Names :
             \/ CreateFamily(n)
             \/ \E p \in Props : CreateFamilyWith(n, {p} \cap catalogue)
             \/ \E f \in GameFamilies : f \cap catalogue # {} /\ CreateFamilyWith(n, f \cap catalogue)
  <2>1. PICK n \in Names :
             \/ CreateFamily(n)
             \/ \E p \in Props : CreateFamilyWith(n, {p} \cap catalogue)
             \/ \E f \in GameFamilies : f \cap catalogue # {} /\ CreateFamilyWith(n, f \cap catalogue)
    BY <1>13
  <2>2. CASE CreateFamily(n)
    BY <1>6, <2>2
  <2>3. CASE \E p \in Props : CreateFamilyWith(n, {p} \cap catalogue)
    BY <1>5, <2>3
  <2>4. CASE \E f \in GameFamilies : f \cap catalogue # {} /\ CreateFamilyWith(n, f \cap catalogue)
    BY <1>5, <2>4
  <2> QED
    BY <2>1, <2>2, <2>3, <2>4
<1> QED
  BY <1>7, <1>8, <1>10, <1>11, <1>12, <1>13 DEF FamiliesNext

\* A stack that is not custom is a detected set that the catalogue holds.
LEMMA DetectedIsThere ==
  ASSUME StoreAssumption, StoreInv, session, NEW k \in DOMAIN stacks, ~stacks[k].custom
  PROVE  stacks[k].name \in Names /\ stacks[k].members \in SUBSET catalogue
<1>1. /\ stacks \in Seq(StackType) /\ stacks = Rebuilt(mem.sets, catalogue)
      /\ SetsSound(mem.sets) /\ catalogue \in SUBSET Props
  BY DEF StoreInv, ViewOK, MemoryOK, Sound, FlagsOK
<1>2. stacks[k] \in StackType
  BY <1>1, At
<1> PICK ws, al, n, m, up, down :
      /\ ws = Works(mem.sets) /\ al = Alone(mem.sets, catalogue)
      /\ n = Cardinality(ws) /\ m = Cardinality(al) /\ up = Ascending(ws) /\ down = Ascending(al)
  OBVIOUS
<1>3. Layout(stacks, mem.sets, ws, al, n, m, up, down)
  BY <1>1, RebuiltOK
<1>4. k \in 1 .. n + m /\ n \in Nat /\ m \in Nat /\ ~(k \in 1 .. n)
  BY <1>3 DEF Layout
<1>5. k - n \in 1 .. m /\ n + (k - n) = k
  BY <1>4
<1> DEFINE i == k - n
<1>6. down[i] \in al /\ stacks[n + i].members = AutoSets[down[i]].members
  BY <1>3, <1>5 DEF Layout
<1>7. stacks[k].members \subseteq catalogue
  BY <1>5, <1>6 DEF Alone
<1> QED
  BY <1>2, <1>7 DEF StackType

LEMMA SetStep ==
  ASSUME StoreAssumption, StoreInv, SetsNext
  PROVE  StoreInv'
<1> DEFINE list == mem.sets
<1>1. SetsSound(list) /\ Holds(list, catalogue) /\ catalogue \in SUBSET Props
  BY DEF StoreInv, MemoryOK, Sound, Within, FlagsOK
<1>2. \A k \in DOMAIN list : list[k].members \subseteq catalogue
  BY <1>1 DEF Holds
<1>3. ASSUME NEW n \in Names, n \notin NamesIn(list), NEW members \in SUBSET catalogue,
             Edit(WithSets(Append(list, [name |-> n, members |-> members]))),
             UNCHANGED active, ApplySets
      PROVE  StoreInv'
  <2> DEFINE new == Append(list, [name |-> n, members |-> members])
  <2>1. SetsSound(new) /\ Holds(new, catalogue)
    BY <1>1, <1>3, SetAppended
  <2>2. Edit(WithSets(new))
    BY <1>3
  <2> HIDE DEF new
  <2> QED
    BY <1>3, <2>1, <2>2, SetEdit
<1>4. ASSUME NEW n \in Names, CreateSet(n)
      PROVE  StoreInv'
  <2>1. {} \in SUBSET catalogue
    OBVIOUS
  <2>2. /\ n \notin NamesIn(list) /\ Edit(WithSets(Append(list, [name |-> n, members |-> {}])))
        /\ UNCHANGED active /\ ApplySets
    BY <1>4 DEF CreateSet
  <2> QED
    BY <1>3, <2>1, <2>2
<1>5. ASSUME NEW base \in Names, NEW members \in SUBSET catalogue, CreateSetWith(base, members)
      PROVE  StoreInv'
  <2>1. PICK n \in Fresh(list, base) :
          Edit(WithSets(Append(list, [name |-> n, members |-> members])))
    BY <1>5 DEF CreateSetWith
  <2>2. UNCHANGED active /\ ApplySets
    BY <1>5 DEF CreateSetWith
  <2>3. n \in Names /\ n \notin NamesIn(list)
    BY <2>1 DEF Fresh
  <2> QED
    BY <1>3, <2>1, <2>2, <2>3
<1>6. ASSUME NEW n \in Names, NEW p \in Props, NewSetFromProp(p, n)
      PROVE  StoreInv'
  <2>1. {p} \in SUBSET catalogue /\ CreateSetWith(n, {p})
    BY <1>6 DEF NewSetFromProp
  <2> QED
    BY <1>5, <2>1
<1>7. ASSUME NEW p \in Props, ConvertSet(p)
      PROVE  StoreInv'
  <2> DEFINE k == stackOf[p]
  <2>1. p \in DOMAIN stackOf /\ ~stacks[k].custom /\ CreateSetWith(stacks[k].name, stacks[k].members)
    BY <1>7 DEF ConvertSet
  <2>2. stacks \in Seq(StackType) /\ stackOf = Lookup(stacks)
    BY DEF StoreInv, ViewOK
  <2>3. k \in DOMAIN stacks
    BY <2>1, <2>2, LookupOK
  <2>4. session
    BY <2>1 DEF CreateSetWith, Edit
  <2> HIDE DEF k
  <2>5. stacks[k].name \in Names /\ stacks[k].members \in SUBSET catalogue
    BY <2>1, <2>3, <2>4, DetectedIsThere
  <2> QED
    BY <1>5, <2>1, <2>5
<1>8. ASSUME NEW k \in DOMAIN list, DeleteSet(k)
      PROVE  StoreInv'
  <2> DEFINE new == RemoveAt(list, k)
  <2>1. Edit(WithSets(new)) /\ UNCHANGED active /\ ApplySets
    BY <1>8 DEF DeleteSet
  <2>2. SetsSound(new) /\ Holds(new, catalogue)
    BY <1>1, SetRemoved
  <2> HIDE DEF new
  <2> QED
    BY <2>1, <2>2, SetEdit
<1>9. ASSUME NEW k \in DOMAIN list, NEW n \in Names, RenameSet(k, n)
      PROVE  StoreInv'
  <2> DEFINE new == RenamedSet(k, n)
  <2>1. Edit(WithSets(new)) /\ UNCHANGED active /\ ApplySets /\ n \notin NamesIn(RemoveAt(list, k))
    BY <1>9 DEF RenameSet
  <2>2. SetsSound(new) /\ Holds(new, catalogue)
    BY <1>1, <2>1, SetRenamed
  <2> HIDE DEF new
  <2> QED
    BY <2>1, <2>2, SetEdit
<1>10. ASSUME NEW k \in DOMAIN list, NEW members \in SUBSET catalogue,
              Edit(WithSets(SetHolding(k, members))), UNCHANGED active, ApplySets
       PROVE  StoreInv'
  <2> DEFINE new == SetHolding(k, members)
  <2>1. Edit(WithSets(new))
    BY <1>10
  <2>2. SetsSound(new) /\ Holds(new, catalogue)
    BY <1>1, SetFilled
  <2> HIDE DEF new
  <2> QED
    BY <1>10, <2>1, <2>2, SetEdit
<1>11. ASSUME NEW k \in DOMAIN list, NEW p \in Props, AddToSet(p, k)
       PROVE  StoreInv'
  <2> DEFINE members == list[k].members \cup {p}
  <2>1. Edit(WithSets(SetHolding(k, members))) /\ UNCHANGED active /\ ApplySets /\ p \in catalogue
    BY <1>11 DEF AddToSet
  <2>2. members \in SUBSET catalogue
    BY <1>2, <2>1
  <2> HIDE DEF members
  <2> QED
    BY <1>10, <2>1, <2>2
<1>12. ASSUME NEW k \in DOMAIN list, NEW p \in Props, RemoveFromSet(p, k)
       PROVE  StoreInv'
  <2> DEFINE members == list[k].members \ {p}
  <2>1. Edit(WithSets(SetHolding(k, members))) /\ UNCHANGED active /\ ApplySets
    BY <1>12 DEF RemoveFromSet
  <2>2. members \in SUBSET catalogue
    BY <1>2
  <2> HIDE DEF members
  <2> QED
    BY <1>10, <2>1, <2>2
<1> QED
  BY <1>4, <1>6, <1>7, <1>8, <1>9, <1>11, <1>12 DEF SetsNext

-----------------------------------------------------------------------------
(* The other steps.                                                        *)

\* The painters that start from a prop, a built-in family or a recent paint.
LEMMA PaintStep ==
  ASSUME StoreAssumption, StoreInv,
         \/ \E p \in Props : PaintProp(p)
         \/ \E f \in GameFamilies : PaintGameFamily(f)
         \/ \E k \in DOMAIN mem.recents : PaintRecent(k)
  PROVE  StoreInv'
<1>1. RecentsSound(mem.recents) /\ Paintable(mem.recents, catalogue) /\ catalogue \in SUBSET Props
  BY DEF StoreInv, MemoryOK, Sound, Within, FlagsOK
<1>2. ASSUME NEW p \in Props, PaintProp(p)
      PROVE  StoreInv'
  <2> DEFINE e == [source |-> <<"prop", p>>, type |-> p, palette |-> {}]
  <2>1. p \in catalogue /\ Remember(e)
    BY <1>2 DEF PaintProp
  <2>2. <<"prop", p>> \in Sources
    BY DEF Sources
  <2>3. e \in Entry /\ e.type = p /\ e.palette = {}
    BY <2>2 DEF Entry
  <2> HIDE DEF e
  <2> QED
    BY <2>1, <2>3, Remembered
<1>3. ASSUME NEW f \in GameFamilies, PaintGameFamily(f)
      PROVE  StoreInv'
  <2> DEFINE members == f \cap catalogue
  <2>1. PICK p \in members : Remember([source |-> <<"builtin", f>>, type |-> p, palette |-> members])
    BY <1>3 DEF PaintGameFamily, PaintPalette
  <2> DEFINE e == [source |-> <<"builtin", f>>, type |-> p, palette |-> members]
  <2>2. <<"builtin", f>> \in Sources
    BY DEF Sources
  <2>3. members \in SUBSET Props /\ members \subseteq catalogue /\ p \in catalogue /\ p \in Props
    BY <1>1, <2>1
  <2>4. Remember(e)
    BY <2>1
  <2> HIDE DEF members
  <2>5. e \in Entry /\ e.type = p /\ e.palette = members
    BY <2>2, <2>3 DEF Entry
  <2> HIDE DEF e
  <2> QED
    BY <2>3, <2>4, <2>5, Remembered
<1>4. ASSUME NEW k \in DOMAIN mem.recents, PaintRecent(k)
      PROVE  StoreInv'
  <2> DEFINE e == mem.recents[k]
  <2>1. Remember(e)
    BY <1>4 DEF PaintRecent
  <2>2. e \in Entry
    BY <1>1, At DEF RecentsSound
  <2>3. e.type \in catalogue /\ e.palette \subseteq catalogue
    BY <1>1 DEF Paintable
  <2> HIDE DEF e
  <2> QED
    BY <2>1, <2>2, <2>3, Remembered
<1> QED
  BY <1>2, <1>3, <1>4

LEMMA SaveStep ==
  ASSUME StoreAssumption, StoreInv, SaveAgain
  PROVE  StoreInv'
<1>1. Sound(mem) /\ Within(mem, catalogue)
  BY DEF StoreInv, MemoryOK
<1>2. Edit(mem) /\ UNCHANGED active /\ Unshown
  BY DEF SaveAgain
<1> QED
  BY <1>1, <1>2, QuietEdit

\* A session that ends leaves what the next one needs, when it can save.
LEMMA EndStep ==
  ASSUME StoreAssumption, StoreInv, Shutdown \/ Crash
  PROVE  StoreInv'
<1>1. /\ Sound(mem) /\ Within(mem, catalogue) /\ catalogue \in SUBSET Props
      /\ {session, intact, orderly} \subseteq BOOLEAN
  BY DEF StoreInv, MemoryOK, FlagsOK
<1>2. CASE Shutdown
  <2>1. /\ session' = FALSE /\ orderly' = TRUE /\ mem' = mem /\ Save
        /\ UNCHANGED <<active, catalogue, view>>
    BY <1>2 DEF Shutdown
  <2>2. MemoryOK' /\ ActiveOK' /\ ViewOK'
    BY <2>1 DEF StoreInv, MemoryOK, ActiveOK, ViewOK, view
  <2>3. CASE file' = mem' /\ intact' = TRUE
    <3>1. /\ Loaded(mem, catalogue).families = mem.families
          /\ Loaded(mem, catalogue).sets = mem.sets
      BY <1>1, LoadedOK DEF Within
    <3>2. Agrees'
      BY <1>1, <2>1, <2>3, <3>1 DEF Agrees
    <3>3. FileOK' /\ FlagsOK'
      BY <1>1, <2>1, <2>3 DEF StoreInv, FileOK, FlagsOK
    <3> QED
      BY <2>2, <3>2, <3>3 DEF StoreInv
  <2>4. CASE intact /\ intact' = FALSE /\ file' \in {file, Broken}
    <3>1. FileOK' /\ FlagsOK'
      BY <1>1, <2>1, <2>4 DEF StoreInv, FileOK, FlagsOK
    <3> QED
      BY <2>2, <2>4, <3>1 DEF StoreInv
  <2> QED
    BY <2>1, <2>3, <2>4 DEF Save
<1>3. CASE Crash
  <2>1. /\ session' = FALSE /\ orderly' = FALSE
        /\ UNCHANGED <<mem, active, file, catalogue, view, intact>>
    BY <1>3 DEF Crash
  <2>2. MemoryOK' /\ FileOK' /\ FlagsOK' /\ ActiveOK'
    BY <2>1 DEF StoreInv, MemoryOK, FileOK, FlagsOK, ActiveOK
  <2>3. ViewOK'
    BY <2>1 DEF StoreInv, ViewOK, view
  <2>4. (intact => Agrees)'
    BY <2>1 DEF StoreInv, Agrees
  <2> QED
    BY <2>2, <2>3, <2>4 DEF StoreInv
<1> QED
  BY <1>2, <1>3

LEMMA EmptyIs ==
  /\ Empty.stars = {} /\ Empty.presets = [d \in Decals |-> <<>>] /\ Empty.families = <<>>
  /\ Empty.sets = <<>> /\ Empty.recents = <<>>
BY DEF Empty

\* The file is read, or the memory stays empty.
LEMMA StartStep ==
  ASSUME StoreAssumption, StoreInv, NEW c \in Catalogues, Start(c)
  PROVE  StoreInv'
<1>1. /\ session' = TRUE /\ catalogue' = c /\ active' = 1 /\ file' = file /\ orderly' = orderly
      /\ Shown(mem'.sets, c)
  BY DEF Start
<1>2. c \in SUBSET Props /\ orderly \in BOOLEAN /\ FileOK
  BY DEF StoreAssumption, StoreInv, FlagsOK
<1>3. ASSUME Sound(mem'), Within(mem', c), intact' \in BOOLEAN, (intact => Agrees)'
      PROVE  StoreInv'
  <2>1. MemoryOK' /\ FileOK' /\ FlagsOK'
    BY <1>1, <1>2, <1>3 DEF MemoryOK, FileOK, FlagsOK
  <2>2. SetsSound(mem'.sets)
    BY <1>3 DEF Sound
  <2>3. ViewOK'
    BY <1>1, <1>2, <2>2, ViewFollows
  <2>4. ActiveOK'
    <3>1. mem'.families \in Seq(FamilyType)
      BY <1>3 DEF Sound, FamiliesSound
    <3>2. mem'.families # <<>> => 1 \in DOMAIN mem'.families
      BY <3>1, LenProperties, EmptySeq
    <3> QED
      BY <1>1, <3>2 DEF ActiveOK
  <2> QED
    BY <1>3, <2>1, <2>3, <2>4 DEF StoreInv
<1>4. CASE file \notin {NoFile, Broken} /\ mem' = Loaded(file, c) /\ intact' = TRUE
  <2>1. Sound(file)
    BY <1>2, <1>4 DEF FileOK
  <2>2. /\ Sound(mem') /\ Within(mem', c) /\ mem'.stars = file.stars
        /\ mem'.presets = file.presets
    BY <1>2, <1>4, <2>1, LoadedOK
  <2>3. Agrees'
    BY <1>1, <1>4, <2>1, <2>2 DEF Agrees
  <2> QED
    BY <1>3, <1>4, <2>2, <2>3
<1>5. CASE mem' = Empty /\ intact' = (file = NoFile)
  <2>1. Sound(mem') /\ Within(mem', c)
    BY <1>5, EmptyOK
  <2>2. intact' \in BOOLEAN
    BY <1>5
  <2>3. (intact => Agrees)'
    BY <1>1, <1>5, EmptyIs DEF Agrees
  <2> QED
    BY <1>3, <2>1, <2>2, <2>3
<1> QED
  BY <1>4, <1>5 DEF Start

LEMMA InitOK ==
  ASSUME StoreAssumption, Init
  PROVE  StoreInv
<1>1. /\ mem = Empty /\ active = 1 /\ file = NoFile /\ session = FALSE /\ catalogue = {}
      /\ stacks = <<>> /\ stackOf = <<>> /\ intact = TRUE /\ orderly = TRUE
  BY DEF Init
<1>2. MemoryOK
  BY <1>1, EmptyOK DEF MemoryOK
<1>3. FileOK /\ FlagsOK /\ ActiveOK
  <2>1. FileOK /\ ActiveOK
    BY <1>1 DEF FileOK, ActiveOK
  <2>2. active \in Nat \ {0} /\ catalogue \in SUBSET Props
    BY <1>1
  <2>3. session \in BOOLEAN /\ intact \in BOOLEAN /\ orderly \in BOOLEAN
    BY <1>1, Zenon
  <2> QED
    BY <2>1, <2>2, <2>3 DEF FlagsOK
<1>4. Agrees
  BY <1>1, EmptyIs DEF Agrees
<1>5. stacks \in Seq(StackType) /\ DOMAIN stacks = {}
  BY <1>1, EmptySeq
<1>6. stackOf = Lookup(stacks)
  <2>1. DOMAIN Lookup(stacks) = {}
    BY <1>5 DEF Lookup
  <2>2. Lookup(stacks) = [p \in {} |-> Min({k \in DOMAIN stacks : p \in stacks[k].members})]
    BY <1>5 DEF Lookup
  <2>3. <<>> = [p \in {} |-> Min({k \in DOMAIN stacks : p \in stacks[k].members})]
    OBVIOUS
  <2> QED
    BY <1>1, <2>2, <2>3
<1> QED
  BY <1>1, <1>2, <1>3, <1>4, <1>5, <1>6 DEF StoreInv, ViewOK

LEMMA NextOK ==
  ASSUME StoreAssumption, StoreInv, [Next]_vars
  PROVE  StoreInv'
<1>1. CASE UNCHANGED vars
  <2>1. UNCHANGED <<mem, active, file, session, catalogue, stacks, stackOf, intact, orderly>>
    BY <1>1 DEF vars, view
  <2>2. MemoryOK' /\ FileOK' /\ FlagsOK' /\ ActiveOK'
    BY <2>1 DEF StoreInv, MemoryOK, FileOK, FlagsOK, ActiveOK
  <2>3. ViewOK' /\ (intact => Agrees)'
    BY <2>1 DEF StoreInv, ViewOK, Agrees
  <2> QED
    BY <2>2, <2>3 DEF StoreInv
<1>2. CASE StarsNext
  BY <1>2, StarStep
<1>3. CASE FamiliesNext
  BY <1>3, FamilyStep
<1>4. CASE SetsNext
  BY <1>4, SetStep
<1>5. CASE \/ \E p \in Props : PaintProp(p)
           \/ \E f \in GameFamilies : PaintGameFamily(f)
           \/ \E k \in DOMAIN mem.recents : PaintRecent(k)
  BY <1>5, PaintStep
<1>6. CASE SaveAgain
  BY <1>6, SaveStep
<1>7. CASE Shutdown \/ Crash
  BY <1>7, EndStep
<1>8. CASE \E c \in Catalogues : Start(c)
  BY <1>8, StartStep
<1> QED
  BY <1>1, <1>2, <1>3, <1>4, <1>5, <1>6, <1>7, <1>8 DEF Next

\* What the memory, the file and the stacks hold belongs together, whatever is
\* edited and wherever a session ends.
THEOREM StoreInvariant == Spec => []StoreInv
<1>1. Init => StoreInv
  BY StoreAssumption, InitOK
<1>2. StoreInv /\ [Next]_vars => StoreInv'
  BY StoreAssumption, NextOK
<1> QED
  BY <1>1, <1>2, PTL DEF Spec

-----------------------------------------------------------------------------
(* What the store promises.                                                *)

\* Of presets that are sound and not none, one is the default.
LEMMA OneDefault ==
  ASSUME NEW list, PresetsSound(list), list # <<>>
  PROVE  Cardinality({k \in DOMAIN list : list[k].default}) = 1
<1>1. PICK c \in DOMAIN list : \A k \in DOMAIN list : list[k].default = (k = c)
  BY DEF PresetsSound
<1>2. {k \in DOMAIN list : list[k].default} = {c}
  BY <1>1
<1> QED
  BY <1>2, FS_Singleton

\* In every session the names, the ids, the defaults, the recent paints and the
\* active index are sound, whatever is edited, loaded or lost with the file.
THEOREM CuratedTheorem == Spec => []CuratedSound
<1>1. ASSUME StoreAssumption, StoreInv
      PROVE  CuratedSound
  <2>1. TypeOK
    <3>1. mem \in Contents /\ file \in {NoFile, Broken} \cup Contents
      BY <1>1 DEF StoreInv, MemoryOK, FileOK, Sound
    <3>2. /\ active \in Nat \ {0} /\ {session, intact, orderly} \subseteq BOOLEAN
          /\ catalogue \subseteq Props
      BY <1>1 DEF StoreInv, FlagsOK
    <3>3. stackOf \in [DOMAIN stackOf -> DOMAIN stacks]
      BY <1>1, LookupOK DEF StoreInv, ViewOK
    <3> QED
      BY <3>1, <3>2, <3>3 DEF TypeOK
  <2>2. /\ FamiliesSound(mem.families) /\ SetsSound(mem.sets) /\ RecentsSound(mem.recents)
        /\ StarsSound(mem.stars, mem.presets) /\ Paintable(mem.recents, catalogue)
    BY <1>1 DEF StoreInv, MemoryOK, Sound, Within
  <2>3. \A d \in Decals : mem.presets[d] # <<>> =>
            /\ d \in mem.stars /\ NamedApart(mem.presets[d])
            /\ Cardinality({k \in DOMAIN mem.presets[d] : mem.presets[d][k].default}) = 1
    <3>1. TAKE d \in Decals
    <3>2. HAVE mem.presets[d] # <<>>
    <3>3. PresetsSound(mem.presets[d]) /\ d \in mem.stars
      BY <2>2, <3>2 DEF StarsSound
    <3>4. Cardinality({k \in DOMAIN mem.presets[d] : mem.presets[d][k].default}) = 1
      BY <3>2, <3>3, OneDefault
    <3>5. NamedApart(mem.presets[d])
      BY <3>3 DEF PresetsSound
    <3> QED
      BY <3>3, <3>4, <3>5
  <2>4. /\ NamedApart(mem.families) /\ NamedApart(mem.sets)
        /\ \A j, k \in DOMAIN mem.families : mem.families[j].id = mem.families[k].id => j = k
        /\ Len(mem.recents) <= MaxRecents
        /\ \A j, k \in DOMAIN mem.recents : mem.recents[j].source = mem.recents[k].source => j = k
        /\ \A k \in DOMAIN mem.recents :
             mem.recents[k].type \in catalogue /\ mem.recents[k].palette \subseteq catalogue
    BY <2>2 DEF FamiliesSound, SetsSound, RecentsSound, Paintable
  <2>5. session /\ mem.families # <<>> => active \in DOMAIN mem.families
    BY <1>1 DEF StoreInv, ActiveOK
  <2> QED
    BY <2>1, <2>3, <2>4, <2>5 DEF CuratedSound
<1> QED
  BY StoreAssumption, StoreInvariant, <1>1, PTL

\* Throughout a session each prop is painted and stripped with the stack that
\* the sets of that moment give it, custom before detected.
THEOREM StacksTheorem == Spec => []StacksFollowSets
<1>1. ASSUME StoreAssumption, StoreInv
      PROVE  StacksFollowSets
  <2>1. SUFFICES ASSUME session
                 PROVE  StacksFollowSets
    BY DEF StacksFollowSets
  <2>2. /\ SetsSound(mem.sets) /\ catalogue \in SUBSET Props
        /\ stacks = Rebuilt(mem.sets, catalogue) /\ stackOf = Lookup(stacks)
    BY <1>1, <2>1 DEF StoreInv, MemoryOK, Sound, FlagsOK, ViewOK
  <2>3. \A p \in Props : Follows(stacks, stackOf, mem.sets, catalogue, p)
    BY <1>1, <2>2, StacksRight
  <2> QED
    BY <2>1, <2>3 DEF StacksFollowSets, Follows
<1> QED
  BY StoreAssumption, StoreInvariant, <1>1, PTL

\* Two lists loaded from one file by sessions that find other props.
LEMMA BothFromTheFile ==
  ASSUME NEW m, NEW before, NEW after, NEW old, NEW new,
         old = Loaded(m, before), new = Loaded(m, after)
  PROVE  /\ SameUpToMissing(old.families, new.families, before, after)
         /\ SameUpToMissing(old.sets, new.sets, before, after)
<1>1. /\ DOMAIN old.families = DOMAIN m.families /\ DOMAIN new.families = DOMAIN m.families
      /\ DOMAIN old.sets = DOMAIN m.sets /\ DOMAIN new.sets = DOMAIN m.sets
  BY DEF Loaded
<1>2. \A k \in DOMAIN m.families :
        /\ old.families[k].name = m.families[k].name
        /\ old.families[k].members = m.families[k].members \cap before
        /\ new.families[k].name = m.families[k].name
        /\ new.families[k].members = m.families[k].members \cap after
  BY DEF Loaded
<1>3. \A k \in DOMAIN m.sets :
        /\ old.sets[k].name = m.sets[k].name
        /\ old.sets[k].members = m.sets[k].members \cap before
        /\ new.sets[k].name = m.sets[k].name
        /\ new.sets[k].members = m.sets[k].members \cap after
  BY DEF Loaded
<1>4. SameUpToMissing(old.families, new.families, before, after)
  BY <1>1, <1>2 DEF SameUpToMissing
<1>5. SameUpToMissing(old.sets, new.sets, before, after)
  BY <1>1, <1>3 DEF SameUpToMissing
<1> QED
  BY <1>4, <1>5

\* The step that starts a session while the file is whole.
LEMMA RestartOK ==
  ASSUME StoreAssumption, StoreInv, [Next]_vars, ~session, session', intact, intact'
  PROVE  /\ mem'.stars = mem.stars /\ mem'.presets = mem.presets
         /\ SameUpToMissing(mem.families, mem'.families, catalogue, catalogue')
         /\ SameUpToMissing(mem.sets, mem'.sets, catalogue, catalogue')
         /\ orderly =>
              [k \in DOMAIN mem'.recents |-> mem'.recents[k].source] =
              LET able == {k \in DOMAIN mem.recents : Able(mem.recents[k], catalogue')}
              IN [j \in DOMAIN Picked(mem.recents, able) |-> Picked(mem.recents, able)[j].source]
<1>1. PICK c \in Catalogues : Start(c)
  <2>1. ~UNCHANGED vars
    BY DEF vars
  <2>2. ~\E new : Edit(new)
    BY DEF Edit
  <2>3. ~\E entry : Remember(entry)
    BY DEF Remember
  <2>4. ~StarsNext
    BY <2>2 DEF StarsNext, ToggleStar, UpsertPreset, DeletePreset
  <2>5. ~FamiliesNext
    BY <2>2, <2>3 DEF FamiliesNext, CreateFamily, CreateFamilyWith, DeleteFamily, RenameFamily,
                      AddToFamily, RemoveFromFamily, PaintFamily, PaintPalette
  <2>6. ~SetsNext
    BY <2>2 DEF SetsNext, CreateSet, NewSetFromProp, CreateSetWith, DeleteSet, RenameSet,
                AddToSet, RemoveFromSet, ConvertSet
  <2>7. /\ ~(\E p \in Props : PaintProp(p)) /\ ~(\E f \in GameFamilies : PaintGameFamily(f))
        /\ ~(\E k \in DOMAIN mem.recents : PaintRecent(k))
    BY <2>3 DEF PaintProp, PaintGameFamily, PaintPalette, PaintRecent
  <2>8. ~SaveAgain /\ ~Shutdown /\ ~Crash
    BY <2>2 DEF SaveAgain, Shutdown, Crash
  <2> QED
    BY <2>1, <2>4, <2>5, <2>6, <2>7, <2>8 DEF Next
<1>2. /\ catalogue' = c /\ c \in SUBSET Props /\ Agrees /\ Sound(mem)
      /\ \/ file \notin {NoFile, Broken} /\ mem' = Loaded(file, c)
         \/ mem' = Empty /\ file = NoFile
  BY <1>1 DEF Start, StoreAssumption, StoreInv, MemoryOK
<1>3. CASE file = NoFile
  <2>1. ~Sound(file)
    BY <1>3 DEF StoreAssumption, Sound
  <2>2. /\ mem.stars = {} /\ mem.presets = [d \in Decals |-> <<>>]
        /\ mem.families = <<>> /\ mem.sets = <<>> /\ (orderly => mem.recents = <<>>)
    BY <1>2, <2>1 DEF Agrees
  <2>3. mem' = Empty
    BY <1>2, <1>3
  <2>4. DOMAIN <<>> = {}
    BY EmptySeq
  <2>5. /\ SameUpToMissing(mem.families, mem'.families, catalogue, catalogue')
        /\ SameUpToMissing(mem.sets, mem'.sets, catalogue, catalogue')
    BY <2>2, <2>3, <2>4, EmptyIs DEF SameUpToMissing
  <2>6. ASSUME orderly
        PROVE  [k \in DOMAIN mem'.recents |-> mem'.recents[k].source] =
               LET able == {k \in DOMAIN mem.recents : Able(mem.recents[k], catalogue')}
               IN [j \in DOMAIN Picked(mem.recents, able) |-> Picked(mem.recents, able)[j].source]
    <3> DEFINE able == {k \in DOMAIN mem.recents : Able(mem.recents[k], catalogue')}
    <3>1. mem.recents \in Seq(Entry) /\ DOMAIN mem.recents = {} /\ Len(mem.recents) = 0
      BY <1>2, <2>2, <2>4, <2>6 DEF Sound, RecentsSound
    <3>2. able \in SUBSET DOMAIN mem.recents
      OBVIOUS
    <3> HIDE DEF able
    <3>3. /\ Len(Picked(mem.recents, able)) <= 0 /\ Len(Picked(mem.recents, able)) \in Nat
          /\ DOMAIN Picked(mem.recents, able) = 1 .. Len(Picked(mem.recents, able))
      BY <3>1, <3>2, PickedFrom
    <3>4. DOMAIN Picked(mem.recents, able) = {} /\ DOMAIN mem'.recents = {}
      BY <2>3, <2>4, <3>3, EmptyIs
    <3>5. [k \in DOMAIN mem'.recents |-> mem'.recents[k].source] =
          [j \in DOMAIN Picked(mem.recents, able) |-> Picked(mem.recents, able)[j].source]
      BY <3>4
    <3> QED
      BY <3>5 DEF able
  <2> QED
    BY <2>2, <2>3, <2>5, <2>6, EmptyIs
<1>4. CASE file # NoFile
  <2>1. mem' = Loaded(file, c)
    BY <1>2, <1>4
  <2>2. /\ Sound(file) /\ mem.stars = file.stars /\ mem.presets = file.presets
        /\ mem.families = Loaded(file, catalogue).families
        /\ mem.sets = Loaded(file, catalogue).sets /\ (orderly => mem.recents = file.recents)
    BY <1>2, <1>4 DEF Agrees
  <2>3. /\ mem'.stars = file.stars /\ mem'.presets = file.presets
        /\ mem'.recents = Validated(file.recents, c)
    BY <1>2, <2>1, <2>2, LoadedOK
  <2>4. /\ SameUpToMissing(mem.families, mem'.families, catalogue, catalogue')
        /\ SameUpToMissing(mem.sets, mem'.sets, catalogue, catalogue')
    BY <1>2, <2>1, <2>2, BothFromTheFile
  <2>5. ASSUME orderly
        PROVE  [k \in DOMAIN mem'.recents |-> mem'.recents[k].source] =
               LET able == {k \in DOMAIN mem.recents : Able(mem.recents[k], catalogue')}
               IN [j \in DOMAIN Picked(mem.recents, able) |-> Picked(mem.recents, able)[j].source]
    <3>1. RecentsSound(mem.recents) /\ mem.recents = file.recents
      BY <2>2, <2>5 DEF Sound
    <3>2. LET able == {k \in DOMAIN mem.recents : Able(mem.recents[k], c)} IN
          [k \in DOMAIN Validated(mem.recents, c) |-> Validated(mem.recents, c)[k].source] =
          [k \in DOMAIN Picked(mem.recents, able) |-> Picked(mem.recents, able)[k].source]
      BY <1>2, <3>1, ValidatedOK
    <3> QED
      BY <1>2, <2>3, <3>1, <3>2
  <2> QED
    BY <2>2, <2>3, <2>4, <2>5
<1> QED
  BY <1>3, <1>4

\* Unless the file fails, a new session has what the last one had, even after a
\* crash; and the recent paints after an orderly end.
THEOREM SurvivesTheorem == Spec => SurvivesRestart
<1>1. StoreInv /\ [Next]_vars =>
        [(~session /\ session' /\ intact /\ intact') =>
           /\ mem'.stars = mem.stars /\ mem'.presets = mem.presets
           /\ SameUpToMissing(mem.families, mem'.families, catalogue, catalogue')
           /\ SameUpToMissing(mem.sets, mem'.sets, catalogue, catalogue')
           /\ orderly =>
                [k \in DOMAIN mem'.recents |-> mem'.recents[k].source] =
                LET able == {k \in DOMAIN mem.recents : Able(mem.recents[k], catalogue')}
                IN [j \in DOMAIN Picked(mem.recents, able) |->
                      Picked(mem.recents, able)[j].source]]_vars
  BY StoreAssumption, RestartOK
<1> QED
  BY StoreInvariant, <1>1, PTL DEF Spec, SurvivesRestart
=============================================================================
