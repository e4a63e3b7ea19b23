----------------------------- MODULE FamiliesTab -----------------------------
(***************************************************************************)
(* The tab of the families, and what is painted from it: FamiliesPanelTab   *)
(* lists the built-in families and the user's, in one list that a filter    *)
(* cuts, and keeps the position of the selected one in the whole list.  The *)
(* director paints a family with its palette, or a single prop, and keeps   *)
(* what was painted last.  A step is a frame in which the player does one   *)
(* thing.  The other settings of the painter are not told apart.            *)
(***************************************************************************)
EXTENDS Integers, Sequences, FiniteSets, SequencesExt, Ordered

CONSTANTS
  FamilyProps,
  AutoFamilies,   \* built-in families: sequence of [id, name, entries]
  FamilyNames, Found, NoSearch,   \* names; the texts found in each; an empty filter
  MaxRecents,     \* RecentPaintMaxItems
  MaxFamilies, MaxId   \* bounds: families of the user, their ids

Family == [id : Nat, name : DOMAIN Found, entries : Seq(FamilyProps)]

\* What the constants are; every module that instantiates this one assumes it.
FamiliesTabAssumption ==
  /\ AutoFamilies \in Seq(Family) /\ FamilyNames \subseteq DOMAIN Found
  /\ MaxRecents \in Nat \ {0} /\ {MaxFamilies, MaxId} \subseteq Nat

VARIABLES
  families,   \* userFamilies_
  text, byId, \* nameFilter_; iidFilter_ is set, to the number of a built-in family
  chosen,     \* selectedFamilyIndex_, counted from 1
  popup,      \* none, create, delete, options
  plan,       \* pendingPaint_ while the options are open: at most one [source, type, palette]
  familyPainting,   \* what the prop painter paints, if it is on screen: likewise
  recents     \* recentPaints_: [source, type, palette]

looks == <<text, byId, chosen>>
director == <<familyPainting, recents>>
familiesTabVars == <<families, looks, popup, plan, director>>

-----------------------------------------------------------------------------
(* The list.                                                               *)

All == AutoFamilies \o families
IsAuto(k) == k <= Len(AutoFamilies)

\* ContainsCaseInsensitive, MatchesIidFilter: a family of the user has no number.
Matches(k, t, ids) ==
  /\ t \in {NoSearch} \cup Found[All[k].name]
  /\ ids # {} => IsAuto(k) /\ All[k].id \in ids

ListedFamilies == {k \in DOMAIN All : Matches(k, text, byId)}

\* The position among n families; the first when there is none.
Clamped(k, n) == Min({k, Max({1, n})})

FaultyMoved(k, listed) == Clamped(k, Len(All))   \* it need not be listed

\* Where a frame moves the selection to.
Moved(k, listed) ==
  IF listed = {} \/ Clamped(k, Len(All)) \in listed THEN Clamped(k, Len(All)) ELSE Min(listed)

\* The player sees the selection that the last frame made.
FamiliesCalm == popup = "none" /\ chosen = Moved(chosen, ListedFamilies)

\* A frame in which nothing is clicked.
FamiliesFrame ==
  /\ popup = "none" /\ chosen' = Moved(chosen, ListedFamilies) /\ chosen' # chosen
  /\ UNCHANGED <<families, text, byId, popup, plan, director>>

SetFamilyFilter ==
  /\ FamiliesCalm
  /\ \/ text' \in {NoSearch} \cup UNION {Found[n] : n \in FamilyNames} /\ UNCHANGED byId
     \/ byId' \in {{AutoFamilies[k].id} : k \in DOMAIN AutoFamilies} /\ UNCHANGED text
     \/ text' = NoSearch /\ byId' = {}
  /\ chosen' = Moved(chosen, {k \in DOMAIN All : Matches(k, text', byId')})
  /\ UNCHANGED <<families, popup, plan, director>>

SelectFamily(k) ==
  /\ FamiliesCalm /\ k \in ListedFamilies /\ chosen' = k
  /\ UNCHANGED <<families, text, byId, popup, plan, director>>

-----------------------------------------------------------------------------
(* Families of the user.                                                   *)

\* GenerateNextUserFamilyId_
NextFamilyId == Max({0} \cup {families[k].id : k \in DOMAIN families}) + 1

OpenCreate ==
  /\ FamiliesCalm /\ Len(families) < MaxFamilies /\ NextFamilyId <= MaxId /\ popup' = "create"
  /\ UNCHANGED <<families, looks, plan, director>>

\* "Create": CreateUserFamily refuses a name that is there; else the new family is
\* selected, listed or not.  Or "Cancel".
Create(n) ==
  /\ popup = "create" /\ popup' = "none"
  /\ \/ n \notin {families[k].name : k \in DOMAIN families}
        /\ families' = Append(families, [id |-> NextFamilyId, name |-> n, entries |-> <<>>])
        /\ chosen' = Len(All) + 1
     \/ UNCHANGED <<families, chosen>>
  /\ UNCHANGED <<text, byId, plan, director>>

\* Only what the user made can be deleted; nothing when the list is empty.
OpenDelete ==
  /\ FamiliesCalm /\ ListedFamilies # {} /\ ~IsAuto(chosen) /\ popup' = "delete"
  /\ UNCHANGED <<families, looks, plan, director>>

\* "Delete" or "Cancel".
Delete ==
  /\ popup = "delete" /\ popup' = "none"
  /\ \/ families' = RemoveAt(families, chosen - Len(AutoFamilies))
        /\ chosen' = Clamped(chosen, Len(All) - 1)
     \/ UNCHANGED <<families, chosen>>
  /\ UNCHANGED <<text, byId, plan, director>>

WithEntries(f, es) == [id |-> f.id, name |-> f.name, entries |-> es]

\* The "x" of an entry.
RemoveEntry(i) ==
  /\ FamiliesCalm /\ ListedFamilies # {} /\ ~IsAuto(chosen)
  /\ i \in DOMAIN All[chosen].entries
  /\ families' = [families EXCEPT ![chosen - Len(AutoFamilies)] =
                     WithEntries(@, RemoveAt(@.entries, i))]
  /\ UNCHANGED <<looks, popup, plan, director>>

\* "Fam" in the table of the props: AddPropToUserFamily.
AddProp(p, k) ==
  /\ popup = "none" /\ k \in DOMAIN families /\ p \notin Range(families[k].entries)
  /\ families' = [families EXCEPT ![k] = WithEntries(@, Append(@.entries, p))]
  /\ UNCHANGED <<looks, popup, plan, director>>

-----------------------------------------------------------------------------
(* The director.                                                           *)

FaultyNormalPalette(source, palette) == palette   \* whatever is painted

\* NormalizePaintSettings: only families have a palette.
NormalPalette(source, palette) == IF source[1] = "prop" THEN <<>> ELSE palette

\* BuildRecentPaintEntry_
EntryFor(source, type, palette) ==
  [source |-> source, type |-> type, palette |-> NormalPalette(source, palette)]

\* RecentPaintHistory::Push: to the front, once.
Pushed(entry) ==
  LET others == {k \in DOMAIN recents : recents[k].source # entry.source}
      all == <<entry>> \o Picked(recents, others)
  IN SubSeq(all, 1, Min({MaxRecents, Len(all)}))

\* StartPropPainting: refused while a tool has a sketch, with nothing changed.
StartPropPainting(source, type, palette) ==
  \/ /\ familyPainting' = {EntryFor(source, type, palette)}
     /\ recents' = Pushed(EntryFor(source, type, palette))
  \/ UNCHANGED director

\* SwitchPropPaintingTarget: with the settings in use, their palette included.
SwitchTarget(source, type) ==
  \E p \in familyPainting : StartPropPainting(source, type, p.palette)

\* "Paint" in the table of the props: the target is switched, else a dialog asks.
PaintProp(p) ==
  /\ popup = "none"
  /\ \/ SwitchTarget(<<"prop", p>>, p)
     \/ StartPropPainting(<<"prop", p>>, p, <<>>)
  /\ UNCHANGED <<families, looks, popup, plan>>

\* ActivateRecentPaint: a key or the bar, while painting; never the newest.
PaintRecent(k) ==
  /\ k \in DOMAIN recents /\ k > 1
  /\ LET e == recents[k] IN
     /\ familyPainting # {}
     /\ IF e.palette = <<>> THEN SwitchTarget(e.source, e.type)
        ELSE StartPropPainting(e.source, e.type, e.palette)
  /\ UNCHANGED <<families, looks, popup, plan>>

StopFamilyPainting ==
  /\ familyPainting # {} /\ familyPainting' = {}
  /\ UNCHANGED <<families, looks, popup, plan, recents>>

-----------------------------------------------------------------------------
(* Painting a family.                                                      *)

\* QueuePaintForSelectedFamily_: "Paint" and a double click in a row, "Paint
\* family" below.  The options open in the same frame.
Queue(k) ==
  /\ FamiliesCalm /\ k \in ListedFamilies /\ All[k].entries # <<>>
  /\ chosen' = k /\ popup' = "options"
  /\ plan' = {[source |-> <<IF IsAuto(k) THEN "builtin" ELSE "family", All[k].id>>,
               type |-> Head(All[k].entries), palette |-> All[k].entries]}
  /\ UNCHANGED <<families, text, byId, director>>

\* "Start" or "Cancel".
LeaveOptions ==
  /\ popup = "options" /\ popup' = "none" /\ plan' = {}
  /\ (\E p \in plan : StartPropPainting(p.source, p.type, p.palette)) \/ UNCHANGED director
  /\ UNCHANGED <<families, looks>>

-----------------------------------------------------------------------------
FamiliesTabInit ==
  /\ families = <<>> /\ text = NoSearch /\ byId = {} /\ chosen = 1 /\ popup = "none"
  /\ plan = {} /\ familyPainting = {} /\ recents = <<>>

FamiliesTabNext ==
  \/ FamiliesFrame \/ SetFamilyFilter \/ OpenCreate \/ OpenDelete \/ Delete \/ LeaveOptions
  \/ StopFamilyPainting
  \/ \E k \in DOMAIN All : SelectFamily(k) \/ Queue(k)
  \/ \E n \in FamilyNames : Create(n)
  \/ \E i \in 1 .. Cardinality(FamilyProps) : RemoveEntry(i)
  \/ \E p \in FamilyProps, k \in 1 .. MaxFamilies : AddProp(p, k)
  \/ \E p \in FamilyProps : PaintProp(p)
  \/ \E k \in 2 .. MaxRecents : PaintRecent(k)

FamiliesTabSpec == FamiliesTabInit /\ [][FamiliesTabNext]_familiesTabVars

-----------------------------------------------------------------------------
(* Properties.                                                             *)

\* A family that is deleted, loses an entry or is about to be painted is the
\* selected one of the list that the filter leaves, whatever was created, deleted
\* or filtered before: the position counts in the whole list.
ActsOnWhatIsListed ==
  [][/\ Len(families') < Len(families) \/ popup' = "delete" => chosen \in ListedFamilies
     /\ (popup # "options" /\ popup' = "options") =>
          chosen' \in ListedFamilies /\ \A p \in plan' : p.palette = All[chosen'].entries
     /\ Len(families') < Len(families) =>
          \A k \in DOMAIN families :
            Len(AutoFamilies) + k # chosen => families[k] \in Range(families')
     /\ Len(families') = Len(families) =>
          \A k \in DOMAIN families :
            Len(families'[k].entries) < Len(families[k].entries) =>
              Len(AutoFamilies) + k = chosen /\ chosen \in ListedFamilies
    ]_familiesTabVars

\* The newest of the recent paints, which the bar marks as the current one and no
\* key activates, is what is painted: a prop alone, a family with its palette and
\* a prop of it, however the painter got from one to the other.
NewestIsPainted ==
  \A p \in familyPainting :
    /\ recents # <<>> /\ Head(recents) = p
    /\ IF p.source[1] = "prop" THEN p.palette = <<>> /\ p.type = p.source[2]
       ELSE p.type \in Range(p.palette)
    /\ Cardinality({recents[k].source : k \in DOMAIN recents}) = Len(recents)
=============================================================================
