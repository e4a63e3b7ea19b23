------------------------------ MODULE PropsTable ------------------------------
(***************************************************************************)
(* The table of the props: PropPanelTab filters and sorts the props into a  *)
(* list that it keeps until something sets filteredPropsDirty_.  A frame    *)
(* draws the filters, rebuilds the list if it has to, draws the table and   *)
(* then the dialog: a step is a frame in which the player does one thing,   *)
(* and what is clicked in the table takes effect in the list of the next    *)
(* frame only.  A prop picked on the map comes in between, and while other  *)
(* tabs are on screen.                                                     *)
(***************************************************************************)
EXTENDS Integers, Sequences, FiniteSets, SequencesExt, Ordered

CONSTANTS
  Props, NoProp,
  Texts, NoText,    \* what can be searched for
  InName,           \* the texts that are in the names of each prop
  Label,            \* PropDisplayName_
  Traits, Has,      \* categories one can require; those of each prop
  Place, SizeOf,    \* place of each prop by name and by size: equal ones are equal
  Key,              \* its group and instance
  MaxSize,          \* PropSize::kMaxSize
  SizeEdges,            \* bound: where the sliders of the size can be set
  Orders,           \* bound: what the header of the table can ask for
  PaintStyles            \* bound: settings of the painter; Direct is "direct"

\* What the constants are; every module that instantiates this one assumes it.
PropsTableAssumption ==
  /\ NoProp \notin Props /\ NoText \notin Texts /\ "direct" \in PaintStyles
  /\ IsFiniteSet(Props) /\ Place \in [Props -> Int] /\ SizeOf \in [Props -> Nat]
  /\ IsInjective(Key) /\ Key \in [Props -> Int] /\ MaxSize \in SizeEdges \cap Nat
  /\ \A o \in Orders : o \in Seq([column : {"name", "size"}, descending : BOOLEAN]) /\ o # <<>>

VARIABLES
  propFilter,     \* filterHelper_
  order,      \* sortSpecs_
  favoriteProps,  \* favorite props of the repository
  rows,       \* filteredPropsCache_
  dirty,      \* filteredPropsDirty_
  tab,        \* this tab is on screen
  queued, propDialog,       \* pendingPaint_.open; the dialog is on screen
  prop, propStyle,          \* the rest of pendingPaint_
  propPainting,   \* what the director was asked to paint: {} or {[prop, style]}
  sought      \* ghost: the prop picked last, until the player does something

listed == <<propFilter, order, favoriteProps, rows, dirty>>
asked == <<queued, propDialog, prop, propStyle>>
propsTableVars == <<listed, tab, asked, propPainting, sought>>

-----------------------------------------------------------------------------
(* PropFilterHelper.                                                       *)

\* ResetFilters
NoPropFilter == [text |-> NoText, traits |-> {}, lo |-> 0, hi |-> MaxSize, favorites |-> FALSE]

\* PassesFilters: the edges of a size may be swapped.
Passes(p, f) ==
  /\ f.text \in {NoText} \cup InName[p]
  /\ Min({f.lo, f.hi}) <= SizeOf[p] /\ SizeOf[p] <= Max({f.lo, f.hi})
  /\ f.traits \subseteq Has[p]

\* The comparison of ApplyFiltersAndSort; names come last in any case.
ValueOf(p, s) == IF s.column = "name" THEN Place[p] ELSE SizeOf[p]
NameLast(specs) == Append(specs, [column |-> "name", descending |-> FALSE])
Differ(specs, a, b) == {k \in DOMAIN specs : ValueOf(a, specs[k]) # ValueOf(b, specs[k])}

Before(specs, a, b) ==
  LET all == NameLast(specs)
      differ == Differ(all, a, b)
      s == all[Min(differ)]
  IN IF differ = {} THEN Key[a] < Key[b]
     ELSE (ValueOf(a, s) < ValueOf(b, s)) # s.descending

\* ApplyFiltersAndSort
Built(f, specs) ==
  Sorted({p \in Props : Passes(p, f) /\ (f.favorites => p \in favoriteProps)},
         {pq \in Props \X Props : Before(specs, pq[1], pq[2])})

-----------------------------------------------------------------------------
(* A frame of the tab.                                                     *)

\* EnsureFilteredPropsCache_
Ensured == IF dirty THEN Built(propFilter, order) ELSE rows

TableDrawn == rows' = Ensured /\ sought' = NoProp
Quiet == tab /\ ~queued /\ ~propDialog

SetPropFilter(f) ==
  /\ Quiet /\ propFilter' = f
  /\ rows' = Built(f, order) /\ dirty' = FALSE /\ sought' = NoProp
  /\ UNCHANGED <<order, favoriteProps, tab, asked, propPainting>>

SetPropFilters ==
  \E f \in [text : {NoText} \cup Texts, traits : SUBSET Traits, lo : SizeEdges, hi : SizeEdges,
            favorites : BOOLEAN] :
    /\ Cardinality({k \in DOMAIN f : f[k] # propFilter[k]}) = 1 \/ f = NoPropFilter
    /\ SetPropFilter(f)

\* The header: an order for the next frame.
SetOrder ==
  /\ Quiet /\ order' \in Orders \ {order} /\ TableDrawn /\ dirty' = TRUE
  /\ UNCHANGED <<propFilter, favoriteProps, tab, asked, propPainting>>

FaultyStar(p) ==             \* the list is not drawn anew
  /\ Quiet /\ p \in Range(Ensured) /\ TableDrawn
  /\ favoriteProps' = IF p \in favoriteProps THEN favoriteProps \ {p}
                                           ELSE favoriteProps \cup {p}
  /\ dirty' = FALSE
  /\ UNCHANGED <<propFilter, order, tab, asked, propPainting>>

\* RenderFavButton_
Star(p) ==
  /\ Quiet /\ p \in Range(Ensured) /\ TableDrawn
  /\ favoriteProps' = IF p \in favoriteProps THEN favoriteProps \ {p}
                                           ELSE favoriteProps \cup {p}
  /\ dirty' = propFilter.favorites
  /\ UNCHANGED <<propFilter, order, tab, asked, propPainting>>

\* "Paint" of a row: while props are painted the target is switched, with the
\* settings in use, unless a sketch is in the way; else the dialog opens.
Paint(p) ==
  /\ Quiet /\ p \in Range(Ensured) /\ TableDrawn /\ dirty' = FALSE
  /\ \/ \E old \in propPainting :
          propPainting' = {[old EXCEPT !.prop = p]} /\ UNCHANGED asked
     \/ /\ prop' = p /\ propStyle' = "direct" /\ propDialog' = TRUE
        /\ UNCHANGED <<queued, propPainting>>
  /\ UNCHANGED <<propFilter, order, favoriteProps, tab>>

\* A frame in which nothing is clicked; RenderRotationModal_ opens the dialog.
TableFrame ==
  /\ tab /\ (dirty \/ queued)
  /\ rows' = Ensured /\ dirty' = FALSE
  /\ queued' = FALSE /\ propDialog' = (propDialog \/ queued)
  /\ UNCHANGED <<propFilter, order, favoriteProps, tab, prop, propStyle, propPainting, sought>>

SetPropStyle ==
  /\ propDialog /\ propStyle' \in PaintStyles \ {propStyle}
  /\ UNCHANGED <<listed, tab, queued, propDialog, prop, propPainting, sought>>

\* "Start": the director may refuse.  "Cancel" keeps the settings.
LeavePropDialog ==
  /\ propDialog /\ propDialog' = FALSE /\ sought' = NoProp
  /\ propPainting' \in {propPainting, {[prop |-> prop, style |-> propStyle]}}
  /\ UNCHANGED <<listed, tab, queued, prop, propStyle>>

-----------------------------------------------------------------------------
(* From elsewhere.                                                         *)

FaultyHandlePickedProp(p) == \* the other filters stay
  /\ ~propDialog
  /\ propFilter' = [propFilter EXCEPT !.text = Label[p]] /\ dirty' = TRUE
  /\ prop' = p /\ propStyle' = "direct" /\ queued' = TRUE
  /\ sought' = p
  /\ UNCHANGED <<order, favoriteProps, rows, tab, propDialog, propPainting>>

\* The filter that shows a picked prop: its label, and nothing else.
ForLabel(p) == [text |-> Label[p], traits |-> {}, lo |-> 0, hi |-> MaxSize, favorites |-> FALSE]

\* HandlePickedProp_, from a click on the map; a prop that is not in the cache
\* is ignored.
HandlePickedProp(p) ==
  /\ ~propDialog
  /\ propFilter' = ForLabel(p) /\ dirty' = TRUE
  /\ prop' = p /\ propStyle' = "direct" /\ queued' = TRUE
  /\ sought' = p
  /\ UNCHANGED <<order, favoriteProps, rows, tab, propDialog, propPainting>>

\* Another tab, and back.
SwitchTab ==
  /\ ~propDialog /\ tab' = ~tab
  /\ UNCHANGED <<listed, asked, propPainting, sought>>

\* StopPropPainting, Esc on the map, another tool.
StopPropPainting ==
  /\ propPainting # {} /\ propPainting' = {}
  /\ UNCHANGED <<listed, tab, asked, sought>>

PropsTableInit ==
  /\ propFilter = NoPropFilter /\ order = <<>> /\ favoriteProps = {}
  /\ rows = <<>> /\ dirty = TRUE /\ tab = FALSE
  /\ queued = FALSE /\ propDialog = FALSE /\ prop = NoProp /\ propStyle = "direct"
  /\ propPainting = {} /\ sought = NoProp

PropsTableNext ==
  \/ SetPropFilters \/ SetOrder \/ TableFrame \/ SetPropStyle \/ LeavePropDialog
  \/ SwitchTab \/ StopPropPainting
  \/ \E p \in Props : Star(p) \/ Paint(p) \/ HandlePickedProp(p)

PropsTableSpec == PropsTableInit /\ [][PropsTableNext]_propsTableVars

-----------------------------------------------------------------------------
(* Properties.                                                             *)

\* The list on screen is the one of the filters, the order and the favorites of
\* the moment, or the next frame builds it anew, whichever of them was changed,
\* above the table, in it, or from the map while another tab was on screen.
TableIsCurrent == ~dirty => rows = Built(propFilter, order)

\* After a pick the dialog opens for that prop, and the list has it, however the
\* filters were set and whatever is painted: if it has a name and its size is
\* one that the filters know.
PickedIsFound ==
  (/\ sought # NoProp /\ propDialog
   /\ Label[sought] \in InName[sought] /\ SizeOf[sought] <= MaxSize) =>
    prop = sought /\ sought \in Range(rows)
=============================================================================
