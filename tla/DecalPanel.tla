------------------------------ MODULE DecalPanel ------------------------------
(***************************************************************************)
(* The tab of the decals: DecalPanelTab draws the filters, the actions, the *)
(* grid of textures and the dialog with the paint settings, in this order,  *)
(* in every frame.  A step is a frame in which the player does one thing:   *)
(* what is drawn below it sees its effect in the same frame, what is drawn  *)
(* above it in the next one.  While the dialog is open nothing else of the  *)
(* tab can be clicked.                                                     *)
(*                                                                         *)
(* A window of a texture is one interval of it, in units: the code does the *)
(* same to both coordinates.  Everything else a preset keeps is one value,  *)
(* the style.                                                              *)
(***************************************************************************)
EXTENDS Integers, Sequences, FiniteSets, SequencesExt

CONSTANTS
  Ids, NoId,        \* decals, and textures of lots that may be picked; 0
  Textures,         \* those of them that the repository found, which the grid is made of
  Kin,              \* the first four digits of each
  Wealth,           \* the digit of each that tells wealth or dilapidation
  Pixels,           \* how many pixels wide each texture is; 0: it cannot be read
  Unit,             \* units of a texture
  DecalStyles, Plain,    \* everything else one sets; that of MakeDefaultDecalState
  Names, NoName,    \* names of presets; the empty input
  Edges,            \* bound: where the mouse and the inputs can set an edge
  MinDrag,          \* kUvPickerMinDragPixels, in units
  MaxPresets        \* bound: presets of a decal

\* What the constants are; every module that instantiates this one assumes it.
DecalPanelAssumption ==
  /\ NoId \notin Ids /\ Textures \subseteq Ids /\ NoName \notin Names /\ Plain \in DecalStyles
  /\ Unit \in Nat \ {0} /\ MinDrag \in Nat \ {0} /\ Edges \subseteq 0 .. Unit
  /\ \A d \in Ids : Pixels[d] = 0 \/ (Pixels[d] \in Nat /\ Unit % Pixels[d] = 0)

VARIABLES
  decalFilter,     \* iidFilterBuf_, wealthFilter_, favoritesOnly_
  selected, scroll,             \* selectedInstanceId_, scrollToInstanceId_
  id, key, decalStyle, window,       \* pendingPaint_: the decal, and the template
  decalDialog,     \* the settings are open
  texture,    \* uvPickerTextureInstanceId_
  drag,       \* uvPickerDragging_ and what the drag began with
  index,      \* selectedFavoritePresetIndex_, counted from 1; 0 is none
  name,       \* presetNameBuf_
  favoriteDecals, presets,           \* of the repository
  decalPainting,   \* what the director was asked to paint: the decal and its texture
  shown,      \* ghost: the grid showed what was picked last, if it was one of its own
  typedFor    \* ghost: the decal that name was typed for

template == <<id, key, decalStyle, window>>
picker == <<texture, drag>>
input == <<index, name, typedFor>>
list == <<decalFilter, selected, scroll, shown>>
kept == <<favoriteDecals, presets>>
decalPanelVars == <<list, template, decalDialog, picker, input, kept, decalPainting>>

-----------------------------------------------------------------------------
(* Windows of a texture that is n pixels wide.                              *)

Within(x, lo, hi) == Max({lo, Min({x, hi})})
Whole == [on |-> FALSE, lo |-> 0, hi |-> Unit]

\* NormalizeUvWindow
Normal(w) == [on |-> w.on, lo |-> Min({w.lo, w.hi}), hi |-> Max({w.lo, w.hi})]

\* QuantizeUvEdge: std::round
Pixel(edge, n) == (2 * edge * n + Unit) \div (2 * Unit)
Snapped(w, n) ==
  LET edge(e) == Pixel(e, n) * (Unit \div n)
  IN Normal([on |-> w.on, lo |-> edge(w.lo), hi |-> edge(w.hi)])

FaultyQuantized(w, n) == Snapped(Normal(w), n)      \* an empty window stays empty

\* QuantizeUvWindowToPixels: one pixel at least.
Quantized(w, n) ==
  LET s == Snapped(Normal(w), n)
      hi == Min({Unit, s.lo + Unit \div n})
  IN IF s.hi - s.lo >= Unit \div n THEN s
     ELSE Snapped([on |-> s.on, lo |-> Max({0, hi - Unit \div n}), hi |-> hi], n)

\* GetUvPixelRect: origin and size in pixels.
PixelRect(w, n) ==
  LET x == Within(Pixel(w.lo, n), 0, n - 1)
  IN [x |-> x, width |-> Within(Pixel(w.hi, n), x + 1, n) - x]

\* SetUvWindowFromPixelRect
FromPixelRect(w, n, x, width) ==
  LET left == Within(x, 0, n - 1)
      right == left + Within(width, 1, n - left)
  IN Quantized([on |-> TRUE, lo |-> left * (Unit \div n), hi |-> right * (Unit \div n)], n)

OnPixels(w, n) ==
  /\ 0 <= w.lo /\ w.lo < w.hi /\ w.hi <= Unit
  /\ (w.lo * n) % Unit = 0 /\ (w.hi * n) % Unit = 0

-----------------------------------------------------------------------------
(* The grid and its filters.                                               *)

NoDecalFilter == [kin |-> NoId, wealth |-> NoId, favorites |-> FALSE]

\* BuildFilteredIndices_
ListedDecals(f) ==
  {d \in Textures : /\ f.kin \in {NoId, Kin[d]} /\ f.wealth \in {NoId, Wealth[d]}
                    /\ f.favorites => d \in favoriteDecals}

\* A click in the tab: a frame is drawn between a pick on the map and the next.
DecalsCalm == ~decalDialog /\ (scroll = NoId \/ ListedDecals(decalFilter) = {})

SetDecalFilter ==
  /\ DecalsCalm
  /\ LET kins == {NoId} \cup {Kin[d] : d \in Ids}
         wealths == {NoId} \cup {Wealth[d] : d \in Ids}
     IN decalFilter' \in {[decalFilter EXCEPT !.kin = k] : k \in kins}
                       \cup {[decalFilter EXCEPT !.wealth = k] : k \in wealths}
                       \cup {[decalFilter EXCEPT !.favorites = ~@], NoDecalFilter}
  /\ UNCHANGED <<selected, scroll, shown, template, decalDialog, picker, input, kept>>
  /\ UNCHANGED decalPainting

\* The callback of StartDecalPicking, from a click on the map: what lies there need
\* not be in the repository.
Pick(d) ==
  /\ ~decalDialog
  /\ selected' = d /\ scroll' = d
  /\ decalFilter' = [kin |-> Kin[d], wealth |-> NoId, favorites |-> FALSE]
  /\ UNCHANGED shown
  /\ UNCHANGED <<template, decalDialog, picker, input, kept, decalPainting>>

\* RenderDecalGrid_ of the next frame: it scrolls to what was picked and forgets it,
\* listed or not; an empty grid keeps it in mind.
Scroll ==
  /\ ~decalDialog /\ scroll # NoId /\ ListedDecals(decalFilter) # {}
  /\ scroll' = NoId
  /\ shown' = (scroll \in Textures => scroll \in ListedDecals(decalFilter))
  /\ UNCHANGED <<decalFilter, selected, template, decalDialog, picker, input, kept>>
  /\ UNCHANGED decalPainting

Unlisted == UNCHANGED <<decalFilter, scroll, shown>>

-----------------------------------------------------------------------------
(* The dialog as a frame draws it.                                          *)

\* EnsureUvPickerTextureLoaded_, then the end of RenderUvPicker_.
TextureOf(d) == IF Pixels[d] > 0 THEN d ELSE NoId

Fitted(d, w) == IF w.on /\ TextureOf(d) # NoId THEN Quantized(w, Pixels[d]) ELSE w

\* Clamps the index to the presets there are.
Chosen(d, k) ==
  IF presets[d] = <<>> THEN 0 ELSE IF k \in DOMAIN presets[d] THEN k ELSE 1

\* RenderSettingsModal_ when w is the window above the picture.
DialogDrawn(d, w, k) ==
  /\ texture' = TextureOf(d) /\ window' = Fitted(d, w)
  /\ index' = Chosen(d, k)

-----------------------------------------------------------------------------
(* Choosing a decal.                                                       *)

\* ClearUvPickerTexture_ and ResetPresetNameInput_, for another decal only.
Another(d) ==
  /\ name' = IF d = id THEN name ELSE NoName
  /\ typedFor' = IF d = id THEN typedFor ELSE NoId
  /\ drag' = IF d = id THEN drag ELSE {}

\* QueuePaintForDecal_: "Paint selected", Enter, a double click.  The dialog
\* opens in the same frame.
QueuePaint(d) ==
  /\ DecalsCalm /\ decalDialog' = TRUE /\ selected' = d
  /\ Another(d)
  /\ id' = d /\ key' = d /\ UNCHANGED decalStyle
  /\ DialogDrawn(d, window, IF d = id THEN index ELSE 0)
  /\ Unlisted /\ UNCHANGED <<kept, decalPainting>>

\* The director refuses while a tool has a sketch.
Begun == decalPainting' \in {decalPainting, {[id |-> id', key |-> key']}}

FaultyStartPainting(d) ==    \* the template keeps the texture of the decal before
  /\ DecalsCalm /\ selected' = d
  /\ Another(d)
  /\ texture' = IF d = id THEN texture ELSE NoId
  /\ index' = IF d = id THEN index ELSE 0
  /\ id' = d /\ UNCHANGED <<key, decalStyle, window, decalDialog>>
  /\ Begun
  /\ Unlisted /\ UNCHANGED kept

\* StartPaintingDecal_: "Paint now", or a click in the grid while one paints.
StartPainting(d) ==
  /\ DecalsCalm /\ selected' = d
  /\ Another(d)
  /\ texture' = IF d = id THEN texture ELSE NoId
  /\ index' = IF d = id THEN index ELSE 0
  /\ id' = d /\ key' = d /\ UNCHANGED <<decalStyle, window, decalDialog>>
  /\ Begun
  /\ Unlisted /\ UNCHANGED kept

SelectDecal(d) ==
  /\ DecalsCalm /\ decalPainting = {} /\ selected' = d
  /\ Unlisted /\ UNCHANGED <<template, decalDialog, picker, input, kept, decalPainting>>

\* A click in the grid, on something that is listed.
Click(d) ==
  /\ d \in ListedDecals(decalFilter)
  /\ (decalPainting # {} /\ StartPainting(d)) \/ SelectDecal(d)

\* The "Reset" next to the selected decal, whatever the template is for.
Reset ==
  /\ DecalsCalm /\ selected # NoId
  /\ key' = selected /\ decalStyle' = Plain /\ window' = Whole
  /\ UNCHANGED <<id, list, decalDialog, picker, input, kept, decalPainting>>

\* "Favorite" and "Unfavorite" of the selected decal: its presets go, too.
ToggleFavorite ==
  /\ DecalsCalm /\ selected # NoId
  /\ favoriteDecals' = IF selected \in favoriteDecals THEN favoriteDecals \ {selected}
                                                    ELSE favoriteDecals \cup {selected}
  /\ presets' = IF selected \in favoriteDecals THEN [presets EXCEPT ![selected] = <<>>] ELSE presets
  /\ UNCHANGED <<list, template, decalDialog, picker, input, decalPainting>>

\* "Stop painting", Esc on the map, another tool.
StopDecalPainting ==
  /\ decalPainting # {} /\ decalPainting' = {}
  /\ UNCHANGED <<list, template, decalDialog, picker, input, kept>>

-----------------------------------------------------------------------------
(* In the dialog.                                                          *)

InDialog == decalDialog /\ UNCHANGED <<list, id, key>>
Idle == drag = {}
Steady == UNCHANGED <<drag, name, typedFor>>

SetDecalStyle ==
  /\ InDialog /\ Idle /\ decalStyle' \in DecalStyles \ {decalStyle}
  /\ DialogDrawn(id, window, index) /\ Steady
  /\ UNCHANGED <<decalDialog, kept, decalPainting>>

\* The checkbox of the window is above the picture.
ToggleWindow ==
  /\ InDialog /\ Idle
  /\ DialogDrawn(id, IF window.on THEN Whole ELSE [on |-> TRUE, lo |-> window.lo, hi |-> window.hi],
                 index)
  /\ Steady
  /\ UNCHANGED <<decalStyle, decalDialog, kept, decalPainting>>

\* A drag on the picture: it is pressed, pulled and let go.
Press(x) ==
  /\ InDialog /\ Idle /\ texture = id
  /\ drag' = {[from |-> x, before |-> window]}
  /\ DialogDrawn(id, window, index)
  /\ UNCHANGED <<decalStyle, name, typedFor, decalDialog, kept, decalPainting>>

Far(x, y) == x - y >= MinDrag \/ y - x >= MinDrag

\* A drag counts when it is far on either axis; this may be the other one.
Pull(x) ==
  /\ InDialog /\ texture = id
  /\ \E d \in drag :
       DialogDrawn(id, Quantized([on |-> TRUE, lo |-> d.from, hi |-> x], Pixels[id]), index)
  /\ Steady /\ UNCHANGED <<decalStyle, decalDialog, kept, decalPainting>>

Release(x) ==
  /\ InDialog /\ texture = id
  /\ \E d \in drag : \E w \in {window, d.before} :
       (Far(x, d.from) => w = window) /\ DialogDrawn(id, w, index)
  /\ drag' = {}
  /\ UNCHANGED <<decalStyle, name, typedFor, decalDialog, kept, decalPainting>>

\* The bounds, and the origin and size in pixels, are below the picture.
Bound(w) ==
  /\ InDialog /\ Idle /\ window.on
  /\ texture' = TextureOf(id) /\ index' = Chosen(id, index)
  /\ window' = IF TextureOf(id) = NoId THEN Normal(w) ELSE Quantized(w, Pixels[id])
  /\ Steady /\ UNCHANGED <<decalStyle, decalDialog, kept, decalPainting>>

SetBounds ==
  \E e \in Edges : Bound([on |-> window.on, lo |-> e, hi |-> window.hi])
                  \/ Bound([on |-> window.on, lo |-> window.lo, hi |-> e])

SetPixels(n) ==
  /\ decalDialog /\ TextureOf(id) # NoId
  /\ LET r == PixelRect(Fitted(id, window), Pixels[id])
     IN Bound(FromPixelRect(window, Pixels[id], n, r.width))
        \/ Bound(FromPixelRect(window, Pixels[id], r.x, n))

\* The combo box of the presets, and the input of a name.
ChoosePreset(k) ==
  /\ InDialog /\ Idle /\ k \in DOMAIN presets[id]
  /\ DialogDrawn(id, window, k)
  /\ name' = presets[id][k].name /\ typedFor' = id
  /\ UNCHANGED <<decalStyle, drag, decalDialog, kept, decalPainting>>

TypeName(n) ==
  /\ InDialog /\ Idle /\ name' = n /\ typedFor' = id
  /\ DialogDrawn(id, window, index)
  /\ UNCHANGED <<decalStyle, drag, decalDialog, kept, decalPainting>>

\* LoadFavoritePresetByName_: below the picture, which fits the window into the
\* pixels in the next frame.
LoadPreset ==
  /\ InDialog /\ Idle
  /\ LET k == Chosen(id, index) IN
       /\ k # 0
       /\ LET p == presets[id][k] IN
            /\ decalStyle' = p.style /\ window' = p.window
            /\ name' = p.name /\ typedFor' = id /\ index' = k
  /\ texture' = TextureOf(id)
  /\ UNCHANGED <<drag, decalDialog, kept, decalPainting>>

WithDefault(p, b) == [name |-> p.name, style |-> p.style, window |-> p.window, default |-> b]

Settled(ps) ==               \* one default, if there are presets
  LET chosen == SelectInSeq(ps, LAMBDA p : p.default)
  IN [k \in DOMAIN ps |-> WithDefault(ps[k], k = IF chosen = 0 THEN 1 ELSE chosen)]

\* DeleteDecalFavoritePreset, ResetPresetNameInput_
DeletePreset ==
  /\ InDialog /\ Idle
  /\ LET k == Chosen(id, index) IN
       /\ k # 0 /\ presets' = [presets EXCEPT ![id] = Settled(RemoveAt(@, k))]
  /\ texture' = TextureOf(id) /\ window' = Fitted(id, window)
  /\ index' = 0 /\ name' = NoName /\ typedFor' = NoId
  /\ UNCHANGED <<decalStyle, drag, decalDialog, favoriteDecals, decalPainting>>

\* "Save" and "Save Default", by name: the decal becomes a favorite.
SavePreset(asDefault) ==
  /\ InDialog /\ Idle /\ name # NoName
  /\ LET old == presets[id]
         known == SelectInSeq(old, LAMBDA p : p.name = name)
         k == IF known = 0 THEN Len(old) + 1 ELSE known
         default == asDefault \/ old = <<>>
         p == [name |-> name, style |-> decalStyle, window |-> Fitted(id, window),
               default |-> default \/ (known # 0 /\ old[known].default)]
         others == [j \in DOMAIN old |-> WithDefault(old[j], old[j].default /\ ~default)]
     IN /\ k <= MaxPresets
        /\ presets' = [presets EXCEPT ![id] =
                         Settled(IF known = 0 THEN Append(others, p) ELSE [others EXCEPT ![k] = p])]
        /\ index' = k
  /\ favoriteDecals' = favoriteDecals \cup {id}
  /\ texture' = TextureOf(id) /\ window' = Fitted(id, window)
  /\ UNCHANGED <<decalStyle, drag, name, typedFor, decalDialog, decalPainting>>

Start ==
  /\ InDialog /\ Idle /\ decalDialog' = FALSE
  /\ DialogDrawn(id, window, index) /\ Steady /\ UNCHANGED decalStyle
  /\ Begun /\ UNCHANGED kept

Cancel ==
  /\ InDialog /\ Idle /\ decalDialog' = FALSE
  /\ DialogDrawn(id, window, index) /\ Steady
  /\ UNCHANGED <<decalStyle, kept, decalPainting>>

\* OnDeviceReset: the next frame with the dialog loads the picture again.
DeviceReset ==
  /\ ~Idle \/ texture # NoId
  /\ texture' = NoId /\ drag' = {}
  /\ UNCHANGED <<list, template, decalDialog, input, kept, decalPainting>>

-----------------------------------------------------------------------------
DecalPanelInit ==
  /\ decalFilter = NoDecalFilter /\ selected = NoId /\ scroll = NoId
  /\ id = NoId /\ key = NoId /\ decalStyle = Plain /\ window = Whole
  /\ decalDialog = FALSE /\ texture = NoId /\ drag = {}
  /\ index = 0 /\ name = NoName /\ typedFor = NoId
  /\ favoriteDecals = {} /\ presets = [d \in Ids |-> <<>>]
  /\ decalPainting = {} /\ shown = TRUE

ChooseNext ==
  \/ SetDecalFilter \/ Scroll \/ Reset \/ ToggleFavorite \/ StopDecalPainting \/ DeviceReset
  \/ \E d \in Ids : Pick(d) \/ Click(d)
  \/ \E d \in {selected} \cup ListedDecals(decalFilter) : d # NoId /\ QueuePaint(d)
  \/ selected # NoId /\ StartPainting(selected)

DialogNext ==
  \/ SetDecalStyle \/ ToggleWindow \/ SetBounds \/ LoadPreset \/ DeletePreset \/ Start \/ Cancel
  \/ \E x \in Edges : Press(x) \/ Pull(x) \/ Release(x)
  \/ \E n \in -1 .. 3 : SetPixels(n)
  \/ \E k \in 1 .. MaxPresets : ChoosePreset(k)
  \/ \E n \in Names : TypeName(n)
  \/ \E asDefault \in BOOLEAN : SavePreset(asDefault)

DecalPanelNext == ChooseNext \/ DialogNext

DecalPanelSpec == DecalPanelInit /\ [][DecalPanelNext]_decalPanelVars

-----------------------------------------------------------------------------
(* Properties.                                                             *)

\* What is painted has the texture it was chosen for, and so has the dialog, its
\* picture and the name typed in it, however the template, the picture, the
\* input and the selection were left by the decals before.
OneDecalAtATime ==
  /\ \A p \in decalPainting : p.key = p.id
  /\ decalDialog => key = id
  /\ texture \in {NoId, id}
  /\ name # NoName => typedFor = id
  /\ decalDialog /\ index # 0 => index \in DOMAIN presets[id]

\* The dialog is left, to paint or not, with a window of whole pixels of its own
\* texture, at least one and inside it, and saves no other, although windows come
\* from other decals, from presets and from any drag.
WindowOnPixels ==
  [][/\ decalDialog /\ ~decalDialog' /\ window'.on /\ Pixels[id] > 0 => OnPixels(window', Pixels[id])
     /\ presets' # presets =>
          \A d \in Ids : \A k \in DOMAIN presets'[d] :
            presets'[d][k].window.on /\ Pixels[d] > 0 => OnPixels(presets'[d][k].window, Pixels[d])
    ]_decalPanelVars

\* A picked texture that the repository found comes on screen: the grid lists it
\* as soon as it is drawn, whatever the filters were set to before and whatever
\* was picked that the grid cannot show.
PickIsShown == shown
=============================================================================
