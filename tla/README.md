# Plop & Paint: a verification project

Plop & Paint is a SimCity 4 plugin (a DLL inside the game) and a command line
program.  The DLL lets the user paint props, flora and decals into a city, strip
them again, pick them from the scene, and curate favorites, families and seasonal
sets.  The command line program scans the plugin folders and writes the caches the
DLL reads.

This directory holds TLA+ models of that code, TLC configurations that check them
on small instances, and proofs about them that TLAPS checks for every value of the
constants.  `PROJECT.json` maps every modelling definition to the source lines it
stands for, lists the runs, the theorems and the hazards, and gives for every
checked property a mutation of the model, a plausible bug, that the property
catches.

    tlc -workers 2 -config MCPainter.cfg MCPainter      # one run
    tlapm PainterProofs.tla                             # one proof module

Contents: 1 the system, 2 the plan, 3 the modules, 4 the runs, 5 fairness, 6 the
proofs, 7 where code and documents disagree, 8 what is not modelled.


## 1. The system

### 1.1 Parts, their state and how they meet

| Part (under `src/src/`) | State it keeps | Operations | Meets |
|---|---|---|---|
| Paint tool core: `dll/common/BasePainterInputControl`, `dll/props/PropPainterInputControl` | state machine (7 states), target, palette and picker, sketch points, undo groups, `cancelPending_`, preview occupant | mouse, keys, start, retarget, switch policy, commit, cancel, undo, tick, `Deactivate`, `SetCity` | called by View3D (input, `Deactivate`), by the director (start, stop, policy, tick); creates, removes and highlights occupants of the city |
| Flora painter: `dll/flora/FloraPainterInputControl` | the same base, its own preview | the same, with its own placement test and demolition | as above, with the flora simulator |
| Decal painter, stripper, picker: `dll/decals/*`, `dll/pick/DecalPickStrategy` | undo stacks, preview decal, hovered decal and the draw mode it had | place, hover, delete, restore, commit, cancel | share one field, a decal's draw mode, through the terrain decal service |
| Prop and flora stripper: `dll/props/PropStripperInputControl`, `dll/flora/FloraStripperInputControl` | hovered occupant, undo groups of deleted props, single or brush mode, held button | hover, delete, brush, restore, check boxes, tick | highlight and remove what the paint tools placed |
| Scene picker: `dll/pick/*` | strategy, hovered thing and what it looked like, offset of the wheel, overlay, `pickPending_`, `cancelPending_` | hover, cycle, pick, check boxes, tick | highlights things of the city; hands the picked one to the director, which starts a painter or asks a tab |
| Director: `dll/SC4PlopAndPaintDirector` | seven "is active" flags, the controls, the switch policy, recent paints | start/stop of seven tools, exclusive activation, delivery of what waits for the tick, city and application lifecycle | everything |
| Favorites: `dll/favorites/*`, recent paints: `dll/RecentPaintHistory` | stars, presets, families, custom sets, recents; `favorites.cbor` | edits, each of which saves; load; validate | panels call the edits; prop repository takes the sets |
| Prop repository: `dll/props/PropRepository` | props by key, built-in families, the stacks of seasonal sets | load, `ApplyUserSeasonalSets`, lookups | painters and stripper ask it for stacks and siblings |
| Panels: `dll/PlopAndPaintPanel`, `dll/*/..PanelTab` | filters, filtered rows, selections, the paint settings being edited | one frame at a time: filter, sort, select, edit, star, paint | call the repositories' edits and the director's starts; the director hands them picks from the map |
| Thumbnails: `dll/thumbnail`, the frames of the tabs | index of a file; a bounded cache of textures, a queue, what failed | ask, load a few a frame, evict, forget with the device | every tab has its own |
| Other repositories, overlay: `dll/lots`, `dll/flora`, `dll/decals`, `dll/paint/PaintOverlay` | caches; what is drawn | load, look up, draw | read what the rest keeps |
| Placement algorithms: `dll/paint/LinePlacer`, `dll/paint/PolygonPlacer`, `dll/common/WeightedPicker` | none (the picker: a random engine) | a sketch to a list of placements | called by the painters |
| Settings, update check, tick service, logging: `dll/utils` | parsed values; the notice of an update | read once; a detached thread | the director |
| Scan: `app/main.cpp`, `app/DbpfIndexService`, `app/PluginLocator` | index of records by type and by id, readers, counters, stop/done flags | a worker thread indexes, the main thread polls, groups and parses | two threads share the index |
| Seasonal sets: `shared/SeasonalSetDetector` | none; three lists while it runs | groups timed props into sets | called by the scan, whose sets the prop repository loads |
| Parsing and rendering: `app/ExemplarParser`, `app/ThumbnailRenderer`, ... | none that lives longer than a record | bytes to records, models to pictures | called by the scan |

Inside the game everything but the update check runs on the game's thread.  What
makes the DLL hard is not preemption but *re-entrance and delay*: View3D calls
`Deactivate` in the middle of the director's actions, Esc and picks take effect on
a later frame tick, the game can replace a control without asking, and pending
objects live in the city where every other tool, and the game, can reach them.

### 1.2 What is hard, part by part, and what makes it correct

**Paint tool.**  An occupant is *pending* between the click and the commit.  It may
be undone singly or by group, trimmed when the undo history is full, cancelled,
committed, kept while other tools run, or bulldozed by the game, in any order.
Correct means: the highlight shows exactly what can still be withdrawn; the undo
stack never holds an empty group or an occupant twice; the preview, a *real*
occupant in the city, never survives the mode that shows it and is never taken for
a placement; nothing provisional is in a city when it is saved.

**Director.**  Seven flags and one "current control" are two records of one fact,
updated by different people at different times; starts can fail after the tool
before was already stopped; cancels are delivered late.  Correct means: at most one
tool is active, the one on screen is, and a tool with an unfinished sketch cannot be
displaced by another.

**Strippers.**  The hovered occupant is a pointer into a city that others change.
Correct means: the highlight is on the hovered prop alone; a click deletes what is
aimed at; a held button never reaches into the next mode or session; strip and undo
lose nothing and keep seasonal sets together.

**Decals.**  Three tools borrow one field.  Correct means that every decal gets its
own draw mode back.

**Flora.**  The simulator decides where a plant may stand, and changes its mind with
every plant.  Correct means: a preview that is visible tells what the next click
does; it is never in the way of that click, never committed, never saved; a batch
does not crowd; what could not be demolished is not recorded.

**Scene picker.**  It searches on every move and once more on the click, over a city
that others change, in the coordinates of lots that are turned.  Correct means: it
leaves the city as it found it; it outlines what is under the cursor; a click picks
what is lit.

**Panels.**  Immediate mode: every frame draws from fields that earlier frames, other
tabs and picks from the map have left.  Correct means: the list on screen is the one
of today's filters; what is edited, deleted or painted is what is selected; a dialog
is about one decal; what the bar calls current is being painted.

**Thumbnails.**  More pictures are wanted than fit.  Correct means: pictures on screen
stay there, all of them arrive, and none of a lost device is drawn.

**Seasonal sets.**  One pass over props that move between lists.  Correct means: every
timed prop in one place, no set too large or mixed, nobody left alone who would fit.

**Scan.**  A worker thread fills an index to which the main thread takes unprotected
references.  Correct means: the index is complete before it is read and frozen while
it is read; of two files with one record the later wins, for exemplars, cohort names
and parents alike; the worker is gone before its service; the program ends.

**Favorites.**  Every edit writes the whole file; writing fails silently; a session
may find another cache than the last; the derived stacks must follow each edit.
Correct means: names and ids unique, defaults unique, stacks derived from the sets
at all times, and everything found again by the next session.

The full list of hazards with their source lines, and the properties that cover
each, is `hazards` in `PROJECT.json`.  A hazard without a property has a note.


## 2. The plan

Modules are written in the order of what would hurt the user's city most.

| | Module | Abstract specification | Status |
|---|---|---|---|
| 1 | `Painter`: the paint tool | `PendingPlacements`: pending, then withdrawn or permanent | checked, proved |
| 2 | `ToolSwitching`: the director | `MapOwner`: one owner, never taken from a sketch | checked, proved |
| 3 | `PropStripper` | | checked, proved |
| 4 | `DecalTools`: three tools, one field | | checked, proved |
| 5 | `PluginScan`: two threads | | checked, proved |
| 6 | `FavoritesStore`: memory, file, stacks | | checked, proved |
| 7 | `LinePlacer`, `Sketch`: points, settings, preview, the walk along a line | what Enter would place | checked, proved |
| 8 | `FloraTools`: flora painter and stripper | | checked, proved |
| 9 | `ScenePicker`: four strategies, the wheel, the delayed pick | | checked, proved |
| 10 | `PropsTable`, `FamiliesTab`, `DecalPanel`: three tabs, a frame a step | | checked, proved |
| 11 | `Thumbnails`: queue, loads per frame, eviction, the device | | checked, proved |
| 12 | `SeasonalSets`: clustering and rescue | | checked, proved |
| 13 | `MapTools`, `CityTools`, `Panel`, `Caches`: the parts side by side | | checked, proved |

Left of the plan, and why: `PolygonPlacer` (ear clipping and interpolated heights are
floating-point geometry; what the rest of the state depends on is in `Sketch`) and
`UpdateCheck` (one detached thread, one string under a mutex; the repository says
nothing of when the notice is to be seen).  Every safety and action property of a
passing run is stated by a theorem; the liveness properties stay with TLC (section 6).

A module that later proofs use has no RECURSIVE operator, its parameters are
CONSTANTS with named assumptions, and its invariants are conjunctions of named
parts.


## 3. The modules

In all of them a *step* is what nothing can interrupt.  In the DLL that is one
handler: an input handler, a director call, one tick of the frame service.  Between
handlers anything may happen that the game or another tool can do; those are actions
too.  In the scan a step is a section under the mutex, or what a thread does between
two of them.

### 3.1 `PendingPlacements` and `Painter`

`PendingPlacements` is what a paint tool promises, in two variables: occupants are
`pending` or `permanent`; painting adds pending ones (and may make the ones the undo
history forgets permanent), undo and cancel withdraw pending ones only, commit makes
all of them permanent, and other tools may remove anything.

`Painter` is the prop paint tool in full.  State: `state_`, target, palette, picked
type, mode and preview mode; the number of sketch points; the preview occupant, its
type and whether it is out of season; the undo stack (a sequence of groups of
occupants); the occupants in the city and the highlighted ones; `cancelPending_`,
the manager, View3D's current control, the director's flag and policy.  Actions: one
per input (`ClickDirect`, `ClickSketch`, `MoveOrAdjust`, `CyclePreviewMode`,
`RemoveSketchPoint`, both undos, `PlaceSketch`, `EnterCommits`, `EscOrRightClick`),
per director call (`RetargetPainting`, `StartPainting`, `StartRefused`,
`StopPainting`, `ReplacedByTool`, `CityShutdown`, `AppShutdown`, `Tick`) and per
outside event (`ReplacedByGame`, `RemovedByOthers`, `DateChanges`).

Each handler contains what it calls: `AfterPlacing` is placing *and*
`TrimUndoStack_`; `SyncPreview` is `SyncPreviewForState_` with its three outcomes
(kept, re-created, none, also when creating one fails); `Deactivate` is the callback
View3D makes.  Left open: which of several props a weighted pick draws, how many of
the placements of a batch the game accepts, where things are.

Refinement: `pending` is the set of highlighted occupants, `permanent` the rest of
the city without the preview.

### 3.2 `MapOwner` and `ToolSwitching`

`MapOwner`: the map has one owner or none, and no tool takes it from an owner that
is busy.  `ToolSwitching` has the director's flags, View3D's current control, and
for each tool what the director asks of it (`HasPendingSketch`,
`HasPendingPlacements`, `cancelPending_`, `pickPending_`).  `Started` and
`NotStarted` are the two outcomes of the seven start functions, with
`PrepareForExclusiveActivation_`, the switch policy, the stop functions and the
panels they call; `Tick` is `ProcessPendingToolActions_`.  A stripper delivers a
pending cancel in its own `Deactivate`, a painter and the picker keep it: that
difference in the code is `CancelWithout`.  Refinement: the owner is the tool whose
flag is set, busy means that some painter has a sketch.

### 3.3 `PropStripper`

The city is a function from occupants to what a prop is (source, type, place), so
that "comes back as it was" can be said.  Two props at one place are within one
brush and at one position.  The undo records are bags, since the order of a group's
records has no effect.  The paint tool appears as `Painted` and `Committed`, which
leave pending props where the stripper works.  Seasonal siblings
(`RemoveSeasonalSetSiblings_`) and partly failing restores are modelled.

### 3.4 `DecalTools`

Decal painter, decal stripper and decal picker around the terrain decal service,
which is external and modelled from its use: `CreateDecal` gives an id that was
never used, `ReplaceDecal` and `RemoveDecal` do nothing for an id that is gone.  A
decal has its draw mode and, as a ghost, the mode it is to have (`own`).

### 3.5 `PluginScan`

Two threads.  Worker: list files, then per file load, gather, merge under the lock,
or count a refusal in two unlocked steps.  Main thread: start, load the property
mapper meanwhile, poll, group records by the file that wins, parse file by file with
the cohorts' names and parents, complete; or give up anywhere (an exception, no
mapper); then `shutdown` and join.  The same file may be found twice, files may be
unloadable, single records damaged.

### 3.6 `FavoritesStore`

Memory, file, catalogue of the session, and the stacks derived from the sets.  Every
public edit of `FavoritesRepository` that a panel calls is an action that ends in
`Save`; `Save` may fail without a trace or leave half a file; `Crash` ends a session
between any two edits; `Start` loads with another cache, in which props may be
missing.  Recent paints are pushed in memory and reach the file with the next save.

### 3.7 `LinePlacer` and `Sketch`

`LinePlacer` is `LinePlacer::ComputePlacements` as operators: `Advances` is how often
the inner loop adds the spacing until it reaches a length, `Overshoot` how far it is
then past a segment's end, `CarryFrom` what each segment hands to the next, `OnSegment`
the placements of one segment, `Walk` those of the path before the limit cuts them.  Lengths are
integers and the path lies on one axis, on which it may turn back.  The jitter, the
random rotation and the weighted draw come from generators that are seeded anew for
each call, so the k-th placement always gets the k-th values: its index stands for
them.

`Sketch` is the paint tool while it draws a line or a polygon, the part that
`Painter` reduces to a number of points: `collectedPoints_`, the cursor, `settings_`,
the polygon cache `cachedPolygonPlacements_` with its flag, and what the overlay
shows.  One action per input that changes them; `Rebuild` is
`RebuildPreviewOverlay_`, which every one of them ends in, with the cache and the flag
the handler leaves.  A line's row is computed as the code does; a polygon's placements
are a function of the vertices and settings, which stand for them.  Enter's batch
(`LineBatch`, `PolygonBatch`) is compared with what was shown.  Heights are in terrain
mode, where a snapped placement loses its vertical offset (`Height`).  Placements snap
only when points do: each popup that starts a sketch clears the one in every frame without
the other (`PropPanelTab.cpp:916`, `FamiliesPanelTab.cpp:538` and those of the flora), and so
does Shift+S, so that two separate defaults in the ini file do not reach a sketch.

### 3.8 `FloraTools`

Both flora tools around the flora simulator, which is external: `IsPlacementValid`
is its verdict (good soil, nothing else at the spot), and it may refuse to demolish.
The painter differs from `Painter` in what this does to it: the preview, a real
plant, hides where a click would be refused and is removed before the click asks; a
family advances to its next kind after each click; a batch (`PlaceSketch`) is planned
before any of it is planted.  The stripper picks within a square, strokes within a
circle and records one undo step for each plant.  Plants grow and die by themselves
(`Game`).

### 3.9 `ScenePicker`

`ScenePickerInputControl` with its four strategies over a small scene: props that
depend on the day and have sources, flora, decals, and lots with textures, turned in
different ways.  `Stack` is the stack of decals and lot textures under the cursor,
`offset` the wheel, `WorldToLotLocal` and its inverse the turns.  `mark`, `lit`,
`drawn` and `original` are what a strategy lights up and has to restore.  Things
vanish, the day passes, the wheel turns, strategies are swapped, starts are refused.
A pick and a cancel wait for the tick and survive `Stop`, as in the code.

### 3.10 `PropsTable`, `FamiliesTab`, `DecalPanel`

Immediate-mode windows: a step is a *frame in which the player does one thing*.  What
is drawn below the thing that was clicked sees its effect in the same frame, what is
drawn above it in the next; that order is in the actions.

`PropsTable` is `PropPanelTab` with `PropFilterHelper`: filters, columns, stars, the
cached rows with `filteredPropsDirty_`, the dialog, and `HandlePickedProp`, which comes
from the map.  `FamiliesTab` has the list of built-in and own families, the selection as
a position in the whole list, the popups, and of the director what it paints and its
recent paints (`NormalPalette`, `SwitchTarget`, `PaintRecent`).  `DecalPanel` has the
filter bar, the grid, and the settings dialog: template, window of the texture (one
interval, quantised to the pixels of the texture), drags, presets, names.  A drag counts
when it is far on either of two axes; of the other one only that is modelled (`Pull`,
`Release`).  What is picked need not be a texture the repository found (`Textures`): then
the grid has nothing to scroll to, and an empty one keeps it in mind.

### 3.11 `Thumbnails`

`ThumbnailCache` as two sequences: the keys in the order of their last use, and those
that wait; `made` is the device a texture was made on.  `Frame` is what every tab
does: notice a new device, ask for rows on screen and around it (three kinds of tabs
ask differently: `Wanted`), draw, load up to `MaxLoad` (`Rendered`).  Pictures may be missing or
unreadable for a while, tabs open, scroll and close, the device is lost.

### 3.12 `SeasonalSets`

`DetectSeasonalSets` step by step: `Cluster` is the first pass, `Rescue` one round of
the second, `Finish` the sorting.  The initial states are all ways to give windows to
five props; what the code asks of names (stem, length, common prefix) are constants.

### 3.13 `Ordered`

What the code sorts (`std::sort`, `std::stable_sort`) and filters (`std::erase_if`,
`std::copy_if`), as sequences that are defined by counting: the k-th element is the one
that has k - 1 before it.  The library's operators for this are recursive or pick a
permutation; of these it can be proved what they return.  `Those`, the elements of a
sequence that are in a set, is a recursive function instead: TLC evaluates it many times
in a frame of `Thumbnails`.  The panels, the picker, the flora tools, the favorites, the
scan and the thumbnails use them.

### 3.14 `MapTools`, `CityTools`, `Panel`, `Caches`: parts side by side

`MapTools` (`ToolSwitching`, `ScenePicker`), `CityTools` (`PropStripper`, `DecalTools`,
`FloraTools`), `Panel` (`SeasonalSets`, `PropsTable`, `FamiliesTab`, `DecalPanel`) and
`Caches` (`PluginScan` and `Thumbnails`: the scan is a program of its own, which ends
before the game reads what it wrote) put modules side by side that share no variable.  An initial choice says which part
moves, the others keep one initial state: a sum of state spaces and not their product,
which is sound because no part reads or writes a variable of another.  What does cross
a border (a tool that takes the map away, a pick that arrives, painted props that the
stripper meets, sets that become stacks) is an action of the part that sees it.  The
properties that join a promise of several parts (`NothingLeftBehind`, `PickIsListed`)
or the types of a part and a promise (`LitAndRedrawn`) are stated here.

### 3.15 Modules for checking only

An `MC...` module gives a module its values.


## 4. The runs

A passing run asks one group of questions; the seven together take about ten
minutes.  `expect: violation` runs are disagreements (section 7).

| Run | Question | Bounds | Why they are enough |
|---|---|---|---|
| `painter` | do undo, commit, cancel, switches, city changes and removals keep stack, highlight and preview consistent and implement `PendingPlacements`? | 4 occupants, 2 types, palettes none and both, 2 undo groups of up to 2, 3 sketch points; full-model preview at start (P reaches all modes) | trimming happens at the third group, groups can be partly undone, one occupant is left for the preview while three are placed, a polygon closes at 3 points |
| `tools` | do flags, view and sketches agree, and is the map never taken from a sketch? does a cancel take the tool away? does the picker restore what it lights, outline what is there and pick what is lit? | 1 painter that sketches, 1 that does not, 2 strippers, the picker; a scene of 2 props of two sources and days, a plant, 2 decals, 3 lots of which two are turned alike; the cursor at 3 points | every kind of tool, two of the kinds that compete with their like; at one point a stack of both decals above textures, one of the decals with a draw mode other than 0; at one a stack of textures and, at one spot, both props; at one nothing; a quarter turn and a half |
| `city_tools` | props: do highlight, aim, held button and undo records survive everything, do sets stay whole? decals: does each get its draw mode back? flora: does the preview tell the truth, is nothing crowded, lost or left behind? | props: 4 occupants, 3 kinds at one place, 2 undo groups, 3 props; decals: 3, undo limit 1, 2 deletions; flora: 3 occupants, 2 kinds, 2 spots, a batch of 4 with doubles and bad soil | a set of two and a lot prop; a restored prop differs from the deleted one; placement, preview and hovered decal at once, trimming at the second placement; a spot in the square and not in the circle |
| `sketch` | does the preview keep up with clicks, keys, cancels and restarts, does Enter place what is shown, does the walk follow the path? | spots 0 and 5 (snapped 0 and 6), spacings 2 and 3, grid steps 1 and 2, 2 lifts, 2 densities, 2 of the 4 rotations, 3 points, a preview of 3 | segments of length 0, longer than the spacing and no multiple of it; paths that turn back; three points close a polygon; the preview's limit cuts long rows |
| `caches` | is the index complete and frozen before it is read, does the last file win, does the scan end? do pictures stay and arrive? | 3 files, 1 exemplar, 2 cohorts of one family, 4 contents and unloadable, a directory listed twice, 2 damaged records; 4 rows, 2 on screen, margin 1, a cache of 3, one load a frame, 2 devices, 3 kinds of tabs | override, double listing, fallback of a parent to an earlier file; the margin asks for more than fits, the screen and a load just fit |
| `favorites` | do stars, presets, families, sets, recents stay sound, do stacks follow, does a new session find it all? | 3 props (one missing from a second cache), 1 detected set, 1 built-in family, 2 names, 2 recents, 3 things kept at a time | names collide, sets overlap with each other and with the detected one, props come and go |
| `panel` | is what the tabs hold from frame to frame still what it was taken for, and does painting start with what is shown? does the detection put every prop in one place and leave none that fits? | table: 3 props, two of one name, one unnamed and too large for the filters; families: one built-in, 2 own, 2 recents; decals: 2 textures in the grid, two pixels wide and one, and one that the repository has not found, 1 preset; sets: 5 props, 5 windows or none in a year of 8 days, sets of 3 | ties in every column; the filter hides the selected family; a pick leaves the grid empty; windows that fit one texture and not the other; clusters that hold and that fail, rescues into sets and into pairs |

Bounds that are part of a module: `StartPreviews`, `MaxGroup`, `MaxPoints` (Painter);
`Batches`, `CheckBoxes`, `MaxUndo`, `MaxProps` (PropStripper); `MaxDeleted` (DecalTools);
`Room`, `MaxId` (FavoritesStore); `MaxPoints`, `Turns`, `StartSettings` (Sketch);
`FloraPolicies`, `Wild`, `Sprouts`, `FloraBatches`, `MaxFloraDeleted` (FloraTools);
`CheckBoxes`, `MaxOffset`, `MaxRemoved` (ScenePicker); `SizeEdges`, `Orders`,
`PaintStyles` (PropsTable); `MaxFamilies`, `MaxId` (FamiliesTab); `Edges`, `MaxPresets`
(DecalPanel); `Layouts`, `Headers`, `MaxGen` (Thumbnails); `Windows` (SeasonalSets).
They only limit how much the user and the game do, never how the code
reacts.  `MaxUndoGroups`, `MaxRecents`
and `MaxPreview` are limits of the code itself.

Symmetry (occupants, decals, and types in the painter) is used in runs of safety and
action properties only; no definition chooses among these values except where the
choice is free.  The only run that may stop is `caches`: both
threads of the scan end.

Each property is checked against a plausible bug in the definition it depends on:
the `Faulty...` operators next to the definitions they change.  `PROJECT.json` lists
the pairs under `mutants`.


## 5. Fairness

`ToolSwitching` assumes that the tick is weakly fair (`FairSpec`).  The frame tick service calls `ProcessPendingToolActions_` and, through it,
`ProcessPendingActions` of the controls every frame for as long as the plugin is
loaded.  Nothing is assumed of the user or of the game.

`PluginScan` assumes that the worker and the main thread are scheduled.  Giving up
is not owed: `ScanEnds` holds without it.  `Thumbnails` assumes that the window is drawn
again and again while it is open (`Frame`), as the game draws every frame.  There is
no fairness elsewhere, and no other liveness property.

`CancelLeavesTool` has an exception that the code makes: a stripper that is started
again delivers the waiting cancel to the session before, and stays.


## 6. The proofs

Proved means: for every value of the constants that satisfies the module's named
assumptions.  `PROJECT.json` lists the theorems with the properties they state.

**`PainterProofs`** (assumptions: `NoOcc` and `NoType` are no occupant and no type,
palettes are sets of types, at least one undo group).  The inductive invariant is

    IInv == ChoiceTypes /\ PreviewTypes /\ World
            /\ PreviewConfined /\ OnScreenIsPainting /\ NothingProvisionalSaved

`World` joins what no single property says: the stack has no empty group and no
occupant twice, it holds at most `MaxUndoGroups` groups, and the highlighted
occupants are its occupants that are in the city.  None of these is inductive alone:
undoing one group removes the right highlights only because no other group shares an
occupant, and trimming forgets the right ones for the same reason.  `PreviewConfined`
is needed because placing, removing and restoring must not meet the preview.  The
proof has three layers: lemmas about stacks (push, cut, top, drop), lemmas about each
operation on the world (`PlacingOK`, `UndoOK`, `CancelOK`, `CommitOK`, ...), and one
lemma per action, in two halves as in the code: first stack and highlights, then the
preview (`Before`, `SyncPreviewOK`, `After`).  Each action lemma also gives the step
of `PendingPlacements` it implements, from which `PainterImplements` follows.

**`OrderedProofs`**.  Lemmas only: what `Sorted` and `Picked` return, each element at
one position, in order, at the end the elements of the set and no other.  Two facts carry
them: counting those before an element is strictly monotone, and no number between one
and the cardinality is left out.  Then sequences that repeat nothing, joined, cut and
turned around (`JoinedOnce`, `CutOnce`, `ReversedOnce`), and induction over numbers.  The
induction theorems of the library take an operator, which the provers cannot instantiate;
`Least` (a set of numbers has a least one, from well-foundedness) and `Upward` (a set
that has a number, and with each one below n the next) say it with sets.  With them a
recursive function is unfolded: by induction there is a function that satisfies its
equation, so that the CHOOSE behind it takes one (`ThoseUnfolded`), and a second
induction says what it computes (`ThoseOnce`).

**`MapToolsProofs`** (assumptions: the kinds of tools are disjoint; what the lists of the
scene and the turns of lots are).  *Director.*  `ToolsInv` is the conjunction of
`TypeOK`, the parts of `OneToolInCity` and `StatusShownWhilePainting`: a start is
harmless because a sketch is only on the painter on screen (`SketchOnScreen`), which is
flagged (`OnScreenIsFlagged`), so asking the flagged painters asks them all.  The
refinement of `MapOwner` follows, since `OneToolAtMost`, the first half of
`OneToolInCity`, makes the owner unique.  *Picker.*  `PickerInv` joins
`PickerLeavesNoTrace` (what is lit, drawn and outlined is what is hovered), that the draw
mode it remembers is the decal's own (`OriginalKept`), and that a search finds again what
is lit as long as nothing has changed since (`StillFound`): from that `PicksWhatIsLit`
follows.  `OutlineAtCursor` needs that the outline of a turned lot is around the cursor
when the point in the lot's own coordinates is in it, for each turn.

**`CityToolsProofs`** (assumptions: finitely many occupants and decals, disjoint null
values, a well-formed city, no draw mode of a decal's own is the highlight, at least one
undo group, batches that are sequences of spots).  One invariant for each kind of tools.
`StripperInv`: the checked invariants are inductive with `NoCityNoProps`: without a prop
manager there is no city and the stripper is off screen, which is what makes `CityInit`
and a start harmless.  `DecalInv`: `PendingDecalsStandOut` is not inductive, since the
stripper and the picker write the mode of pending decals too, and give back what they
remember.  It needs that a hover over a pending decal remembers the highlight and nothing
else (`Hovers`), and that no decal is on the undo stack twice (`StackOK`), so that what is trimmed
is not reached any more.  `FloraInv`: no two plants of the
painter stand on one spot (`Alone`), the preview is a plant of the city but none of the
painter's (`FloraPreviewOK`), and what is lit is near the cursor (`FloraHoverOK`).
`NoCrowd` follows; of `PreviewTellsClick`, which is about steps, each action shows that
it leaves a true preview or none, unless the simulator changed its mind.

`NothingIsLost` and `SetsStayWhole` are about steps, and the first one counts.  What a
stripper takes out of the city and what it puts on its stack are listed one to one, each
occupant once (`Lists`, `OrderedCounts`), so that both numbers change by as much (`Parted`,
`AppendedCounts`, `PoppedCounts`, `SlotsGrow`); for plants this rests on the order in which
the game lists them repeating none, for decals on the record holding the mode from before
the hover (`ErasedIsSettled`).  The last part of it, `HoverLeavesNoTrace`, compares the mode
each decal will have when the hover ends before and after every action (`DecalTrace`):
commits and trimming give a decal what its placement remembers, which is the decal's own
mode (`Remembers`), and nothing is hovered when the painter is what gets replaced
(`HovererIsAlone`).  For `SetsStayWhole`, a deletion or an undo takes all of a set or nothing
(`AllOrNone`).

**`PanelProofs`** (assumptions: finitely many props with an order; families, filters and
textures of the right shape).  *Seasonal sets.*  `EachInOnePlace` is inductive with the
soundness of the sets; `NothingLeftThatFits` needs that what was left alone fits no set and
pairs with no other that was (`AloneOK`): nothing that a later round does makes it fit.
*Props.*  The rows are what the filters and the order give, or marked; what was sought is
among them (`SoughtOK`).  *Families.*  What is painted is the newest recent paint
(`PaintingOK`), no source is there twice (`RecentsOK`), and the popup deletes a family of
the user that is listed (`DeletesListed`); two lemmas say what a deletion (`OthersStay`) and
the removal of an entry (`OnlySelectedLoses`) leave alone.  *Decals.*  `OneDecalAtATime`
joins what the dialog, the template, the texture, the preset, the typed name and the painter
are about; a pick of a texture the grid has is listed until it is drawn (`PickOK`); windows are on pixels because each way
to set an edge goes through the quantiser, or through a preset that did.

**`FavoritesProofs`** (`StoreAssumption`: finitely many props, catalogues, detected sets
and built-in families of props, the two bad states of the file are no contents).  The
inductive invariant is

    StoreInv == MemoryOK /\ FileOK /\ FlagsOK /\ ActiveOK /\ ViewOK /\ (intact => Agrees)

`MemoryOK` is what `CuratedSound` says of the memory, between sessions too, and what the file holds
is as sound (`FileOK`), so that loading gives a sound memory again.  `Agrees` is what
`SurvivesRestart` needs, which is about a step and not inductive by itself: up to the
recent paints the memory is what a session with this catalogue finds in the file, also
between an edit and a crash, and with the recent paints after a shutdown.  `ViewOK` says
that the stacks are those of the sets; that such stacks give each prop what
`StacksFollowSets` says is a lemma about `Rebuilt` and `Lookup` (`StacksRight`).

**`CachesProofs`**.  *Scan* (`ScanAssumption`: exemplars and cohorts are different records, a
good file holds a sequence of records, orders are sequences of paths).  `HandOver` says
where one thread is when the other is somewhere: `done` means the worker has exited,
grouping and parsing mean `done`.  With it `FrozenWhileRead` holds
for any files and orders.  `LastFileWins` follows from two more inductive invariants, one
on top of the other:

    IndexInv == HandOver /\ StopOK /\ Types /\ Progress /\ IndexOK
    OutputOK == OutputTypes, and by where the main thread is:
                Untouched, or LeftOK /\ ParsedOK /\ NamesOK /\ CachedOK

`IndexOK` compares the index with the files looked at so far.  It says it for every
selection of files: the last one that has the record is the last one the index names.
For all files this is which one wins; for those with a readable copy it is the parent
`loadExemplar` finds; and a merge, which may index a file under the position of its
repetition, keeps it because both lists grow at their ends.  It holds while the scan is
`Whole`, that is nobody has stopped it, since a stop cuts the entries of a file short;
`Progress` gives that the entries in hand are then the whole file.  `OutputOK` holds of
what is parsed so far: the groups left hold the known records by their winner (`LeftOK`),
all of them at first places behind those of the winners that are parsed, so that a name is
not replaced by that of a file that precedes its own (`NamesOK`).  Of two files whose places
interleave nothing is claimed of the name (section 7).
*Pictures* (`ThumbnailAssumption`: rows are different keys, at least one is on screen, the
sizes are numbers).

    CacheInv == SceneOK /\ ListsOK(recent, queue, failed)
                /\ every texture that is kept was made on the device seen last

`ListsOK` is `CacheSound` with the types of the lists.  `RenderedSound` takes a frame from
any lists that are sound: it holds of the lists there are and of the empty ones that
a reset leaves, which are the two cases of `Frame`.  A picture on screen stays because
`Get` puts it among the first `Len(OnScreen)` (`UsedOK`) and at most `MaxLoad` come
before it (`InsertedOK`).  `EachPart` carries this and what is said of the scan over to
`SideBySide`.

**`SketchProofs`** (assumptions: spots and settings are numbers, at least one grid
step, the null values are not numbers).  `PolygonCacheCurrent` is inductive only with
`DirtyOutsidePolygon`: in line mode and between sketches the flag is set, so a handler
that tests for polygon mode before it sets the flag loses nothing.  One lemma
(`RebuildSound`) says that rebuilding turns a sound cache into a sound one, and each
handler only has to show that the cache it hands over is sound.  For a line there is no
cache: `LineIsCurrent`, that the row on screen is the one of the present points, cursor and
settings, is inductive by itself, and `EnterPlacesWhatIsShown` follows from it and from
what the walk does with one more point (`BatchGoesOn`): when Enter leaves the cursor
out, what it places is a prefix of what was shown.

`LineWalksThePath` says something of every path and every spacing.  It is proved by
induction along the path (`Onwards`: from one point, one point more each time).  Of the path
so far, `WalkSound` bounds what is carried over by the spacing, `Advancing` and
`Beginning` are the claims themselves, and `Repeatable` says that points clicked twice
change neither the placements nor what is carried over.  One more point leaves the carries
and placements so far as they are (`CarryAppended`, `WalkedAppended`) and adds those of one
segment, which lie behind the others and before its end (`StretchSound`, `SegmentSound`).
The statement is about the walk before the limit cuts it, since a limit that is
reached would hide that the whole line is covered.

Only model-checked are the liveness properties (`CancelLeavesTool`, `ScanComesToAnEnd`,
`PicturesShown`): fairness and ENABLED are out of the prover's reach.

The other way round, `StatusShownWhilePainting` and the two action properties
`PermanentStays` and `OnlyPendingBecomesPermanent` of `Painter` are proved and in no run.


## 7. Where code and documents disagree

| Run | What the run shows |
|---|---|
| `painter_cancel` | Between Esc and the tick that delivers it the control still takes clicks; what is placed then stays behind, highlighted and pending, after paint mode was left. |
| `stripper_pending` | The prop stripper ends a hover by clearing the highlight, also of a placement that is pending (policy `keep`, the default), which then looks committed. |
| `decals_highlight` | A pending decal that the stripper deletes and restores comes back with the pending draw mode and no undo group; it is saved highlighted. |
| `sketch_spacing` | `LinePlacer.cpp:105` carries how far the walk passed a segment's end and starts the next segment that far before its beginning instead of behind it: around a corner placements are not one spacing apart. |
| `sketch_stale` | The keys for vertical offset, snap and grid step do not set the polygon's flag: the preview stays as it was, Enter places with the new value. |

The models contain more that no run is spent on.  The 51st undo group makes the
oldest one permanent (`Forgotten` in `Painter`), and Esc no longer removes it;
`docs/USAGE.md:320` says placements are pending until committed.  A custom set with one
member does not override the detected set it shares the member with (`Rebuilt` in
`FavoritesStore`); the editor's text says it does.  Placements that are snapped to the
grid lose their vertical offset (`Height` in `Sketch`); `docs/USAGE.md:251` says it
raises placed props.  After Backspace from three vertices to two the polygon's preview
stays on the map (`Rebuild` in `Sketch`).  A plugin directory that is listed twice (the user's and the
game's may be the same) names a family by its first place: in the order p1, p2, p1 the
positions of `main.cpp:353` keep the first one, so p2 is parsed after p1 and its name of
a family replaces that of p1, which is the last in the order; `main.cpp:422` says "Later
cohorts override earlier ones, like the game does" (`OrderIndex` in `PluginScan`; exemplars
and parents do come from p1).  The picker resets the wheel's depth when the
stack under the cursor changes, says its comment, but compares keys that two lots of one
configuration share (`DecalPickStrategy.cpp:118`), so that the depth stays from one to the
other (`OffsetAt` in `ScenePicker`).  `docs/USAGE.md:207` has a favorite decal open with the
settings used last; `ApplyFavoritePresetIfAvailable_`, which would do it, is never called
(`Begun` in `DecalPanel`).

Some facts came up that no document denies: the id of a deleted family with the
largest id is given out again, so that a recent paint of the old family becomes one
of the new; and members of a family that are missing from today's cache are gone
from the file after the next save; a pick or a cancel that was not delivered before the
picker was replaced ends the next picking session (`Stop` in `ScenePicker`); a new flora
preview is not turned until R is pressed; a prop without a name, or larger than the filters
count, is not listed after it was picked (the premise of `PickedIsFound`); the rescue pass
may put props together again that the first pass has told apart (`Rescue` in
`SeasonalSets`); when the list of directories cannot be read, the scan ends in success with
an empty index (`ListFails` in `PluginScan`).


## 8. What is not modelled, and why

* *Geometry and drawing.*  Polygon triangulation, alignment, rendering, terrain
  sampling: floating point, and nothing the rest of the state depends on.  `Painter`
  leaves open how many and which placements come back.  `Sketch` keeps to one axis and
  to terrain heights; captured node heights are left out.
* *Formats and files.*  DBPF, exemplars, LText, CBOR, the ini file: what is read is an
  input, that reading can fail is an action.
* *Widgets.*  Layout, columns that are resized, tooltips.  Of the tabs, `PropsTable`,
  `FamiliesTab` and `DecalPanel` have modules; the flora, collections and lots tabs are
  built as the first is and have only their pictures (`Thumbnails`).
* *Names.*  `Stem` and `CommonPrefixLength` of the set detection are given relations.
* *The game.*  View3D, managers and the decal service are external and modelled from
  how the code uses them.  Removing an occupant that is in the city is taken to
  succeed; creating one may fail.
* *Stacked seasonal sets.*  `SetsStayWhole` says nothing of two props of one type of a
  set on one spot, of one source or of two: there the code may delete members of both
  sets, and which set they belonged to is not a fact the code knows.
* *Polygon placement and the update check*: see section 2.

`PROJECT.json` has every part with its status and, for a part that is left out, the
reason.
