----------------------------- MODULE Thumbnails -----------------------------
(***************************************************************************)
(* The thumbnails of a window: ThumbnailStore, a file with the pictures,    *)
(* ThumbnailCache, which keeps the textures made from them in the order of  *)
(* their last use, and the frame of a tab, which asks for the rows on       *)
(* screen (and those near them), draws what the cache has and then loads a  *)
(* few of the pictures that wait.                                           *)
(*                                                                         *)
(* A texture belongs to the device it was made on.  When the device is      *)
(* lost, the next frame that is drawn notices by the device's generation.   *)
(***************************************************************************)
EXTENDS Integers, Sequences, FiniteSets, SequencesExt, Ordered

CONSTANTS
  Rows,       \* the rows of the table, from top to bottom: keys of pictures
  Height,     \* how many rows are on screen
  Margin,     \* kPrefetchMargin
  MaxSize,    \* maxSize_
  MaxLoad,    \* maxLoadPerFrame_
  Layouts,    \* bound: the kinds of tabs: "table", "whole", "grid"
  Headers,    \* bound: what Load can read as the index of the file
  MaxGen      \* bound: generations of the device

Keys == Range(Rows)

ASSUME ThumbnailAssumption ==
  /\ Rows \in Seq(Keys) /\ IsInjective(Rows) /\ Height \in 1 .. Len(Rows) /\ Margin \in Nat
  /\ MaxSize \in Nat \ {0} /\ MaxLoad \in Nat \ {0} /\ MaxGen \in Nat
  /\ Layouts \subseteq {"table", "whole", "grid"} /\ Headers \subseteq SUBSET Keys

VARIABLES
  stored,     \* giKeys_ of the store: the keys HasThumbnail knows
  readable,   \* the pictures that can be read at present
  layout,     \* the kind of tab
  open,       \* the tab is on screen
  top,        \* the first row on screen
  device,     \* GetDeviceGeneration()
  seen,       \* lastDeviceGeneration_
  recent,     \* lruList_, the key used last first; the keys of cache_
  made,       \* the device each key's texture was made on last
  queue,      \* loadQueue_; loading_ has the same keys
  failed,     \* failed_
  drawn       \* ghost: the rows the last frame drew a picture for

scene == <<stored, readable, layout, open, top, device>>
cache == <<seen, recent, made, queue, failed, drawn>>
thumbnailVars == <<scene, cache>>

-----------------------------------------------------------------------------
(* The store.                                                              *)

\* ThumbnailStore::Load: a file that is missing, too short or of another format
\* has no pictures.
Loaded == {{}} \cup Headers

\* LoadThumbnail and the texture made from it.  Decals are read by the game,
\* which may lack some: only a table asks HasThumbnail first.
Loadable == stored \cap readable

-----------------------------------------------------------------------------
(* A frame.                                                                *)

Window(from, to) == SubSeq(Rows, IF from < 1 THEN 1 ELSE from, IF to > Len(Rows) THEN Len(Rows) ELSE to)

\* The rows a tab draws: the families and the collections of flora have no clipper.
OnScreen == IF layout = "whole" THEN Rows ELSE Window(top, top + Height - 1)

\* What a table requests: the rows near the screen that the store has.
Near == Those(Window(top - Margin, top + Height - 1 + Margin), stored)

\* What a tab without a clipper requests: every row that the store has.
All == Those(Rows, stored)

\* What a grid requests, and the bar of what was painted last: the rows on
\* screen, without a look at the store.
Visible == OnScreen

Wanted ==
  CASE layout = "table" -> Near
    [] layout = "whole" -> All
    [] OTHER -> Visible

\* Request: not what is there, waits or is known to fail.
Requested(r, q, f) == q \o Those(Wanted, Keys \ (Range(r) \cup Range(q) \cup f))

FaultyTouched(r) == r        \* Get does not count as a use

\* Get: the rows on screen become the ones used last.
Touched(r) ==
  LET got == Those(OnScreen, Range(r))
  IN Reverse(got) \o Those(r, Keys \ Range(got))

\* Insert: the keys in turn, the ones used longest ago have to go.
Inserted(r, ks) ==
  LET all == Reverse(ks) \o r
  IN SubSeq(all, 1, IF Len(all) < MaxSize THEN Len(all) ELSE MaxSize)

Batch(q) == SubSeq(q, 1, IF Len(q) < MaxLoad THEN Len(q) ELSE MaxLoad)
FaultyRest(q) == q           \* what has been loaded waits still

Rest(q) == SubSeq(q, Len(Batch(q)) + 1, Len(q))

\* Request, Get and ProcessLoadQueue of one frame, from a cache that was r, q, f
\* (asked, used and good are bound by \E for TLC to evaluate each of them once).
Rendered(r, q, f) ==
  \E asked \in {Requested(r, q, f)}, used \in {Touched(r)} :
    \E good \in {Those(Batch(asked), Loadable)} :
      /\ recent' = Inserted(used, good)
      /\ queue' = Rest(asked)
      /\ failed' = f \cup (Range(Batch(asked)) \ Range(good))
      /\ made' = [k \in Keys |-> IF k \in Range(good) THEN device ELSE made[k]]
      /\ drawn' = [k \in Range(OnScreen) \cap Range(r) |-> made[k]]

\* OnDeviceReset clears everything.
Reset == Rendered(<<>>, <<>>, {})

Frame ==
  /\ open
  /\ IF device # seen THEN Reset ELSE Rendered(recent, queue, failed)
  /\ seen' = device
  /\ UNCHANGED scene

-----------------------------------------------------------------------------
(* The player, the device and the disk.                                     *)

Scroll ==
  /\ top' \in (1 .. Len(Rows) - Height + 1) \ {top}
  /\ UNCHANGED <<stored, readable, layout, open, device, cache>>

\* SetOpen, and the choice of a tab: a tab that is not drawn keeps what it has.
Toggle ==
  /\ open' = ~open
  /\ UNCHANGED <<stored, readable, layout, top, device, cache>>

DeviceReset ==
  /\ device < MaxGen /\ device' = device + 1
  /\ UNCHANGED <<stored, readable, layout, open, top, cache>>

\* A picture cannot be read, or can be again.
DiskTrouble ==
  /\ \E k \in stored : readable' = IF k \in readable THEN Keys \ {k} ELSE Keys
  /\ UNCHANGED <<stored, layout, open, top, device, cache>>

ThumbnailInit ==
  /\ stored \in Loaded /\ readable = Keys
  /\ layout \in Layouts /\ open = TRUE /\ top = 1
  /\ device = 0 /\ seen = 0
  /\ recent = <<>> /\ queue = <<>> /\ failed = {}
  /\ made = [k \in Keys |-> 0] /\ drawn = [k \in {} |-> 0]

ThumbnailNext == Frame \/ Scroll \/ Toggle \/ DeviceReset \/ DiskTrouble

ThumbnailSpec == ThumbnailInit /\ [][ThumbnailNext]_thumbnailVars

\* The window is drawn in every frame of the game while it is open.
FairThumbnailSpec == ThumbnailSpec /\ WF_thumbnailVars(Frame)

-----------------------------------------------------------------------------
(* Properties.                                                             *)

\* Every variable has a value of its type; lruList_, cache_, loadQueue_ and
\* loading_ tell of each key once, in one of them only ("Skip if already loaded
\* - race condition?" never happens), and the cache keeps its bound.
CacheSound ==
  /\ stored \subseteq Keys /\ readable \subseteq Keys /\ failed \subseteq Keys
  /\ layout \in {"table", "whole", "grid"} /\ open \in BOOLEAN /\ top \in 1 .. Len(Rows)
  /\ {device, seen} \subseteq 0 .. MaxGen
  /\ IsInjective(recent \o queue) /\ Range(recent \o queue) \subseteq Keys \ failed
  /\ Len(recent) <= MaxSize

\* No picture is drawn that was made on a device that is gone, whichever tab was
\* on screen when it went.
NoPictureOfOldDevice == [][\A k \in DOMAIN drawn' : Frame => drawn'[k] = device]_thumbnailVars

\* A picture does not flicker: a row that shows it goes on showing it as long as
\* it stays on screen and the device lives, however many others are loaded, when
\* the cache is larger than the screen and a frame's load together.
NoFlicker ==
  [][(Frame /\ device = seen /\ Len(OnScreen) + MaxLoad <= MaxSize)
       => \A k \in Range(OnScreen) \cap Range(recent) : k \in Range(recent')]_thumbnailVars

\* In the end every row that stays on screen shows its picture, if it can be
\* read and did not fail before, whatever else was asked for on the way there.
Resting(t) == open /\ top = t /\ readable = Keys /\ device = seen
ShownInTheEnd ==
  Len(OnScreen) + MaxLoad <= MaxSize =>
    \A t \in 1 .. Len(Rows) - Height + 1 :
      <>[]Resting(t) => <>[](Range(OnScreen) \cap stored \subseteq Range(recent) \cup failed)
=============================================================================
