--------------------------- MODULE MapToolsProofs ---------------------------
(***************************************************************************)
(* The tools of the map keep their promises for any tools, lots and things. *)
(*                                                                         *)
(* The director: its invariants are inductive together (ToolsInv), and with *)
(* them every step is a step of MapOwner or leaves the owner of the map     *)
(* alone.  The picker: what it lights and outlines is inductive together    *)
(* with two facts (PickerInv): the draw mode it remembers is the decal's    *)
(* own, and as long as nothing in the city changes a search finds again     *)
(* what is lit.                                                            *)
(***************************************************************************)
EXTENDS MapTools, OrderedProofs

-----------------------------------------------------------------------------
(* The director.                                                           *)

\* The flags, the view, the sketches and the status window agree.
ToolsInv ==
  /\ TypeOK
  /\ OneToolAtMost
  /\ OnScreenIsFlagged
  /\ SketchOnScreen
  /\ NoCityNoTool
  /\ StatusShownWhilePainting

\* A control that View3D drops has no sketch afterwards, the others keep theirs.
LEMMA SketchWithoutOK ==
  ASSUME TypeOK, NEW D
  PROVE  /\ SketchWithout(D) \in [Painters -> BOOLEAN]
         /\ \A p \in Painters : SketchWithout(D)[p] <=> sketch[p] /\ p \notin D
  BY DEF SketchWithout, TypeOK

LEMMA CancelWithoutOK ==
  ASSUME TypeOK, NEW D
  PROVE  CancelWithout(D) \in [Tools -> BOOLEAN]
  BY DEF CancelWithout, TypeOK

LEMMA AfterPolicyOK ==
  ASSUME TypeOK, NEW D
  PROVE  /\ AfterPolicy(D) \in [Painters -> BOOLEAN]
         /\ \A p \in Painters : AfterPolicy(D)[p] => pending[p]
  BY DEF AfterPolicy, TypeOK

\* With every other tool asked and the tool itself free, nobody has a sketch.
LEMMA NobodySketches ==
  ASSUME ToolsInv, NEW t \in Tools, CanPrepareFor(t), Reusing(t) => t \notin Painters \/ ~sketch[t]
  PROVE  \A p \in Painters : ~sketch[p]
  BY ToolsAssumption
  DEF ToolsInv, CanPrepareFor, Reusing, SketchOnScreen, OnScreenIsFlagged, Tools

-----------------------------------------------------------------------------
(* The invariant, action by action.                                        *)

LEMMA ToolsStart == Init => ToolsInv
  BY ToolsAssumption
  DEF Init, ToolsInv, TypeOK, OneToolAtMost, OnScreenIsFlagged, SketchOnScreen, NoCityNoTool,
      StatusShownWhilePainting, Tools, Policies

LEMMA StartedOK ==
  ASSUME ToolsInv, NEW t \in Tools, Started(t)
  PROVE  ToolsInv'
<1> USE ToolsAssumption
<1>1. TypeOK'
  BY SketchWithoutOK, CancelWithoutOK, AfterPolicyOK DEF ToolsInv, TypeOK, Started, Only, PanelsHear, Tools
<1>2. OneToolAtMost' /\ OnScreenIsFlagged' /\ NoCityNoTool' /\ StatusShownWhilePainting'
  BY DEF ToolsInv, TypeOK, Started, Only, OneToolAtMost, OnScreenIsFlagged, NoCityNoTool,
         StatusShownWhilePainting, Tools
<1>3. SketchOnScreen'
  <2>1. \A p \in Painters : ~sketch[p]
    BY NobodySketches DEF Started
  <2>2. \A p \in Painters : ~sketch'[p]
    BY <2>1, SketchWithoutOK DEF ToolsInv, Started
  <2> QED
    BY <2>2 DEF SketchOnScreen
<1> QED
  BY <1>1, <1>2, <1>3 DEF ToolsInv

LEMMA NotStartedOK ==
  ASSUME ToolsInv, NEW t \in Tools, NotStarted(t)
  PROVE  ToolsInv'
<1> USE ToolsAssumption
<1>1. TypeOK'
  <2>1. status' \in BOOLEAN
    <3>1. CASE PanelsUpdated
      BY <3>1 DEF PanelsUpdated
    <3>2. CASE status' = (status /\ Others(t) \cap Strippers = {})
      BY <3>2
    <3> QED
      BY <3>1, <3>2 DEF NotStarted
  <2> QED
    BY <2>1, SketchWithoutOK, CancelWithoutOK, AfterPolicyOK DEF ToolsInv, TypeOK, NotStarted, Others
<1>2. \A p \in Painters : ~sketch'[p]
  <2>1. \A p \in Painters : ~sketch[p]
    BY NobodySketches DEF NotStarted
  <2> QED
    BY <2>1, SketchWithoutOK DEF ToolsInv, NotStarted
<1>3. OneToolAtMost' /\ OnScreenIsFlagged' /\ NoCityNoTool'
  BY DEF ToolsInv, TypeOK, NotStarted, OneToolAtMost, OnScreenIsFlagged, NoCityNoTool, Others, Tools
<1>4. StatusShownWhilePainting'
  BY DEF ToolsInv, TypeOK, NotStarted, OneToolAtMost, OnScreenIsFlagged, StatusShownWhilePainting,
         PanelsUpdated, Others, Tools
<1> QED
  BY <1>1, <1>2, <1>3, <1>4 DEF ToolsInv, SketchOnScreen

LEMMA StopOK ==
  ASSUME ToolsInv, NEW t \in Tools, city, Stop(t)
  PROVE  ToolsInv'
<1> USE ToolsAssumption
<1>1. TypeOK'
  <2>1. status' \in BOOLEAN
    <3>1. CASE PanelsUpdated
      BY <3>1 DEF PanelsUpdated
    <3>2. CASE UNCHANGED status
      BY <3>2 DEF ToolsInv, TypeOK
    <3> QED
      BY <3>1, <3>2 DEF Stop
  <2> QED
    BY <2>1, CancelWithoutOK DEF ToolsInv, TypeOK, Stop
<1>2. OneToolAtMost' /\ OnScreenIsFlagged' /\ NoCityNoTool' /\ SketchOnScreen'
  BY DEF ToolsInv, TypeOK, Stop, OneToolAtMost, OnScreenIsFlagged, NoCityNoTool, SketchOnScreen, Tools
<1>3. StatusShownWhilePainting'
  BY DEF ToolsInv, TypeOK, Stop, StatusShownWhilePainting, PanelsUpdated, Tools
<1> QED
  BY <1>1, <1>2, <1>3 DEF ToolsInv

LEMMA ToolInputOK ==
  ASSUME ToolsInv, Input
  PROVE  ToolsInv'
<1> USE ToolsAssumption DEF ToolsInv, TypeOK, OneToolAtMost, OnScreenIsFlagged, SketchOnScreen,
        NoCityNoTool, StatusShownWhilePainting, Tools
<1>1. CASE Cancel
  BY <1>1 DEF Cancel
<1>2. CASE SketchChanges
  BY <1>2 DEF SketchChanges
<1>3. CASE PendingChanges
  BY <1>3 DEF PendingChanges
<1>4. CASE PickClick
  BY <1>4 DEF PickClick
<1> QED
  BY <1>1, <1>2, <1>3, <1>4 DEF Input

LEMMA DeliveryOK ==
  ASSUME ToolsInv, Tick
  PROVE  ToolsInv'
<1> USE ToolsAssumption
<1>1. TypeOK'
  <2>1. status' \in BOOLEAN
    <3>1. CASE status' = status
      BY <3>1 DEF ToolsInv, TypeOK
    <3>2. CASE status' = (current' \in Painters)
      BY <3>2
    <3> QED
      BY <3>1, <3>2 DEF Tick
  <2> QED
    BY <2>1, SketchWithoutOK DEF ToolsInv, TypeOK, Tick
<1>2. OneToolAtMost' /\ OnScreenIsFlagged' /\ NoCityNoTool'
  BY DEF ToolsInv, TypeOK, Tick, OneToolAtMost, OnScreenIsFlagged, NoCityNoTool, Tools
<1>3. SketchOnScreen'
  BY SketchWithoutOK DEF ToolsInv, Tick, SketchOnScreen
<1>4. StatusShownWhilePainting'
  BY DEF ToolsInv, TypeOK, Tick, StatusShownWhilePainting, Tools
<1> QED
  BY <1>1, <1>2, <1>3, <1>4 DEF ToolsInv

LEMMA GameOK ==
  ASSUME ToolsInv, Game
  PROVE  ToolsInv'
<1> USE ToolsAssumption DEF ToolsInv, TypeOK, OneToolAtMost, OnScreenIsFlagged, SketchOnScreen,
        NoCityNoTool, StatusShownWhilePainting, Tools
<1>1. CASE ReplacedByGame
  BY <1>1, SketchWithoutOK, CancelWithoutOK DEF ReplacedByGame
<1>2. CASE CityInit
  BY <1>2 DEF CityInit
<1>3. CASE CityShutdown
  BY <1>3, CancelWithoutOK DEF CityShutdown, AllStopped
<1>4. CASE AppShutdown
  BY <1>4 DEF AppShutdown, AllStopped
<1> QED
  BY <1>1, <1>2, <1>3, <1>4 DEF Game

LEMMA ToolsStep == ToolsInv /\ [Next]_vars => ToolsInv'
<1> SUFFICES ASSUME ToolsInv, [Next]_vars PROVE ToolsInv'
  OBVIOUS
<1>1. CASE Input
  BY <1>1, ToolInputOK
<1>2. ASSUME NEW t \in Tools, Started(t) \/ NotStarted(t) \/ (city /\ Stop(t)) \/ QuickSwap(t)
      PROVE  ToolsInv'
  BY <1>2, StartedOK, NotStartedOK, StopOK DEF QuickSwap
<1>3. CASE Tick
  BY <1>3, DeliveryOK
<1>4. CASE Game
  BY <1>4, GameOK
<1>5. CASE UNCHANGED vars
  BY <1>5 DEF vars, ToolsInv, TypeOK, OneToolAtMost, OnScreenIsFlagged, SketchOnScreen,
              NoCityNoTool, StatusShownWhilePainting
<1> QED
  BY <1>1, <1>2, <1>3, <1>4, <1>5 DEF Next, Director

-----------------------------------------------------------------------------
(* The theorems about the invariants.                                      *)

\* The director's flags, the view and the sketches agree in every reachable
\* state: the inductive invariant holds.
THEOREM ToolsInvariance == Spec => []ToolsInv
  BY ToolsStart, ToolsStep, PTL DEF Spec

\* Every variable of the director keeps a value of its type.
THEOREM ToolsTypeCorrect == Spec => []TypeOK
<1>1. ToolsInv => TypeOK
  BY DEF ToolsInv
<1> QED
  BY <1>1, ToolsInvariance, PTL

\* PrepareForExclusiveActivation_ and the stops never leave two tools active or
\* a sketch off the screen, and PreCityShutdown_ leaves none, with nothing pending.
THEOREM OneToolAndOnlyInCity == Spec => []OneToolInCity
<1>1. ToolsInv => OneToolInCity
  BY DEF ToolsInv, OneToolInCity
<1> QED
  BY <1>1, ToolsInvariance, PTL

\* The tool that View3D shows is always one the director can stop.
THEOREM OnScreenMeansFlagged == Spec => []OnScreenIsFlagged
<1>1. ToolsInv => OnScreenIsFlagged
  BY DEF ToolsInv
<1> QED
  BY <1>1, ToolsInvariance, PTL

\* No sketch is left on a painter that is off the screen.
THEOREM SketchesAreOnScreen == Spec => []SketchOnScreen
<1>1. ToolsInv => SketchOnScreen
  BY DEF ToolsInv
<1> QED
  BY <1>1, ToolsInvariance, PTL

\* The status window is never missing while a painter is on screen.
THEOREM StatusAccompaniesPainting == Spec => []StatusShownWhilePainting
<1>1. ToolsInv => StatusShownWhilePainting
  BY DEF ToolsInv
<1> QED
  BY <1>1, ToolsInvariance, PTL

-----------------------------------------------------------------------------
(* ToolSwitching implements MapOwner.                                      *)

Busy == \E p \in Painters : sketch[p]

\* The owner of the map is the tool with the flag.
LEMMA OwnerIsFlagged ==
  ASSUME OneToolAtMost, NEW t \in Tools
  PROVE  /\ flag[t] => Owner = t
         /\ (\A u \in Tools : ~flag[u]) => Owner = Nobody
<1>1. ASSUME flag[t] PROVE Owner = t
  <2>1. Active = {t}
    BY <1>1 DEF Active, OneToolAtMost
  <2> QED
    BY <2>1 DEF Owner
<1>2. ASSUME \A u \in Tools : ~flag[u] PROVE Owner = Nobody
  BY <1>2 DEF Owner, Active
<1> QED
  BY <1>1, <1>2

\* The same after a step.
LEMMA NextOwnerIsFlagged ==
  ASSUME OneToolAtMost', NEW t \in Tools
  PROVE  /\ flag'[t] => Owner' = t
         /\ (\A u \in Tools : ~flag'[u]) => Owner' = Nobody
<1>1. ASSUME flag'[t] PROVE Owner' = t
  <2>1. Active' = {t}
    BY <1>1 DEF Active, OneToolAtMost
  <2> QED
    BY <2>1 DEF Owner
<1>2. ASSUME \A u \in Tools : ~flag'[u] PROVE Owner' = Nobody
  BY <1>2 DEF Owner, Active
<1> QED
  BY <1>1, <1>2

\* While there is a sketch its painter is on screen and owns the map.
LEMMA BusyOwner ==
  ASSUME ToolsInv, Busy
  PROVE  /\ current \in Painters /\ sketch[current] /\ flag[current]
         /\ \A p \in Painters \ {current} : ~sketch[p]
  BY DEF ToolsInv, Busy, SketchOnScreen, OnScreenIsFlagged, Tools

LEMMA BusyIsBoolean == Busy \in BOOLEAN /\ Busy' \in BOOLEAN
  BY DEF Busy

Claims == \E t \in Tools : Abstract!Claim(t)

LEMMA StartedClaims ==
  ASSUME ToolsInv, ToolsInv', NEW t \in Tools, Started(t)
  PROVE  Claims
<1>1. \A p \in Painters : ~sketch[p]
  BY NobodySketches DEF Started
<1>2. \A p \in Painters : ~sketch'[p]
  BY <1>1, SketchWithoutOK DEF ToolsInv, Started
<1>3. flag'[t]
  BY DEF Started, Only
<1>4. Owner' = t
  BY <1>3, NextOwnerIsFlagged DEF ToolsInv
<1> QED
  BY <1>1, <1>2, <1>4 DEF Claims, Abstract!Claim

LEMMA NotStartedReleases ==
  ASSUME ToolsInv, ToolsInv', NEW t \in Tools, NotStarted(t)
  PROVE  Abstract!Release \/ UNCHANGED <<Owner, Busy>>
<1>1. ~Busy
  BY NobodySketches DEF NotStarted, Busy
<1>2. ~Busy'
  BY <1>1, SketchWithoutOK DEF ToolsInv, NotStarted, Busy
<1>3. CASE flag[t]
  <2>1. flag'[t]
    BY <1>3 DEF NotStarted
  <2> QED
    BY <1>1, <1>2, <1>3, <2>1, BusyIsBoolean, OwnerIsFlagged, NextOwnerIsFlagged DEF ToolsInv
<1>4. CASE ~flag[t]
  <2>1. \A u \in Tools : ~flag'[u]
    BY <1>4 DEF NotStarted
  <2>2. Owner' = Nobody
    BY <2>1, NextOwnerIsFlagged DEF ToolsInv
  <2> QED
    BY <1>2, <2>2 DEF Abstract!Release, Busy
<1> QED
  BY <1>3, <1>4

LEMMA StopReleases ==
  ASSUME ToolsInv, ToolsInv', NEW t \in Tools, Stop(t)
  PROVE  Abstract!Release \/ UNCHANGED <<Owner, Busy>>
<1>1. CASE flag[t]
  <2>1. \A u \in Tools : ~flag'[u]
    BY <1>1 DEF Stop, ToolsInv, OneToolAtMost, TypeOK
  <2>2. ~Busy'
    <3>1. \A p \in Painters : sketch[p] => p = t
      BY <1>1 DEF ToolsInv, OneToolAtMost, SketchOnScreen, OnScreenIsFlagged, Tools
    <3> QED
      BY <3>1 DEF Stop, Busy
  <2>3. Owner' = Nobody
    BY <2>1, NextOwnerIsFlagged DEF ToolsInv
  <2> QED
    BY <2>2, <2>3 DEF Abstract!Release, Busy
<1>2. CASE ~flag[t]
  <2>1. flag' = flag
    BY <1>2 DEF Stop, ToolsInv, TypeOK
  <2>2. sketch' = sketch
    <3>1. \A p \in Painters : sketch[p] => p # t
      BY <1>2 DEF ToolsInv, SketchOnScreen, OnScreenIsFlagged, Tools
    <3> QED
      BY <3>1 DEF Stop, ToolsInv, TypeOK
  <2> QED
    BY <2>1, <2>2 DEF Owner, Active, Busy
<1> QED
  BY <1>1, <1>2

LEMMA InputWorks ==
  ASSUME ToolsInv, ToolsInv', Input
  PROVE  Abstract!Work \/ UNCHANGED <<Owner, Busy>>
<1>1. UNCHANGED flag
  BY DEF Input, Cancel, SketchChanges, PendingChanges, PickClick
<1>2. UNCHANGED Owner
  BY <1>1 DEF Owner, Active
<1>3. CASE current \in Tools
  <2>1. Owner = current
    BY <1>3, OwnerIsFlagged DEF ToolsInv, OnScreenIsFlagged
  <2>2. Owner # Nobody
    BY <1>3, <2>1, ToolsAssumption
  <2> QED
    BY <1>2, <2>2, BusyIsBoolean DEF Abstract!Work, Busy
<1>4. CASE current \notin Tools
  BY <1>4, ToolsAssumption DEF Input, Cancel, SketchChanges, PendingChanges, PickClick, Tools
<1> QED
  BY <1>3, <1>4

LEMMA TickReleases ==
  ASSUME ToolsInv, ToolsInv', Tick
  PROVE  Abstract!Release \/ UNCHANGED <<Owner, Busy>>
<1>1. CASE \E t \in Due : flag[t]
  <2>1. \A u \in Tools : ~flag'[u]
    BY <1>1 DEF Tick, Due, ToolsInv, OneToolAtMost
  <2>2. Owner' = Nobody
    BY <2>1, NextOwnerIsFlagged, <1>1 DEF ToolsInv, Due
  <2>3. current' \notin Painters
    BY <2>1 DEF ToolsInv, OnScreenIsFlagged, Tools
  <2>4. ~Busy'
    BY <2>3 DEF ToolsInv, SketchOnScreen, Busy
  <2> QED
    BY <2>2, <2>4 DEF Abstract!Release, Busy
<1>2. CASE \A t \in Due : ~flag[t]
  <2>1. flag' = flag
    BY <1>2 DEF Tick, ToolsInv, TypeOK
  <2>2. current \notin Due
    BY <1>2 DEF ToolsInv, OnScreenIsFlagged, Due
  <2>3. sketch' = sketch
    BY <2>2 DEF Tick, SketchWithout, ToolsInv, TypeOK
  <2> QED
    BY <2>1, <2>3 DEF Owner, Active, Busy
<1> QED
  BY <1>1, <1>2

LEMMA GameReleases ==
  ASSUME ToolsInv, ToolsInv', Game
  PROVE  Abstract!Work \/ Abstract!Release \/ UNCHANGED <<Owner, Busy>>
<1>1. CASE ReplacedByGame
  <2>1. PICK t \in Tools : t = current
    BY <1>1 DEF ReplacedByGame
  <2>2. flag[t] /\ Owner = t /\ Owner # Nobody
    BY <2>1, OwnerIsFlagged, ToolsAssumption DEF ToolsInv, OnScreenIsFlagged
  <2>3. ~Busy'
    BY <1>1, SketchWithoutOK DEF ToolsInv, ReplacedByGame, SketchOnScreen, Busy
  <2>4. CASE flag'[t]
    <3>1. Owner' = Owner
      BY <2>2, <2>4, NextOwnerIsFlagged DEF ToolsInv
    <3> QED
      BY <2>2, <2>3, <3>1, BusyIsBoolean DEF Abstract!Work, Busy
  <2>5. CASE ~flag'[t]
    <3>1. \A u \in Tools : ~flag'[u]
      BY <1>1, <2>1, <2>2, <2>5 DEF ReplacedByGame, ToolsInv, OneToolAtMost, TypeOK
    <3>2. Owner' = Nobody
      BY <3>1, NextOwnerIsFlagged DEF ToolsInv
    <3> QED
      BY <2>3, <3>2 DEF Abstract!Release, Busy
  <2> QED
    BY <2>4, <2>5
<1>2. CASE CityInit
  BY <1>2 DEF CityInit, Owner, Active, Busy
<1>3. CASE CityShutdown \/ AppShutdown
  <2>1. \A u \in Tools : ~flag'[u]
    BY <1>3 DEF CityShutdown, AppShutdown, AllStopped
  <2>2. Owner' = Nobody
    BY <2>1, NextOwnerIsFlagged, Picker \in Tools DEF ToolsInv, Tools
  <2>3. ~Busy'
    BY <1>3 DEF CityShutdown, AppShutdown, AllStopped, Busy
  <2> QED
    BY <2>2, <2>3 DEF Abstract!Release, Busy
<1> QED
  BY <1>1, <1>2, <1>3 DEF Game

LEMMA OwnerInitOK == Init => Abstract!OwnerInit
  BY DEF Init, Abstract!OwnerInit, Owner, Active

LEMMA OwnerStepOK == ToolsInv /\ ToolsInv' /\ [Next]_vars => [Abstract!OwnerNext]_<<Owner, Busy>>
<1> SUFFICES ASSUME ToolsInv, ToolsInv', [Next]_vars
             PROVE  [Abstract!OwnerNext]_<<Owner, Busy>>
  OBVIOUS
<1>1. CASE Input
  BY <1>1, InputWorks DEF Abstract!OwnerNext
<1>2. ASSUME NEW t \in Tools, Started(t) \/ NotStarted(t) \/ (city /\ Stop(t)) \/ QuickSwap(t)
      PROVE  [Abstract!OwnerNext]_<<Owner, Busy>>
  <2>1. CASE Started(t) \/ QuickSwap(t)
    BY <2>1, StartedClaims DEF QuickSwap, Claims, Abstract!OwnerNext
  <2>2. CASE NotStarted(t)
    BY <2>2, NotStartedReleases DEF Abstract!OwnerNext
  <2>3. CASE Stop(t)
    BY <2>3, StopReleases DEF Abstract!OwnerNext
  <2> QED
    BY <1>2, <2>1, <2>2, <2>3
<1>3. CASE Tick
  BY <1>3, TickReleases DEF Abstract!OwnerNext
<1>4. CASE Game
  BY <1>4, GameReleases DEF Abstract!OwnerNext
<1>5. CASE UNCHANGED vars
  BY <1>5 DEF vars, Owner, Active, Busy
<1> QED
  BY <1>1, <1>2, <1>3, <1>4, <1>5 DEF Next, Director

\* The director implements MapOwner: at most one tool owns the map, and no
\* tool takes it from one with an unfinished sketch.
THEOREM ToolsImplementMapOwner == Spec => ImplementsMapOwner
<1>1. Init => Abstract!OwnerInit
  BY OwnerInitOK
<1>2. ToolsInv /\ ToolsInv' /\ [Next]_vars => [Abstract!OwnerNext]_Abstract!ovars
  BY OwnerStepOK DEF Abstract!ovars, Busy
<1> QED
  BY <1>1, <1>2, ToolsInvariance, PTL DEF Spec, ImplementsMapOwner, Abstract!OwnerSpec

-----------------------------------------------------------------------------
(* The scene picker: its invariant, in parts that the lemmas speak of.      *)

Results == Things \cup Textures \cup Lots

\* What is on the map is around the cursor.
Around(c, rects) == rects # {} => c \in Points /\ \A r \in rects : Within(c, r)

\* The decal that stands out is drawn as it is to be drawn later.
OriginalKept == \A d \in Decals \cap present : mark = d => original = d.mode

\* As long as the scene is the same, what is lit is what a search finds.
StillFound ==
  fresh /\ hovered # NoResult =>
    /\ hovered = PickAt(cursor, offset)
    /\ mode = "decal" => keys = KeysAt(cursor)

PickerInv ==
  /\ PickerTypeOK /\ PickerLeavesNoTrace /\ OriginalKept /\ StillFound
  /\ Around(cursor, OutlinesOf(hovered)) /\ Around(cursor, overlay.outlines)

-----------------------------------------------------------------------------
(* The rectangles on the map.                                              *)

\* The quotient of C++'s division rounded down.
LEMMA DivOK ==
  ASSUME NEW a \in Int, NEW k \in Nat \ {0}
  PROVE  a \div k \in Int /\ (a \div k) * k <= a /\ a <= (a \div k + 1) * k
OBVIOUS

LEMMA ModOK ==
  ASSUME NEW a \in Int, NEW k \in Nat \ {0}
  PROVE  a % k \in 0 .. k - 1
OBVIOUS

\* A multiple of more is more.
LEMMA TimesOK ==
  ASSUME NEW a \in Int, NEW b \in Int, NEW k \in Nat, a <= b
  PROVE  a * k <= b * k
<1>1. (b - a) * k >= 0
  OBVIOUS
<1> QED
  BY <1>1

\* The lot's rectangle is around the points of its cells.
LEMMA LotIsAround ==
  ASSUME PickerAssumption, NEW c \in Plane, NEW l \in LotsAt(c)
  PROVE  Within(c, LotOutline(l))
<1> DEFINE k == CellSize
           i == c.x \div k
           j == c.z \div k
<1>1. k \in Nat \ {0} /\ c.x \in Int /\ c.z \in Int
  BY DEF PickerAssumption, Plane
<1>2. l.minX \in Int /\ l.maxX \in Int /\ l.minZ \in Int /\ l.maxZ \in Int
  BY DEF PickerAssumption, LotsAt
<1>3. i \in l.minX .. l.maxX /\ j \in l.minZ .. l.maxZ
  BY DEF LotsAt, CellOf
<1>4. i \in Int /\ i * k <= c.x /\ c.x <= (i + 1) * k
  BY <1>1, DivOK
<1>5. j \in Int /\ j * k <= c.z /\ c.z <= (j + 1) * k
  BY <1>1, DivOK
<1> HIDE DEF i, j
<1>6. l.minX * k <= i * k /\ (i + 1) * k <= (l.maxX + 1) * k
  BY <1>1, <1>2, <1>3, <1>4, TimesOK
<1>7. l.minZ * k <= j * k /\ (j + 1) * k <= (l.maxZ + 1) * k
  BY <1>1, <1>2, <1>3, <1>5, TimesOK
<1>8. l.minX * k \in Int /\ (l.maxX + 1) * k \in Int /\ l.minZ * k \in Int /\ (l.maxZ + 1) * k \in Int
      /\ i * k \in Int /\ (i + 1) * k \in Int /\ j * k \in Int /\ (j + 1) * k \in Int
  BY <1>1, <1>2, <1>4, <1>5
<1>9. c.x \in l.minX * k .. (l.maxX + 1) * k /\ c.z \in l.minZ * k .. (l.maxZ + 1) * k
  BY <1>1, <1>4, <1>5, <1>6, <1>7, <1>8
<1> QED
  BY <1>9 DEF Within, LotOutline

\* What a texture and its lot are made of.
LEMMA TextureIs ==
  ASSUME PickerAssumption, NEW t \in Textures
  PROVE  /\ t.lot \in Lots /\ t.object \in DOMAIN t.lot.objects
         /\ t.lot.objects[t.object] \in Pieces
         /\ \E f \in [x : Int, z : Int, w : Int, d : Int, facing : 0 .. 3] : Frame(t.lot) = f
<1>1. t.lot \in Lots /\ t.object \in DOMAIN t.lot.objects
  BY DEF Textures
<1>2. t.lot \in [minX : Int, maxX : Int, minZ : Int, maxZ : Int, facing : Nat, objects : Seq(Pieces)]
  BY <1>1 DEF PickerAssumption
<1>3. t.lot.objects[t.object] \in Pieces
  <2>1. t.lot.objects \in Seq(Pieces)
    BY <1>2
  <2>2. t.object \in 1 .. Len(t.lot.objects)
    BY <1>1, <2>1, LenProperties
  <2> QED
    BY <2>1, <2>2, ElementOfSeq
<1>4. CellSize \in Int /\ (t.lot.facing + 2) % 4 \in 0 .. 3
  <2>1. PICK n \in Nat : t.lot.facing = n
    BY <1>2
  <2>2. n + 2 \in Int /\ 4 \in Nat \ {0}
    OBVIOUS
  <2>3. (n + 2) % 4 \in 0 .. 4 - 1
    BY <2>2, ModOK
  <2>4. CellSize \in Int
    BY DEF PickerAssumption
  <2> QED
    BY <2>1, <2>3, <2>4
<1>5. Frame(t.lot) \in [x : Int, z : Int, w : Int, d : Int, facing : 0 .. 3]
  <2>1. PICK a \in Int, b \in Int, p \in Int, q \in Int :
          t.lot.minX = a /\ t.lot.maxX = b /\ t.lot.minZ = p /\ t.lot.maxZ = q
    BY <1>2
  <2>2. PICK k \in Int : CellSize = k
    BY <1>4
  <2>3. a * k \in Int /\ p * k \in Int /\ (b - a + 1) * k \in Int /\ (q - p + 1) * k \in Int
    OBVIOUS
  <2>4. PICK facing \in 0 .. 3 : (t.lot.facing + 2) % 4 = facing
    BY <1>4
  <2>5. Frame(t.lot) = [x |-> a * k, z |-> p * k, w |-> (b - a + 1) * k, d |-> (q - p + 1) * k, facing |-> facing]
    BY <2>1, <2>2, <2>4 DEF Frame
  <2> QED
    BY <2>3, <2>5
<1> QED
  BY <1>1, <1>3, <1>5

\* The texture that was looked up in the lot's space is outlined around the cursor.
LEMMA TextureIsAround ==
  ASSUME PickerAssumption, NEW c \in Plane, NEW t \in TexturesAt(c)
  PROVE  Within(c, TextureOutline(t))
<1>1. PICK f \in [x : Int, z : Int, w : Int, d : Int, facing : 0 .. 3] : Frame(t.lot) = f
  BY TextureIs DEF TexturesAt
<1> DEFINE r == t.lot.objects[t.object].rect
<1>2. r.minX \in Int /\ r.maxX \in Int /\ r.minZ \in Int /\ r.maxZ \in Int
  BY TextureIs DEF TexturesAt, Pieces, Rects
<1>3. Within(WorldToLotLocal(f, c), r)
  BY <1>1 DEF TexturesAt
<1>4. c.x \in Int /\ c.z \in Int /\ f.x \in Int /\ f.z \in Int /\ f.w \in Int /\ f.d \in Int
  BY DEF Plane
<1>5. TextureOutline(t) = Spanning(LotLocalToWorld(f, [x |-> r.minX, z |-> r.minZ]),
                                   LotLocalToWorld(f, [x |-> r.maxX, z |-> r.maxZ]))
  BY <1>1 DEF TextureOutline
<1> HIDE DEF r
<1>6. CASE f.facing = 0
  BY <1>2, <1>3, <1>4, <1>5, <1>6 DEF Within, WorldToLotLocal, LotLocalToWorld, Spanning
<1>7. CASE f.facing = 1
  BY <1>2, <1>3, <1>4, <1>5, <1>7 DEF Within, WorldToLotLocal, LotLocalToWorld, Spanning
<1>8. CASE f.facing = 2
  BY <1>2, <1>3, <1>4, <1>5, <1>8 DEF Within, WorldToLotLocal, LotLocalToWorld, Spanning
<1>9. CASE f.facing = 3
  BY <1>2, <1>3, <1>4, <1>5, <1>9 DEF Within, WorldToLotLocal, LotLocalToWorld, Spanning
<1> QED
  BY <1>6, <1>7, <1>8, <1>9

-----------------------------------------------------------------------------
(* What a search finds.                                                    *)

\* The lists of the game, by what is on them.
LEMMA ListsOK ==
  ASSUME PickerAssumption
  PROVE  /\ PropList \in Seq(Occupants) /\ FloraList \in Seq(Occupants) /\ DecalList \in Seq(Decals)
         /\ DOMAIN DecalList = 1 .. Len(DecalList) /\ Len(DecalList) \in Nat
         /\ \A d \in Decals : d.at \in Plane /\ d.mode \in Nat
         /\ \A i \in DOMAIN DecalList : DecalList[i] \in Decals
<1>1. ASSUME NEW S, NEW A, NEW s \in Seq(A), Range(s) \subseteq S PROVE s \in Seq(S)
  <2>1. PICK n \in Nat : s \in [1 .. n -> A]
    BY SeqDef
  <2>2. s \in [1 .. n -> S]
    BY <1>1, <2>1 DEF Range
  <2> QED
    BY <2>1, <2>2, SeqDef
<1>2. PropList \in Seq(Occupants) /\ FloraList \in Seq(Occupants) /\ DecalList \in Seq(Decals)
  BY <1>1 DEF PickerAssumption, Occupants, Decals
<1>3. DecalList \in Seq([id : Nat, at : Plane, mode : Nat])
  BY DEF PickerAssumption
<1>4. \A i \in DOMAIN DecalList : DecalList[i] \in [id : Nat, at : Plane, mode : Nat]
  BY <1>3, ElementOfSeq, LenProperties
<1>5. \A d \in Decals : d.at \in Plane /\ d.mode \in Nat
  BY <1>4 DEF Decals, Range
<1>6. DOMAIN DecalList = 1 .. Len(DecalList) /\ Len(DecalList) \in Nat
  BY <1>3, LenProperties
<1>7. \A i \in DOMAIN DecalList : DecalList[i] \in Decals
  BY DEF Decals, Range
<1> QED
  BY <1>2, <1>5, <1>6, <1>7

\* The nearest of the props and of the flora is one of them.
LEMMA NearestOK ==
  ASSUME NEW s \in Seq(Occupants), NEW c
  PROVE  Nearest(s, c) \in Occupants \cup {NoResult}
<1>1. \A i \in DOMAIN s : s[i] \in Occupants
  BY LenProperties, ElementOfSeq
<1> DEFINE best == {i \in DOMAIN s :
                      /\ DistSq(s[i].at, c) <= Radius * Radius
                      /\ \A j \in DOMAIN s :
                           \/ DistSq(s[i].at, c) < DistSq(s[j].at, c)
                           \/ DistSq(s[i].at, c) = DistSq(s[j].at, c) /\ i <= j}
<1>2. Nearest(s, c) = IF best = {} THEN NoResult ELSE s[CHOOSE i \in best : TRUE]
  BY DEF Nearest
<1>3. best \subseteq DOMAIN s
  OBVIOUS
<1> HIDE DEF best
<1>4. best # {} => (CHOOSE i \in best : TRUE) \in best
  OBVIOUS
<1> QED
  BY <1>1, <1>2, <1>3, <1>4

LEMMA PropCandidatesOK ==
  ASSUME PickerAssumption, NEW c
  PROVE  PropCandidates(c) \in Seq(Occupants) /\ FloraCandidates \in Seq(Occupants)
<1> DEFINE from(s) == Picked(PropList, {i \in DOMAIN PropList :
                        /\ PropList[i].source = s /\ s \in sources
                        /\ PropList[i] \in present /\ Collected(PropList[i], c) /\ InSeason(PropList[i])})
<1>1. ASSUME NEW s PROVE from(s) \in Seq(Occupants)
  BY ListsOK, PickedOK
<1>2. PropCandidates(c) = from("City") \o from("Lot") \o from("Street")
  BY DEF PropCandidates
<1> HIDE DEF from
<1>3. PropCandidates(c) \in Seq(Occupants)
  BY <1>1, <1>2, ConcatProperties
<1>4. FloraCandidates \in Seq(Occupants)
  BY ListsOK, PickedOK DEF FloraCandidates
<1> QED
  BY <1>3, <1>4

LEMMA DistOK ==
  ASSUME NEW p \in Plane, NEW q \in Plane
  PROVE  DistSq(p, q) \in Int
BY DEF DistSq, Plane

\* The decals within reach, the nearest first.
LEMMA DecalCandidatesOK ==
  ASSUME PickerAssumption, NEW c \in Plane
  PROVE  DecalCandidates(c) \in Seq(Decals)
<1> DEFINE dist(i) == DistSq(DecalList[i].at, c)
           near == {i \in DOMAIN DecalList : DecalList[i] \in present /\ dist(i) < DecalRadius * DecalRadius}
           R == {p \in near \X near : \/ dist(p[1]) < dist(p[2])
                                      \/ dist(p[1]) = dist(p[2]) /\ p[1] < p[2]}
           n == Cardinality(near)
<1>1. \A i \in near : dist(i) \in Int
  BY ListsOK, DistOK
<1>2. near \subseteq 1 .. Len(DecalList) /\ Len(DecalList) \in Nat
      /\ \A i \in near : DecalList[i] \in Decals
  BY ListsOK
<1>3. IsFiniteSet(near)
  BY <1>2, FiniteUpTo, FS_Subset
<1>4. DecalCandidates(c) = [k \in 1 .. n |-> DecalList[Sorted(near, R)[k]]]
  BY DEF DecalCandidates
<1>5. near \subseteq Int
  BY <1>2
<1>6. StrictlyOrders(R, near)
  <2> HIDE DEF dist
  <2>1. \A x, y \in near : <<x, y>> \in R <=> dist(x) < dist(y) \/ (dist(x) = dist(y) /\ x < y)
    OBVIOUS
  <2> HIDE DEF R, near
  <2> QED
    BY <1>1, <1>5, <2>1 DEF StrictlyOrders
<1> HIDE DEF near, R, n
<1>7. n \in Nat /\ Sorted(near, R) \in [1 .. n -> near]
  BY <1>3, <1>6, SortedOK DEF n
<1>8. DecalCandidates(c) \in [1 .. n -> Decals]
  BY <1>2, <1>4, <1>7
<1> QED
  BY <1>7, <1>8, SeqDef

\* The order of the textures on a lot.
LEMMA TextureOrder ==
  ASSUME PickerAssumption, NEW c \in Plane
  PROVE  /\ IsFiniteSet(TexturesAt(c))
         /\ StrictlyOrders({p \in TexturesAt(c) \X TexturesAt(c) : DrawnOver(p[1], p[2])}, TexturesAt(c))
<1> DEFINE T == TexturesAt(c)
           R == {p \in T \X T : DrawnOver(p[1], p[2])}
<1>1. \A s, t \in T : s.lot = t.lot
  <2> SUFFICES ASSUME NEW s \in T, NEW t \in T PROVE s.lot = t.lot
    OBVIOUS
  <2>1. s.lot \in LotsAt(c) /\ t.lot \in LotsAt(c)
    BY DEF TexturesAt
  <2>2. c.x \div CellSize \in Int /\ c.z \div CellSize \in Int
    BY DivOK DEF PickerAssumption, Plane
  <2>3. \A l \in Lots : l.minX \in Int /\ l.maxX \in Int /\ l.minZ \in Int /\ l.maxZ \in Int
    BY DEF PickerAssumption
  <2>4. \A l \in LotsAt(c) : /\ l \in Lots /\ l.minX <= c.x \div CellSize /\ c.x \div CellSize <= l.maxX
                             /\ l.minZ <= c.z \div CellSize /\ c.z \div CellSize <= l.maxZ
    BY <2>2, <2>3 DEF LotsAt, CellOf
  <2>5. \A l, m \in Lots : l # m => \/ l.maxX < m.minX \/ m.maxX < l.minX
                                   \/ l.maxZ < m.minZ \/ m.maxZ < l.minZ
    BY DEF PickerAssumption
  <2> HIDE DEF T
  <2> DEFINE i == c.x \div CellSize
             j == c.z \div CellSize
  <2>6. i \in Int /\ j \in Int
    BY <2>2
  <2>7. \A l \in LotsAt(c) : l \in Lots /\ l.minX <= i /\ i <= l.maxX /\ l.minZ <= j /\ j <= l.maxZ
    BY <2>4
  <2> HIDE DEF i, j
  <2> QED
    BY <2>1, <2>3, <2>5, <2>6, <2>7
<1>2. IsFiniteSet(T)
  <2>1. CASE T = {}
    BY <2>1, FS_EmptySet
  <2>2. CASE T # {}
    <3>1. PICK t \in T : TRUE
      BY <2>2
    <3> DEFINE n == Len(t.lot.objects)
               made == {[lot |-> t.lot, object |-> i] : i \in 1 .. n}
    <3>2. t.lot \in Lots
      BY TextureIs DEF TexturesAt
    <3>3. t.lot.objects \in Seq(Pieces)
      BY <3>2 DEF PickerAssumption
    <3>4. n \in Nat /\ DOMAIN t.lot.objects = 1 .. n
      BY <3>3, LenProperties
    <3>5. \A s \in T : \E i \in DOMAIN s.lot.objects : s = [lot |-> s.lot, object |-> i]
      BY DEF TexturesAt, Textures
    <3>6. T \subseteq made
      <4> HIDE DEF T
      <4> QED
        BY <1>1, <3>4, <3>5
    <3> HIDE DEF n
    <3>7. IsFiniteSet(made)
      <4> DEFINE f == [i \in 1 .. n |-> [lot |-> t.lot, object |-> i]]
      <4>1. f \in Surjection(1 .. n, made)
        BY DEF Surjection
      <4> HIDE DEF f, made
      <4> QED
        BY <3>4, <4>1, FiniteUpTo, FS_Surjection
    <3> HIDE DEF made, T
    <3> QED
      BY <3>6, <3>7, FS_Subset
  <2> QED
    BY <2>1, <2>2
<1>3. \A t \in T : IsBase(t) \in BOOLEAN /\ Area(t) \in Int /\ t.object \in Int
  <2> SUFFICES ASSUME NEW t \in Textures PROVE IsBase(t) \in BOOLEAN /\ Area(t) \in Int /\ t.object \in Int
    BY DEF TexturesAt
  <2>1. t.lot.objects[t.object] \in Pieces /\ t.lot \in Lots /\ t.object \in DOMAIN t.lot.objects
    BY TextureIs
  <2>2. t.lot.objects \in Seq(Pieces)
    BY <2>1 DEF PickerAssumption
  <2>3. t.object \in 1 .. Len(t.lot.objects) /\ Len(t.lot.objects) \in Nat
    BY <2>1, <2>2, LenProperties
  <2>4. IsBase(t) \in BOOLEAN
    BY <2>1 DEF IsBase, Pieces
  <2>5. Area(t) \in Int
    BY <2>1 DEF Area, Pieces, Rects
  <2> QED
    BY <2>3, <2>4, <2>5
<1>4. \A s, t \in T : s.object = t.object => s = t
  <2>1. \A s \in T : \E i \in DOMAIN s.lot.objects : s = [lot |-> s.lot, object |-> i]
    BY DEF TexturesAt, Textures
  <2> HIDE DEF T
  <2> QED
    BY <1>1, <2>1
<1>5. \A s, t \in T : <<s, t>> \in R <=> DrawnOver(s, t)
  OBVIOUS
<1> HIDE DEF T, R
<1>6. \A s, t \in T : DrawnOver(s, t) <=>
        \/ ~IsBase(s) /\ IsBase(t)
        \/ (IsBase(s) <=> IsBase(t)) /\ Area(s) < Area(t)
        \/ (IsBase(s) <=> IsBase(t)) /\ Area(s) = Area(t) /\ s.object > t.object
  BY <1>3 DEF DrawnOver
<1>7. StrictlyOrders(R, T)
  BY <1>3, <1>4, <1>5, <1>6 DEF StrictlyOrders
<1> QED
  BY <1>2, <1>7 DEF T, R

\* The stack of the wheel: decals within reach and textures around the cursor.
LEMMA StackOK ==
  ASSUME PickerAssumption, NEW c \in Plane
  PROVE  Stack(c) \in Seq(Decals \cup TexturesAt(c)) /\ Len(Stack(c)) \in Nat
<1>1. DecalCandidates(c) \in Seq(Decals)
  BY DecalCandidatesOK
<1>2. TextureCandidates(c) \in Seq(TexturesAt(c))
  BY TextureOrder, SortedOK DEF TextureCandidates
<1>3. ASSUME NEW A, NEW B, NEW s \in Seq(A) PROVE s \in Seq(A \cup B)
  BY SeqDef, LenProperties
<1>4. DecalCandidates(c) \in Seq(Decals \cup TexturesAt(c))
  BY <1>1, <1>3
<1>5. TextureCandidates(c) \in Seq(Decals \cup TexturesAt(c))
  <2>1. TextureCandidates(c) \in Seq(TexturesAt(c) \cup Decals)
    BY <1>2, <1>3
  <2>2. TexturesAt(c) \cup Decals = Decals \cup TexturesAt(c)
    OBVIOUS
  <2> QED
    BY <2>1, <2>2
<1> QED
  BY <1>4, <1>5, ConcatProperties, LenProperties DEF Stack

\* A search finds nothing, or a thing, or a texture or a lot around the cursor.
LEMMA PickOK ==
  ASSUME PickerAssumption, NEW c \in Points, NEW k \in Int, mode \in Modes
  PROVE  PickAt(c, k) \in Results \cup {NoResult} /\ Around(c, OutlinesOf(PickAt(c, k)))
<1> DEFINE found == PickAt(c, k)
<1>1. c \in Plane
  BY DEF PickerAssumption
<1>2. Occupants \subseteq Things /\ Decals \subseteq Things
  BY DEF Occupants, Decals, Things
<1>3. \/ found = NoResult \/ found \in Things \/ found \in TexturesAt(c) \/ found \in LotsAt(c)
  <2>1. CASE mode = "prop"
    BY <1>2, <2>1, NearestOK, PropCandidatesOK DEF PickAt
  <2>2. CASE mode = "flora"
    BY <1>2, <2>2, NearestOK, PropCandidatesOK DEF PickAt
  <2>3. CASE mode = "lot"
    BY <2>3 DEF PickAt
  <2>4. CASE mode = "decal"
    <3>1. CASE Stack(c) = <<>>
      BY <2>4, <3>1 DEF PickAt
    <3>2. CASE Stack(c) # <<>>
      <4>1. Stack(c) \in Seq(Decals \cup TexturesAt(c)) /\ Len(Stack(c)) \in Nat
        BY <1>1, StackOK
      <4>2. Len(Stack(c)) \in Nat \ {0}
        BY <3>2, <4>1, EmptySeq
      <4>3. k % Len(Stack(c)) \in 0 .. Len(Stack(c)) - 1
        BY <4>2, ModOK
      <4>4. CandidateIndex(Len(Stack(c)), k) \in 1 .. Len(Stack(c))
        BY <4>2, <4>3 DEF CandidateIndex
      <4>5. Stack(c)[CandidateIndex(Len(Stack(c)), k)] \in Decals \cup TexturesAt(c)
        BY <4>1, <4>4, ElementOfSeq
      <4> QED
        BY <1>2, <2>4, <3>2, <4>5 DEF PickAt
    <3> QED
      BY <3>1, <3>2
  <2> QED
    BY <2>1, <2>2, <2>3, <2>4 DEF Modes
<1> HIDE DEF found
<1>4. TexturesAt(c) \subseteq Textures /\ LotsAt(c) \subseteq Lots
  BY DEF TexturesAt, LotsAt
<1>5. found \in Results \cup {NoResult}
  BY <1>3, <1>4 DEF Results
<1>6. Around(c, OutlinesOf(found))
  <2>1. CASE found = NoResult \/ found \in Things
    <3>1. found \notin Textures /\ found \notin Lots
      BY <2>1 DEF PickerAssumption
    <3>2. OutlinesOf(found) = {}
      BY <3>1 DEF OutlinesOf
    <3> QED
      BY <3>2 DEF Around
  <2>2. CASE found \in TexturesAt(c)
    <3>1. found \in Textures /\ found \notin Lots
      BY <1>4, <2>2 DEF PickerAssumption
    <3>2. OutlinesOf(found) = {TextureOutline(found)}
      BY <3>1 DEF OutlinesOf
    <3> QED
      BY <1>1, <2>2, <3>2, TextureIsAround DEF Around
  <2>3. CASE found \in LotsAt(c)
    <3>1. found \notin Textures
      BY <1>4, <2>3 DEF PickerAssumption
    <3>2. OutlinesOf(found) = {LotOutline(found)}
      BY <1>4, <2>3, <3>1 DEF OutlinesOf
    <3> QED
      BY <1>1, <2>3, <3>2, LotIsAround DEF Around
  <2> QED
    BY <1>3, <2>1, <2>2, <2>3
<1> QED
  BY <1>5, <1>6 DEF found

-----------------------------------------------------------------------------
(* What the steps of the picker keep.                                      *)

\* What is lit and redrawn is what is marked.
MarksOK ==
  /\ lit \subseteq Occupants /\ drawn \in [Decals -> Nat] /\ original \in Nat
  /\ mark \in Things \cup {NoResult}
  /\ lit = {mark} \cap Occupants
  /\ \A d \in Decals \cap present : drawn[d] = IF d = mark THEN 1 ELSE d.mode
  /\ OriginalKept

LEMMA MarkedOK ==
  ASSUME PickerInv, NEW new \in Things \cup {NoResult}, Marked(new), UNCHANGED present
  PROVE  MarksOK' /\ mark' = new
<1>1. MarksOK
  BY DEF PickerInv, PickerTypeOK, PickerLeavesNoTrace, MarksOK
<1>2. CASE new = mark
  BY <1>1, <1>2 DEF Marked, marks, MarksOK, OriginalKept
<1>3. CASE new # mark
  <2>1. /\ mark' = new /\ lit' = (lit \ {mark}) \cup ({new} \cap Occupants)
        /\ drawn' = [d \in Decals |-> IF d = new THEN 1 ELSE Restored[d]]
        /\ original' = IF new \in Decals THEN Restored[new] ELSE 0
    BY <1>3 DEF Marked, LitFor
  <2>2. /\ Restored \in [Decals -> Nat]
        /\ \A d \in Decals \cap present : Restored[d] = d.mode
    BY <1>1 DEF Restored, MarksOK, OriginalKept
  <2>3. lit' = {new} \cap Occupants
    BY <1>1, <2>1 DEF MarksOK
  <2>4. drawn' \in [Decals -> Nat] /\ original' \in Nat
    BY <2>1, <2>2
  <2>5. \A d \in Decals \cap present : drawn'[d] = IF d = new THEN 1 ELSE d.mode
    BY <2>1, <2>2
  <2>6. OriginalKept'
    BY <2>1, <2>2 DEF OriginalKept
  <2> QED
    BY <2>1, <2>3, <2>4, <2>5, <2>6 DEF MarksOK
<1> QED
  BY <1>2, <1>3

\* Nothing is lit any more.
Dark == MarksOK /\ mark = NoResult /\ hovered = NoResult

LEMMA HoverClearedOK ==
  ASSUME PickerAssumption, PickerInv, HoverCleared, UNCHANGED present
  PROVE  Dark' /\ StillFound' /\ Around(cursor, OutlinesOf(hovered))'
<1>1. Dark'
  BY MarkedOK DEF HoverCleared, Dark
<1>2. OutlinesOf(hovered)' = {}
  BY <1>1 DEF Dark, OutlinesOf, PickerAssumption
<1> QED
  BY <1>1, <1>2 DEF Dark, StillFound, Around

\* What is not searched for again stays as it was, as long as the scene does.
LEMMA SameSearch ==
  ASSUME UNCHANGED <<mode, sources, present, day>>
  PROVE  PickAt(cursor, offset)' = PickAt(cursor', offset') /\ KeysAt(cursor)' = KeysAt(cursor')
BY DEF PickAt, PropCandidates, FloraCandidates, InSeason, Stack, DecalCandidates, KeysAt

\* RefreshHover_ at c.
LEMMA HoverRefreshedOK ==
  ASSUME PickerAssumption, PickerInv, active, UNCHANGED <<mode, sources, present, day>>,
         NEW c \in Points \cup {NoPoint}, NEW k \in Int, cursor' = c, HoverRefreshed(c, k)
  PROVE  /\ MarksOK' /\ StillFound' /\ hovered' \in Results \cup {NoResult}
         /\ Around(cursor, OutlinesOf(hovered))' /\ (c = NoPoint => hovered' = NoResult)
         /\ offset' \in Int /\ count' \in Nat /\ fresh' \in BOOLEAN
<1>1. CASE c = NoPoint
  <2>1. HoverCleared /\ offset' = k /\ UNCHANGED <<keys, count, fresh>>
    BY <1>1 DEF HoverRefreshed
  <2> QED
    BY <1>1, <2>1, HoverClearedOK DEF Dark, PickerInv, PickerTypeOK
<1>2. CASE c # NoPoint
  <2> DEFINE found == PickAt(c, OffsetAt(c, k))
  <2>1. /\ hovered' = found /\ Marked(MarkOf(found)) /\ Searched(c, k) /\ fresh' = TRUE
    BY <1>2 DEF HoverRefreshed
  <2>2. mode \in Modes /\ c \in Points /\ OffsetAt(c, k) \in Int
    BY <1>2 DEF PickerInv, PickerTypeOK, OffsetAt
  <2>3. found \in Results \cup {NoResult} /\ Around(c, OutlinesOf(found))
    BY <2>2, PickOK
  <2>4. offset' = OffsetAt(c, k) /\ (mode = "decal" => keys' = KeysAt(c)) /\ count' \in Nat
    <3>1. Len(Stack(c)) \in Nat
      BY <2>2, StackOK DEF PickerAssumption
    <3> QED
      BY <2>1, <3>1 DEF Searched, PickerInv, PickerTypeOK
  <2>5. hovered' = PickAt(cursor, offset)'
    BY <2>1, <2>4, SameSearch
  <2>6. mode' = "decal" => keys' = KeysAt(cursor)'
    BY <2>4, SameSearch
  <2>7. StillFound'
    BY <2>5, <2>6 DEF StillFound
  <2> HIDE DEF found
  <2>8. MarksOK'
    <3>1. MarkOf(found) \in Things \cup {NoResult}
      BY DEF MarkOf
    <3> QED
      BY <2>1, <3>1, MarkedOK
  <2>9. Around(cursor, OutlinesOf(hovered))'
    <3>1. OutlinesOf(hovered)' = OutlinesOf(found)
      BY <2>1 DEF OutlinesOf
    <3> QED
      BY <2>3, <3>1 DEF Around
  <2> QED
    BY <1>2, <2>1, <2>2, <2>3, <2>4, <2>7, <2>8, <2>9
<1> QED
  BY <1>1, <1>2

\* BuildOverlay_ at c, after the hover was found.
LEMMA OverlayOK ==
  ASSUME NEW c, cursor' = c, OverlayBuilt(c), Around(cursor, OutlinesOf(hovered))'
  PROVE  Around(cursor, overlay.outlines)'
<1>1. CASE c = NoPoint
  BY <1>1 DEF OverlayBuilt, NoOverlay, Around
<1>2. CASE c # NoPoint
  <2>1. overlay'.outlines = OutlinesOf(hovered')
    BY <1>2 DEF OverlayBuilt
  <2>2. OutlinesOf(hovered)' = OutlinesOf(hovered')
    BY DEF OutlinesOf
  <2> QED
    BY <2>1, <2>2 DEF Around
<1> QED
  BY <1>1, <1>2

\* The mouse, and the wheel.
LEMMA MouseOK ==
  ASSUME PickerAssumption, PickerInv, active, NEW c \in Points \cup {NoPoint}, NEW k \in Int, cursor' = c,
         HoverRefreshed(c, k), OverlayBuilt(c), UNCHANGED <<world, waiting, mode, sources, active>>
  PROVE  PickerInv' /\ picked' = picked
<1>1. UNCHANGED <<inCity, present, day, picked, pickWaits, cancelWaits, mode, sources, active>>
  BY DEF world, waiting
<1>2. /\ MarksOK' /\ StillFound' /\ hovered' \in Results \cup {NoResult}
      /\ Around(cursor, OutlinesOf(hovered))'
      /\ offset' \in Int /\ count' \in Nat /\ fresh' \in BOOLEAN
  BY <1>1, HoverRefreshedOK
<1>3. Around(cursor, overlay.outlines)'
  BY <1>2, OverlayOK
<1>4. PickerTypeOK'
  BY <1>1, <1>2 DEF PickerInv, PickerTypeOK, MarksOK, Results
<1>5. PickerLeavesNoTrace' /\ OriginalKept'
  BY <1>1, <1>2 DEF MarksOK, PickerLeavesNoTrace
<1> QED
  BY <1>1, <1>2, <1>3, <1>4, <1>5 DEF PickerInv

\* A click picks what is lit, or finds nothing there.
LEMMA ClickOK ==
  ASSUME PickerAssumption, PickerInv, Click
  PROVE  /\ PickerInv'
         /\ picked' # picked /\ hovered # NoResult /\ fresh => picked' = hovered
<1> DEFINE k == OffsetAt(cursor, offset)
           found == PickAt(cursor, k)
<1>1. UNCHANGED <<inCity, present, day, cancelWaits, mode, sources, active, cursor, overlay>> /\ active
  BY DEF Click, world
<1>2. cursor \in Points /\ offset \in Int /\ mode \in Modes
  BY DEF Click, PickerInv, PickerTypeOK
<1>3. Around(cursor, overlay.outlines)'
  BY <1>1 DEF PickerInv, Around
<1>4. CASE found = NoResult
  <2>1. HoverRefreshed(cursor, offset) /\ UNCHANGED <<picked, pickWaits>>
    BY <1>4 DEF Click
  <2>2. /\ MarksOK' /\ StillFound' /\ hovered' \in Results \cup {NoResult}
        /\ Around(cursor, OutlinesOf(hovered))'
        /\ offset' \in Int /\ count' \in Nat /\ fresh' \in BOOLEAN
    BY <1>1, <1>2, <2>1, HoverRefreshedOK
  <2>3. PickerTypeOK' /\ PickerLeavesNoTrace' /\ OriginalKept'
    BY <1>1, <2>1, <2>2 DEF PickerInv, PickerTypeOK, PickerLeavesNoTrace, MarksOK, Results
  <2> QED
    BY <1>3, <2>1, <2>2, <2>3 DEF PickerInv
<1>5. CASE found # NoResult
  <2>1. Searched(cursor, offset) /\ picked' = found /\ pickWaits' = TRUE /\ HoverCleared /\ UNCHANGED fresh
    BY <1>5 DEF Click
  <2>2. Dark' /\ StillFound' /\ Around(cursor, OutlinesOf(hovered))'
    BY <1>1, <2>1, HoverClearedOK
  <2>3. offset' \in Int /\ count' \in Nat
    <3>1. Len(Stack(cursor)) \in Nat
      BY <1>2, StackOK DEF PickerAssumption
    <3> QED
      BY <1>2, <2>1, <3>1 DEF Searched, OffsetAt, PickerInv, PickerTypeOK
  <2>4. PickerTypeOK' /\ PickerLeavesNoTrace' /\ OriginalKept'
    BY <1>1, <2>1, <2>2, <2>3 DEF PickerInv, PickerTypeOK, PickerLeavesNoTrace, MarksOK, Dark
  <2>5. ASSUME hovered # NoResult, fresh PROVE picked' = hovered
    <3>1. hovered = PickAt(cursor, offset) /\ (mode = "decal" => keys = KeysAt(cursor))
      BY <2>5 DEF PickerInv, StillFound
    <3>2. k = offset
      BY <3>1 DEF OffsetAt
    <3> QED
      BY <2>1, <3>1, <3>2
  <2> HIDE DEF found
  <2> QED
    BY <1>3, <2>2, <2>4, <2>5 DEF PickerInv
<1> QED
  BY <1>4, <1>5

\* The hover ends, and what else changes is none of the map.
LEMMA EndsOK ==
  ASSUME PickerAssumption, PickerInv, HoverCleared, UNCHANGED <<present, day, fresh>>,
         inCity' \in BOOLEAN, active' \in BOOLEAN, (active' => mode' # "none" /\ inCity'),
         mode' \in Modes \cup {"none"}, sources' \in CheckBoxes \cup {{}},
         offset' \in Int, count' \in Nat, pickWaits' \in BOOLEAN, cancelWaits' \in BOOLEAN,
         \/ overlay' = NoOverlay /\ cursor' \in Points \cup {NoPoint}
         \/ UNCHANGED <<overlay, cursor>> /\ (active' \/ ~active)
  PROVE  PickerInv'
<1>1. Dark' /\ StillFound' /\ Around(cursor, OutlinesOf(hovered))'
  BY HoverClearedOK
<1>2. Around(cursor, overlay.outlines)' /\ (~active' => overlay' = NoOverlay)
  BY DEF PickerInv, PickerLeavesNoTrace, NoOverlay, Around
<1>3. PickerTypeOK'
  BY <1>1 DEF PickerInv, PickerTypeOK, Dark, MarksOK
<1>4. PickerLeavesNoTrace' /\ OriginalKept'
  BY <1>1, <1>2 DEF PickerLeavesNoTrace, Dark, MarksOK
<1> QED
  BY <1>1, <1>2, <1>3, <1>4 DEF PickerInv

\* A strategy is set, and the picker comes on screen or is refused.
LEMMA StartScenePickingOK ==
  ASSUME PickerAssumption, PickerInv, NEW m \in Modes, sources' \in CheckBoxes \cup {{}}, StartScenePicking(m)
  PROVE  PickerInv' /\ picked' = picked
<1>1. UNCHANGED <<inCity, present, day, picked, pickWaits, cancelWaits, cursor, fresh>> /\ inCity
  BY DEF StartScenePicking, world, waiting
<1>2. mode' = m /\ offset' = 0 /\ keys' = {} /\ count' = 0 /\ HoverCleared
  BY DEF StartScenePicking, StrategySet
<1>3. m # "none"
  BY DEF Modes
<1>4. \/ active' = TRUE /\ overlay' = NoOverlay
      \/ active' = active /\ overlay' = overlay
  BY DEF StartScenePicking
<1>5. active \in BOOLEAN /\ active' \in BOOLEAN /\ mode' \in Modes \cup {"none"} /\ mode' # "none"
  BY <1>2, <1>3, <1>4 DEF PickerInv, PickerTypeOK
<1>6. inCity' \in BOOLEAN /\ pickWaits' \in BOOLEAN /\ cancelWaits' \in BOOLEAN /\ inCity'
      /\ cursor' \in Points \cup {NoPoint} /\ offset' \in Int /\ count' \in Nat
  BY <1>1, <1>2 DEF PickerInv, PickerTypeOK
<1>7. CASE active' = TRUE /\ overlay' = NoOverlay
  BY <1>1, <1>2, <1>5, <1>6, <1>7, EndsOK
<1>8. CASE active' = active /\ overlay' = overlay
  BY <1>1, <1>2, <1>5, <1>6, <1>8, EndsOK
<1> QED
  BY <1>1, <1>4, <1>7, <1>8

\* Off the screen nothing is lit, whatever changes.
LEMMA OffScreenOK ==
  ASSUME PickerInv, ~active, UNCHANGED <<present, day, marks, active, overlay, hovered, fresh>>,
         inCity' \in BOOLEAN, mode' \in Modes \cup {"none"}, sources' \in CheckBoxes \cup {{}},
         offset' \in Int, count' \in Nat, pickWaits' \in BOOLEAN, cancelWaits' \in BOOLEAN,
         cursor' \in Points \cup {NoPoint}, PickerAssumption
  PROVE  PickerInv'
<1>1. mark = NoResult /\ hovered = NoResult /\ overlay = NoOverlay
  BY DEF PickerInv, PickerLeavesNoTrace
<1>2. OutlinesOf(hovered)' = {} /\ overlay'.outlines = {}
  BY <1>1 DEF OutlinesOf, NoOverlay, PickerAssumption
<1>3. PickerTypeOK'
  BY DEF PickerInv, PickerTypeOK, marks
<1>4. PickerLeavesNoTrace' /\ OriginalKept' /\ StillFound'
  BY <1>1 DEF PickerInv, PickerLeavesNoTrace, OriginalKept, StillFound, marks
<1> QED
  BY <1>2, <1>3, <1>4 DEF PickerInv, Around

\* Something goes, or a day: the picker does not know.
LEMMA SceneOK ==
  ASSUME PickerInv, present' \subseteq present, day' \in Days, fresh' = FALSE,
         UNCHANGED <<inCity, marks, cycle, waiting, mode, sources, active, cursor, hovered, overlay>>
  PROVE  PickerInv' /\ picked' = picked
<1>1. UNCHANGED <<lit, drawn, mark, original, offset, keys, count, picked, pickWaits, cancelWaits>>
  BY DEF marks, cycle, waiting
<1>2. PickerTypeOK'
  BY <1>1 DEF PickerInv, PickerTypeOK
<1>3. PickerLeavesNoTrace' /\ OriginalKept' /\ StillFound'
  BY <1>1 DEF PickerInv, PickerLeavesNoTrace, OriginalKept, StillFound
<1>4. Around(cursor, OutlinesOf(hovered))' /\ Around(cursor, overlay.outlines)'
  BY DEF PickerInv, Around, OutlinesOf
<1> QED
  BY <1>1, <1>2, <1>3, <1>4 DEF PickerInv

\* What the mouse, the keys and the wheel keep.
LEMMA PickerInputOK ==
  ASSUME PickerAssumption, PickerInv, MouseMove \/ MouseWheel \/ RightClick
  PROVE  PickerInv' /\ picked' = picked
<1>1. CASE MouseMove
  BY <1>1, MouseOK DEF MouseMove, PickerInv, PickerTypeOK
<1>2. CASE MouseWheel
  <2>1. PICK d \in {-1, 1}, c \in {cursor, NoPoint} :
          cursor' = c /\ HoverRefreshed(c, offset + d) /\ OverlayBuilt(c)
    BY <1>2 DEF MouseWheel
  <2>2. offset + d \in Int /\ c \in Points \cup {NoPoint}
    BY DEF PickerInv, PickerTypeOK
  <2>3. active /\ UNCHANGED <<world, waiting, mode, sources, active>>
    BY <1>2 DEF MouseWheel
  <2> QED
    BY <2>1, <2>2, <2>3, MouseOK
<1>3. CASE RightClick
  <2>1. HoverCleared /\ cancelWaits' = TRUE /\ active
        /\ UNCHANGED <<inCity, present, day, offset, keys, count, picked, pickWaits,
                       mode, sources, active, cursor, overlay, fresh>>
    BY <1>3 DEF RightClick, world, cycle
  <2> QED
    BY <2>1, EndsOK DEF PickerInv, PickerTypeOK
<1> QED
  BY <1>1, <1>2, <1>3

\* What the director and the game keep of the picker.
LEMMA PickerDirectorOK ==
  ASSUME PickerAssumption, PickerInv,
         \/ StopPicking \/ PickerTick \/ PickerCityShutdown \/ PickerCityInit \/ PickerAppShutdown
  PROVE  PickerInv' /\ picked' \in {picked, NoResult}
<1>0. active \in BOOLEAN /\ inCity \in BOOLEAN /\ (active => mode # "none" /\ inCity)
      /\ mode \in Modes \cup {"none"} /\ sources \in CheckBoxes \cup {{}}
      /\ offset \in Int /\ count \in Nat /\ cursor \in Points \cup {NoPoint}
      /\ pickWaits \in BOOLEAN /\ cancelWaits \in BOOLEAN
  BY DEF PickerInv, PickerTypeOK
<1>1. CASE StopPicking
  <2>1. active' = FALSE /\ overlay' = NoOverlay /\ HoverCleared
        /\ UNCHANGED <<inCity, present, day, offset, keys, count, picked, pickWaits, cancelWaits,
                       mode, sources, cursor, fresh>>
    BY <1>1 DEF StopPicking, Deactivated, world, cycle, waiting
  <2> QED
    BY <1>0, <2>1, EndsOK
<1>2. CASE PickerTick
  <2>1. picked' = NoResult /\ pickWaits' = FALSE /\ cancelWaits' = (cancelWaits /\ pickWaits)
        /\ UNCHANGED <<inCity, present, day, offset, keys, count, mode, sources, cursor, fresh>>
    BY <1>2 DEF PickerTick, world, cycle
  <2>2. cancelWaits' \in BOOLEAN
    BY <2>1
  <2>3. CASE active
    <3>1. active' = FALSE /\ overlay' = NoOverlay /\ HoverCleared
      BY <1>2, <2>3 DEF PickerTick, Deactivated
    <3> QED
      BY <1>0, <2>1, <2>2, <3>1, EndsOK
  <2>4. CASE ~active
    <3>1. UNCHANGED <<active, overlay, hovered, marks>>
      BY <1>2, <2>4 DEF PickerTick
    <3> QED
      BY <1>0, <2>1, <2>2, <2>4, <3>1, OffScreenOK
  <2> QED
    BY <2>3, <2>4
<1>3. CASE PickerCityShutdown
  <2>1. inCity' = FALSE /\ active' = FALSE /\ overlay' = NoOverlay /\ HoverCleared
        /\ UNCHANGED <<present, day, offset, keys, count, picked, pickWaits, cancelWaits,
                       mode, sources, cursor, fresh>>
    BY <1>3 DEF PickerCityShutdown, Deactivated, cycle, waiting
  <2> QED
    BY <1>0, <2>1, EndsOK
<1>4. CASE PickerCityInit
  <2>1. inCity' = TRUE /\ ~active
        /\ UNCHANGED <<present, day, marks, offset, keys, count, picked, pickWaits, cancelWaits,
                       mode, sources, active, cursor, hovered, overlay, fresh>>
    BY <1>0, <1>4 DEF PickerCityInit, cycle, waiting
  <2> QED
    BY <1>0, <2>1, OffScreenOK
<1>5. CASE PickerAppShutdown
  <2>1. mode' = "none" /\ sources' = {} /\ offset' = 0 /\ count' = 0 /\ cursor' = NoPoint
        /\ picked' = NoResult /\ pickWaits' = FALSE /\ cancelWaits' = FALSE /\ ~active
        /\ UNCHANGED <<inCity, present, day, marks, active, overlay, hovered, fresh>>
    BY <1>0, <1>5 DEF PickerAppShutdown, world
  <2>2. sources' \in CheckBoxes \cup {{}}
    BY <2>1
  <2>3. mode' \in Modes \cup {"none"} /\ offset' \in Int /\ count' \in Nat /\ cursor' \in Points \cup {NoPoint}
    BY <2>1
  <2>4. inCity' \in BOOLEAN /\ pickWaits' \in BOOLEAN /\ cancelWaits' \in BOOLEAN
    BY <1>0, <2>1
  <2> QED
    BY <2>1, <2>2, <2>3, <2>4, OffScreenOK
<1> QED
  BY <1>1, <1>2, <1>3, <1>4, <1>5

LEMMA PickerStart == ASSUME PickerAssumption, PickerInit PROVE PickerInv
<1>1. \A d \in Decals : d.mode \in Nat
  BY ListsOK
<1>2. OutlinesOf(hovered) = {}
  BY DEF PickerInit, OutlinesOf, PickerAssumption
<1>3. PickerTypeOK
  <2>1. drawn \in [Decals -> Nat]
    BY <1>1 DEF PickerInit
  <2>2. mode = "none" /\ active = FALSE /\ hovered = NoResult /\ mark = NoResult /\ sources = {}
    BY DEF PickerInit
  <2>3. /\ inCity = TRUE /\ present = Things /\ day \in Days /\ lit = {} /\ original = 0
        /\ cursor = NoPoint /\ offset = 0 /\ count = 0
        /\ pickWaits = FALSE /\ cancelWaits = FALSE /\ fresh = TRUE
    BY DEF PickerInit
  <2>4. sources \in CheckBoxes \cup {{}} /\ mode \in Modes \cup {"none"}
    BY <2>2
  <2>5. {inCity, active, pickWaits, cancelWaits, fresh} \subseteq BOOLEAN
    BY <2>2, <2>3
  <2>6. offset \in Int /\ count \in Nat /\ original \in Nat /\ day \in Days /\ present \subseteq Things
        /\ lit \subseteq Occupants /\ mark \in Things \cup {NoResult}
        /\ hovered \in Things \cup Textures \cup Lots \cup {NoResult} /\ cursor \in Points \cup {NoPoint}
    BY <2>2, <2>3
  <2> QED
    BY <2>1, <2>2, <2>4, <2>5, <2>6 DEF PickerTypeOK
<1>4. PickerLeavesNoTrace /\ OriginalKept /\ StillFound
  BY DEF PickerInit, PickerLeavesNoTrace, OriginalKept, StillFound, PickerAssumption, Things, Occupants, Decals
<1> QED
  BY <1>2, <1>3, <1>4 DEF PickerInv, Around, PickerInit, NoOverlay

\* Every step keeps the invariant; only a click picks.
PicksTheLit == picked' \notin {NoResult, picked} /\ hovered # NoResult /\ fresh => picked' = hovered

LEMMA PickerStep ==
  ASSUME PickerAssumption, PickerInv, [PickerNext]_pickerVars
  PROVE  PickerInv' /\ PicksTheLit
<1>1. CASE MouseMove \/ MouseWheel \/ RightClick \/ Escape
  BY <1>1, PickerInputOK DEF Escape, PicksTheLit
<1>2. CASE Click
  BY <1>2, ClickOK DEF PicksTheLit
<1>3. CASE StartPropPicking \/ StartFloraPicking \/ StartDecalPicking \/ StartLotPicking
  BY <1>3, StartScenePickingOK
     DEF StartPropPicking, StartFloraPicking, StartDecalPicking, StartLotPicking, Modes, PicksTheLit
<1>4. CASE StopPicking \/ PickerTick \/ PickerCityShutdown \/ PickerCityInit \/ PickerAppShutdown
  BY <1>4, PickerDirectorOK DEF PicksTheLit
<1>5. CASE Removed
  <2>1. present' \subseteq present /\ fresh' = FALSE /\ day' = day
        /\ UNCHANGED <<inCity, marks, cycle, waiting, mode, sources, active, cursor, hovered, overlay>>
    BY <1>5 DEF Removed
  <2> QED
    BY <2>1, SceneOK DEF PickerInv, PickerTypeOK, PicksTheLit
<1>6. CASE DayPasses
  <2>1. present' = present /\ fresh' = FALSE /\ day' \in Days
        /\ UNCHANGED <<inCity, marks, cycle, waiting, mode, sources, active, cursor, hovered, overlay>>
    BY <1>6 DEF DayPasses
  <2> QED
    BY <2>1, SceneOK DEF PicksTheLit
<1>7. CASE UNCHANGED pickerVars
  <2>1. UNCHANGED <<inCity, present, day, lit, drawn, mark, original, offset, keys, count, picked,
                    pickWaits, cancelWaits, mode, sources, active, cursor, hovered, overlay, fresh>>
    BY <1>7 DEF pickerVars, world, marks, cycle, waiting
  <2>2. PickerTypeOK' /\ PickerLeavesNoTrace' /\ OriginalKept'
    BY <2>1 DEF PickerInv, PickerTypeOK, PickerLeavesNoTrace, OriginalKept
  <2>3. PickAt(cursor, offset)' = PickAt(cursor, offset) /\ KeysAt(cursor)' = KeysAt(cursor)
    BY <2>1, SameSearch
  <2>4. StillFound'
    BY <2>1, <2>3 DEF PickerInv, StillFound
  <2>5. Around(cursor, OutlinesOf(hovered))' /\ Around(cursor, overlay.outlines)'
    BY <2>1 DEF PickerInv, Around, OutlinesOf
  <2> QED
    BY <2>1, <2>2, <2>4, <2>5 DEF PickerInv, PicksTheLit
<1> QED
  BY <1>1, <1>2, <1>3, <1>4, <1>5, <1>6, <1>7 DEF PickerNext

LEMMA PickerAlways == ASSUME PickerAssumption PROVE PickerSpec => []PickerInv
<1>1. PickerInit => PickerInv
  BY PickerStart
<1>2. PickerInv /\ [PickerNext]_pickerVars => PickerInv'
  BY PickerStep
<1> QED
  BY <1>1, <1>2, PTL DEF PickerSpec

\* What the picker lights, redraws and outlines.
LEMMA PickerFollows == PickerInv => PickerTypeOK /\ PickerLeavesNoTrace /\ OutlineAtCursor
BY DEF PickerInv, Around, OutlineAtCursor

-----------------------------------------------------------------------------
(* The tools side by side: each part does what it does alone, or nothing.   *)

\* A behavior of the tools of the map is one of the director and one of the picker.
THEOREM EachPart == SideBySide => Spec /\ PickerSpec
<1>1. SideInit => Init /\ PickerInit
  BY DEF SideInit
<1>2. [SideNext]_sideVars => [Next]_vars /\ [PickerNext]_pickerVars
  BY DEF SideNext, sideVars
<1> QED
  BY <1>1, <1>2, PTL DEF SideBySide, Spec, PickerSpec

\* Starts that fail, stops and late cancels leave one tool at most, on screen and in
\* a city, and no sketch off the screen.
THEOREM OneToolTheorem == SideBySide => []OneToolInCity
BY EachPart, OneToolAndOnlyInCity, PTL

\* The director implements MapOwner beside the picker too.
THEOREM OwnerTheorem == SideBySide => ImplementsMapOwner
BY EachPart, ToolsImplementMapOwner, PTL

\* SetHover, ClearHover and Deactivate leave lit and redrawn what is under the cursor
\* and nothing else.
THEOREM LitTheorem == SideBySide => []LitAndRedrawn
BY EachPart, PickerFollows, PickerAlways, PartsAssumption, PTL DEF LitAndRedrawn

\* BuildOverlay_ outlines what is around the cursor, however the lot is turned.
THEOREM OutlineTheorem == SideBySide => []OutlineAtCursor
BY EachPart, PickerFollows, PickerAlways, PartsAssumption, PTL

\* OnMouseDownL finds again what the last move or turn of the wheel lit.
THEOREM PicksTheorem == SideBySide => PicksWhatIsLit
<1>1. PickerInv /\ [PickerNext]_pickerVars => [PicksTheLit]_pickerVars
  BY PickerStep, PartsAssumption
<1>2. [PicksTheLit]_pickerVars =>
        [(picked' # NoResult /\ picked' # picked /\ hovered # NoResult /\ fresh)
           => picked' = hovered]_pickerVars
  BY DEF PicksTheLit
<1> QED
  BY <1>1, <1>2, EachPart, PickerAlways, PartsAssumption, PTL DEF PickerSpec, PicksWhatIsLit
=============================================================================
