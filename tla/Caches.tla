------------------------------- MODULE Caches -------------------------------
(***************************************************************************)
(* The scan that writes the caches (PluginScan) and the pictures that the   *)
(* window shows from one of them (Thumbnails).  The scan is an application  *)
(* of its own that ends before the game reads what it wrote, so that they   *)
(* share no step: a behaviour is one of the scan or one of the pictures.    *)
(***************************************************************************)
EXTENDS PluginScan, Thumbnails

VARIABLE part   \* the part that moves: scan, pictures

SideBySideInit ==
  /\ part \in {"scan", "pictures"}
  /\ Init /\ ThumbnailInit
  /\ part # "scan" => order = <<>> /\ \A p \in Paths : disk[p] = Bad
  /\ part # "pictures" => layout = "table" /\ stored = {}

SideBySideNext ==
  \/ part = "scan"     /\ Next          /\ UNCHANGED <<part, thumbnailVars>>
  \/ part = "pictures" /\ ThumbnailNext /\ UNCHANGED <<part, vars>>

SideBySide == SideBySideInit /\ [][SideBySideNext]_<<part, vars, thumbnailVars>>

Scan(A) == part = "scan" /\ A /\ UNCHANGED <<part, thumbnailVars>>

\* Both threads of the scan are scheduled, and the window is drawn in every frame
\* of the game while it is open.
FairSideBySide ==
  /\ SideBySide
  /\ WF_vars(Scan(Worker))
  /\ WF_vars(Scan(Start \/ LoadMapper \/ Poll \/ GroupRecords \/ ParseFile
                  \/ Complete \/ Join))
  /\ WF_thumbnailVars(part = "pictures" /\ Frame /\ UNCHANGED <<part, vars>>)

\* Pictures: a row that shows its picture goes on showing it as long as the device
\* lives, none is drawn that was made on a device that is gone, and the lists of the
\* cache stay disjoint and bounded.
PicturesStay == NoFlicker /\ NoPictureOfOldDevice /\ []CacheSound

\* Pictures: rows that stay on screen show their pictures in the end.
PicturesShown == part = "pictures" => ShownInTheEnd

\* The scan ends.
ScanComesToAnEnd == part = "scan" => ScanEnds
=============================================================================
