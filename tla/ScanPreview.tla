---------------------------- MODULE ScanPreview ----------------------------
(***************************************************************************)
(* The preview pane of the desktop receiver on top of ScanPipeline.  The   *)
(* capture goroutines publish their captures into Manager.preview under    *)
(* previewMu alone, and Clear drops it in a critical section of its own,   *)
(* after the one that stopped and removed the regions.                     *)
(***************************************************************************)
EXTENDS ScanPipeline

VARIABLES
  preview,                   \* the region whose capture is shown, or None
  cleared                    \* history: Clear returned, no region added since

PreviewInit == Init /\ preview = None /\ cleared = FALSE

\* This step is the end of a successful capture, or Clear's second half.
Captured(r) ==
  \E gen \in Gen : cap[r, gen].pc = "shoot" /\ cap'[r, gen].pc = "submit"
Dropped == api = "clearing" /\ api' = "idle"

PublishPreview(r) ==
  /\ Captured(r)
  /\ preview' = r
  /\ UNCHANGED cleared

DropPreview ==
  /\ Dropped
  /\ preview' = None
  /\ cleared' = TRUE

KeepPreview ==
  /\ ~Dropped /\ \A r \in Region : ~Captured(r)
  /\ cleared' = (cleared /\ regions' = {})
  /\ UNCHANGED preview

PreviewNext ==
  /\ Next
  /\ (\E r \in Region : PublishPreview(r)) \/ DropPreview \/ KeepPreview

PreviewSpec == PreviewInit /\ [][PreviewNext]_<<vars, preview, cleared>>

-----------------------------------------------------------------------------
(* "Clear stops and removes every region and drops the preview": until a   *)
(* region is added again there is nothing to show.                         *)
ClearDropsPreview == cleared => preview = None
=============================================================================
