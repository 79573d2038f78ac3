--------------------------- MODULE MCScanPreview ---------------------------
(* The smallest instance of ScanPreview: one region, one scan of it.       *)
EXTENDS ScanPreview

CONSTANTS r1, w1, p1

OneRegion == {r1}
OneWorker == {w1}
OnePicture == {p1}
=============================================================================
