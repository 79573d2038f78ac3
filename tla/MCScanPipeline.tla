-------------------------- MODULE MCScanPipeline --------------------------
(***************************************************************************)
(* Instances of ScanPipeline for TLC.  MaxSerial 3 gives each region two   *)
(* scans: what a first one leaves behind meets its restart.                *)
(***************************************************************************)
EXTENDS ScanPipeline, TLC

CONSTANTS r1, w1, w2, p1, p2

OneRegion == {r1}
TwoWorkers == {w1, w2}
OnePicture == {p1}
TwoPictures == {p1, p2}

\* Safety only: the names of workers and pictures do not matter.
Symmetry == Permutations(TwoWorkers) \union Permutations(TwoPictures)
=============================================================================
