---------------------------- MODULE RegionSelect ----------------------------
(***************************************************************************)
(* Drawing a new region in the desktop window (cmd/qrt-pro/overlay.go): an *)
(* overlay covers the screen, every region is paused meanwhile and resumed *)
(* afterwards.  Everything here is the window's thread, except that        *)
(* regions complete and fail by themselves.                                *)
(*                                                                         *)
(* What happens inside a region is ScanPipeline's.                         *)
(***************************************************************************)
EXTENDS FiniteSets

CONSTANT Area    \* regions the user can draw

VARIABLES
  region,        \* of each area: its region, or "none"
  overlay,       \* "closed", "open", or "listed": open it, the regions to pause are known
  resumeAfter,
  before         \* the regions when the selection began (history)

selectVars == <<region, overlay, resumeAfter, before>>

SelectInit ==
  /\ region = [a \in Area |-> "none"] /\ overlay = "closed" /\ resumeAfter = {}
  /\ before = region

Scanning == {a \in Area : region[a] \in {"scanning", "failing"}}

\* Manager.Start: a completed or a failed region starts from nothing.
Started(a) == IF region[a] = "none" THEN "none" ELSE "scanning"
Resumed(ids, added) ==
  [a \in Area |-> IF a \in ids \union added THEN "scanning" ELSE region[a]]

\* A bug to be caught: the regions are listed when they have been stopped.
ListedAfterwards == {}
Listed == Scanning

\* beginSelect lists the regions that scan ...
BeginSelect ==
  /\ overlay = "closed" /\ overlay' = "listed" /\ resumeAfter' = Listed /\ before' = region
  /\ UNCHANGED region

\* ... and stops them all.  The capture or the window may fail.
PauseAll ==
  /\ overlay = "listed"
  /\ LET paused == [a \in Area |-> IF a \in Scanning THEN "idle" ELSE region[a]] IN
     \/ overlay' = "open" /\ region' = paused /\ UNCHANGED resumeAfter
     \/ /\ overlay' = "closed" /\ resumeAfter' = {}
        /\ region' = [a \in Area |-> IF a \in resumeAfter THEN "scanning" ELSE paused[a]]
  /\ UNCHANGED before

\* finishSelect adds a region, or none when the box is too small; cancelSelect.
EndSelect ==
  /\ overlay = "open" /\ overlay' = "closed" /\ resumeAfter' = {}
  /\ \E added \in {{}} \union {{a} : a \in {b \in Area : region[b] = "none"}} :
       region' = Resumed(resumeAfter, added)
  /\ UNCHANGED before

\* The buttons of the receiver page, and what regions do by themselves.
Click(a) ==
  /\ overlay = "closed" /\ region[a] # "none"
  /\ region' \in {[region EXCEPT ![a] = Started(a)], [region EXCEPT ![a] = "none"],
                  [region EXCEPT ![a] = IF a \in Scanning THEN "idle" ELSE @]}
  /\ UNCHANGED <<overlay, resumeAfter, before>>

Receives(a) ==
  /\ region[a] = "scanning"
  /\ region' \in {[region EXCEPT ![a] = "done"], [region EXCEPT ![a] = "failing"]}
  /\ UNCHANGED <<overlay, resumeAfter, before>>

SelectNext == BeginSelect \/ PauseAll \/ EndSelect \/ \E a \in Area : Click(a) \/ Receives(a)

SelectSpec == SelectInit /\ [][SelectNext]_selectVars

-----------------------------------------------------------------------------
\* A selection leaves the regions as they were: those that were scanning and have
\* not completed scan again, those that were not do not.  While the overlay
\* covers the screen nothing scans it.  (A region that completes between the
\* listing and the stop starts once more.)
RegionsResumed ==
  /\ [][overlay # "closed" /\ overlay' = "closed" =>
          \A a \in Area :
            /\ before[a] \in {"scanning", "failing"} => region'[a] = "scanning"
            /\ before[a] \in {"idle", "done"} => region'[a] = before[a]]_selectVars
  /\ [](overlay = "open" => Scanning = {})
=============================================================================
