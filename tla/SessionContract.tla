-------------------------- MODULE SessionContract --------------------------
(***************************************************************************)
(* The receive session as its surroundings see it: a phase, and the        *)
(* transfer whose verified content it holds.  Once content was verified it *)
(* is never exchanged, and only a reset leaves failed and completed.       *)
(***************************************************************************)
EXTENDS SessionPhases

CONSTANTS
  Id,                        \* transfers a sender can show
  Corrupt,                   \* those whose content does not match its checksum
  None

VARIABLES
  phase,
  content                    \* the transfer whose content was verified, or None

Init == phase = "receiving" /\ content = None

\* A frame; the step to nameWait or completed verifies the content.
Feed ==
  /\ phase' \in AfterFrame(phase)
  /\ IF phase = "receiving" /\ phase' \in {"nameWait", "completed"}
       THEN content' \in Id \ Corrupt
       ELSE UNCHANGED content

NameMissing == phase = "nameWait" /\ phase' = "completed" /\ UNCHANGED content

Reset == phase \in {"failed", "completed"} /\ phase' = "receiving" /\ content' = None

Next == Feed \/ NameMissing \/ Reset

Spec == Init /\ [][Next]_<<phase, content>>
=============================================================================
