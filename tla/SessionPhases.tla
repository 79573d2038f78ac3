--------------------------- MODULE SessionPhases ---------------------------
(***************************************************************************)
(* What the receive session of a screen region (decodeState, decode.go)    *)
(* promises to the pipeline around it: the four phases a session can be    *)
(* in, and what one frame may do to each.  ScanPipeline is written against *)
(* this interface, and TransferSession, the detailed session, is checked   *)
(* to implement it.                                                        *)
(***************************************************************************)

\* receiving  equations are still missing, or nothing was received yet
\* nameWait   the content is verified, its file name has not arrived
\* failed     a checksum refused the assembled content; only a reset helps
\* completed  content and name are settled
Phase == {"receiving", "nameWait", "failed", "completed"}

\* The phases feedPayload may leave a session in.  Verified content is never
\* given up: from nameWait the only way on is to completed.
AfterFrame(phase) ==
  CASE phase = "receiving" -> Phase
    [] phase = "nameWait"  -> {"nameWait", "completed"}
    [] OTHER               -> {phase}
=============================================================================
