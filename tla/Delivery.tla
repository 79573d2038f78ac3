------------------------------ MODULE Delivery ------------------------------
(***************************************************************************)
(* The abstract promise of the desktop receiver: a transfer whose content  *)
(* was verified is reported to the user exactly once, by the saver.  Only  *)
(* closing the receiver excuses it from that, and closing settles every    *)
(* transfer one way or the other.                                          *)
(***************************************************************************)
EXTENDS Sequences, Functions

CONSTANT Transfer            \* a region's scan, from one reset to the next

VARIABLES
  verified,                  \* transfers whose content was verified
  reported,                  \* what the saver reported, in order
  dropped,                   \* verified transfers given up
  closing                    \* the receiver is shutting down

vars == <<verified, reported, dropped, closing>>

Open == verified \ (Range(reported) \union dropped)

Init ==
  /\ verified = {}
  /\ reported = << >>
  /\ dropped = {}
  /\ closing = FALSE

Verify(t) ==
  /\ ~closing
  /\ t \notin verified
  /\ verified' = verified \union {t}
  /\ UNCHANGED <<reported, dropped, closing>>

Report(t) ==
  /\ t \in Open
  /\ reported' = Append(reported, t)
  /\ UNCHANGED <<verified, dropped, closing>>

Drop(t) ==
  /\ closing
  /\ t \in Open
  /\ dropped' = dropped \union {t}
  /\ UNCHANGED <<verified, reported, closing>>

Close ==
  /\ closing' = TRUE
  /\ UNCHANGED <<verified, reported, dropped>>

Settle(t) == Report(t) \/ Drop(t)

Next == Close \/ \E t \in Transfer : Verify(t) \/ Settle(t)

Spec ==
  /\ Init
  /\ [][Next]_vars
  /\ \A t \in Transfer : WF_vars(Settle(t))
=============================================================================
