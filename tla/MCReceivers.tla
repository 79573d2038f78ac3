----------------------------- MODULE MCReceivers -----------------------------
(***************************************************************************)
(* The session of a region of the desktop receiver, and the Android        *)
(* receiver over two scans, in one run: a behaviour is one of either, and  *)
(* the variables of the other stay.                                        *)
(***************************************************************************)
EXTENDS MCTransferSession, AndroidReceiver

VARIABLE receiverPart

receiverVars == <<vars, androidVars, receiverPart>>

ReceiversInit == receiverPart \in {"desktop", "android"} /\ Init /\ AndroidInit

Desktop == receiverPart = "desktop" /\ Next /\ UNCHANGED <<androidVars, receiverPart>>
Android == receiverPart = "android" /\ AndroidNext /\ UNCHANGED <<vars, receiverPart>>

ReceiversNext == Desktop \/ Android

ReceiversSpec == ReceiversInit /\ [][ReceiversNext]_receiverVars /\ AndroidFairness
=============================================================================
