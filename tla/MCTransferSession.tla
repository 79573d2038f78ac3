------------------------- MODULE MCTransferSession -------------------------
(***************************************************************************)
(* Instances of TransferSession for TLC: three transfers of the QRT2       *)
(* protocol, one of them with a wrong checksum, and two of Decimen; two    *)
(* codes are needed of three; the third foreign frame in a row switches.   *)
(***************************************************************************)
EXTENDS TransferSession

CONSTANTS t1, t2, t3, d1, d2, c1, c2, c3

Txqr == {t1, t2, t3}
Decimen == {d1, d2}
Bad == {t3}
Codes == {c1, c2, c3}
=============================================================================
