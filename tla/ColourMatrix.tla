----------------------------- MODULE ColourMatrix -----------------------------
(***************************************************************************)
(* The colour matrix (qr/color.go): where ColorMatrixEncode puts the bits  *)
(* of a frame, and where the two decoders look for them in a picture of    *)
(* it.  A picture shows the matrix upright, Scale pixels to a module, with *)
(* as many pixels before it on both sides, and some behind it.             *)
(*                                                                         *)
(* Colours are exact, so that a pixel is as good as the cell it shows, and *)
(* nothing but a finder looks like one: locateFinders finds the middle of  *)
(* each finder it can tell from what is beside it, or gives up.            *)
(***************************************************************************)
EXTENDS Integers

CONSTANTS Length, Scale, Before, Behind    \* pictures of an instance

ColorMatrixSize == 96
FrameW == 2
FinderSz == 7
FinderOff == 3
CalTop == 11
HdrTop == 15
HdrWid == 16
PayTop == 17
PayEnd == ColorMatrixSize - FinderOff - FinderSz
Lo == FrameW
Hi == ColorMatrixSize - FrameW
BarWidth == (Hi - Lo) \div 4

ASSUME ColourAssumption ==
  /\ Length \subseteq 1 .. ((PayEnd - PayTop) * (Hi - Lo)) \div 4
  /\ Scale \subseteq Nat \ {0} /\ Before \subseteq Nat /\ Behind \subseteq Nat

VARIABLES
  picture,         \* length of the payload, are its modules beside a finder light (green)
                   \* or dark, scale, before (left and above), width
  result           \* what ColorMatrixDecode makes of it: none yet, read, misread or failed

colourVars == <<picture, result>>

-----------------------------------------------------------------------------
(* ColorMatrixEncode: what a cell shows is what was written to it last.     *)

FinderAt == {<<FinderOff, FinderOff>>, <<FinderOff, PayEnd>>, <<PayEnd, FinderOff>>}
BlackInFinder(r, c) ==
  \E f \in FinderAt :
    LET dr == r - f[1]
        dc == c - f[2]
    IN /\ dr \in 0 .. FinderSz - 1 /\ dc \in 0 .. FinderSz - 1
       /\ dr \in {0, FinderSz - 1} \/ dc \in {0, FinderSz - 1} \/ (dr \in 2 .. FinderSz - 3 /\ dc \in 2 .. FinderSz - 3)

\* A bug to be caught: the rows begin at the edge of the matrix.
RowFromTheEdge(r, c) == (r - PayTop) * ColorMatrixSize + c
PayloadIndex(r, c) == (r - PayTop) * (Hi - Lo) + c - Lo
HeaderIndex(r, c) == (r - HdrTop) * HdrWid + c - FrameW

Cell(length, r, c) ==
  CASE r \in PayTop .. PayEnd - 1 /\ c \in Lo .. Hi - 1 ->
         IF PayloadIndex(r, c) < 4 * length THEN <<"data", PayloadIndex(r, c)>> ELSE <<"black">>
    [] r \in HdrTop .. HdrTop + 1 /\ c \in FrameW .. FrameW + HdrWid - 1 -> <<"header", HeaderIndex(r, c)>>
    [] r \in CalTop .. HdrTop - 1 /\ c \in Lo .. Hi - 1 -> <<"colour", (c - Lo) \div BarWidth>>
    [] BlackInFinder(r, c) -> <<"black">>
    [] r < FrameW \/ r >= Hi \/ c < FrameW \/ c >= Hi -> <<"black">>
    [] OTHER -> <<"white">>

-----------------------------------------------------------------------------
(* The decoders.  Each has its idea of the pixel in the middle of a column, *)
(* of every module; rows are as columns.                                    *)

Module == 0 .. ColorMatrixSize - 1

Direct(p) == LET s == p.width \div ColorMatrixSize IN [c \in Module |-> c * s + s \div 2]

\* locateFinders: the dark and light runs through the middle of a finder are 1, 1,
\* 3, 1, 1 modules long if they end where the finder does, at a light module.  The
\* payload is beside one finder: the last of its rows is just above the third.
Light(p, r, c) ==
  LET cell == Cell(p.length, r, c) IN cell = <<"white">> \/ (cell[1] = "data" /\ p.light)
FinderSeen(p, f) ==
  LET mid == FinderSz \div 2
  IN /\ Light(p, f[1] - 1, f[2] + mid) /\ Light(p, f[1] + FinderSz, f[2] + mid)
     /\ Light(p, f[1] + mid, f[2] - 1) /\ Light(p, f[1] + mid, f[2] + FinderSz)
LocateFinders(p) == \A f \in FinderAt : FinderSeen(p, f)

\* What it returns, finderCenters, and the affine map between them.
Centre(u) == u + FinderSz \div 2
Found(p, u) == p.before + p.scale * Centre(u) + p.scale \div 2
Round(n, d) == (2 * n + d) \div (2 * d)
ByFinders(p) ==
  LET u1 == Centre(FinderOff)
      u2 == Centre(PayEnd)
      x1 == Found(p, FinderOff)
      x2 == Found(p, PayEnd)
  IN [c \in Module |-> Round((c - x1) * (u2 - u1) + u1 * (x2 - x1), x2 - x1)]

Shown(p, x, y) ==
  LET m == p.scale * ColorMatrixSize
      inside(z) == z - p.before \in 0 .. m - 1
  IN IF inside(x) /\ inside(y)
     THEN Cell(p.length, (y - p.before) \div p.scale, (x - p.before) \div p.scale) ELSE <<"outside">>

HeaderRead(p, at) ==
  \A r \in HdrTop .. HdrTop + 1, c \in FrameW .. FrameW + HdrWid - 1 :
    Shown(p, at[c], at[r]) = <<"header", (r - HdrTop) * HdrWid + c - FrameW>>

ColoursRead(p, at) ==
  \A r \in CalTop + 1 .. CalTop + 2, i \in 0 .. 3 : \A dx \in 1 .. BarWidth - 2 :
    Shown(p, at[Lo + i * BarWidth + dx], at[r]) = <<"colour", i>>

PayloadRead(p, at) ==
  \A r \in PayTop .. PayEnd - 1, c \in Lo .. Hi - 1 :
    LET bit == (r - PayTop) * (Hi - Lo) + c - Lo
    IN bit < 4 * p.length => Shown(p, at[c], at[r]) = <<"data", bit>>

\* A header that is not read where it was written has a wrong checksum.
Decoded(p, at) ==
  IF ~HeaderRead(p, at) THEN "failed"
  ELSE IF ColoursRead(p, at) /\ PayloadRead(p, at) THEN "read" ELSE "misread"

DecodedByFinders(p) == IF LocateFinders(p) THEN Decoded(p, ByFinders(p)) ELSE "failed"

Pictures ==
  {[length |-> n, light |-> l, scale |-> s, before |-> b, width |-> b + s * ColorMatrixSize + e] :
     n \in Length, l \in BOOLEAN, s \in Scale, b \in Before, e \in Behind}

ColourInit == picture \in Pictures /\ result = "none"

\* ColorMatrixDecode: the finders are looked for when the direct way fails.
Decode ==
  /\ result = "none" /\ UNCHANGED picture
  /\ result' = IF Decoded(picture, Direct(picture)) = "failed" THEN DecodedByFinders(picture)
                                                     ELSE Decoded(picture, Direct(picture))

ColourNext == Decode
ColourSpec == ColourInit /\ [][ColourNext]_colourVars

-----------------------------------------------------------------------------
\* Encoder and decoder agree on the place of every bit, up to the last one that
\* fits: a picture that begins with the matrix is read at every scale, and at
\* every length, whatever is behind it up to a module's width.  And a picture
\* whose width gives the scale is never misread, wherever the matrix is in it; at
\* a wrong scale the header may be right by chance and the payload is not, and
\* the checksum of the frame in it must tell.
ColourReads ==
  /\ result = "misread" => picture.width \div ColorMatrixSize # picture.scale
  /\ picture.before = 0 /\ picture.width \div ColorMatrixSize = picture.scale
       => result \in {"none", "read"}

\* The finders are there "for robust detection and perspective correction": a
\* picture in which they are found is read, wherever the matrix is in it.
FindersServe == result = "failed" => ~LocateFinders(picture)
=============================================================================
