---------------------------- MODULE ClassicFrames ----------------------------
(***************************************************************************)
(* From a request to QRT2 frames: the limits the sender checks before it   *)
(* encodes (internal/sender), the encoder of package txqr, and what the    *)
(* receiver's ParseFrame accepts.  Only lengths and numbers matter here.   *)
(*                                                                         *)
(* gofountain and RaptorQ are libraries: a block of theirs has the length  *)
(* the encoder asks for, or is empty (Binary, when no source was drawn).   *)
(***************************************************************************)
EXTENDS Integers, FiniteSets

CONSTANTS
  MaxTransferBytes, MaxSourceBlocks, MaxChunkBytes, MaxBlockCode, MaxFrameOverhead,
  MaxFileNameBytes,
  MaxMediumBytes,          \* what a QR symbol of level M holds
  NumColorPayloadBytes,    \* what a colour matrix holds
  Request                  \* requests of an instance

ASSUME ClassicAssumption ==
  /\ {MaxTransferBytes, MaxSourceBlocks, MaxChunkBytes, MaxBlockCode} \subseteq Nat \ {0}
  /\ \A n \in {MaxTransferBytes, MaxChunkBytes, MaxBlockCode} : n < 10 ^ 9
  /\ MaxFrameOverhead \in Nat /\ MaxFrameOverhead >= 154     \* 160 in the code
  /\ 3 * MaxSourceBlocks <= MaxBlockCode /\ 2 * MaxSourceBlocks <= 65536
  /\ MaxFileNameBytes \in 4 .. MaxChunkBytes                 \* a rune has at most 4 bytes
  /\ MaxMediumBytes \in Nat /\ NumColorPayloadBytes \in Nat
  /\ MaxFrameOverhead + 1 < NumColorPayloadBytes
  /\ Request \subseteq [total : Nat \ {0}, split : 1 .. MaxChunkBytes, mode : {"qr", "color"},
                        codec : {"lt", "binary", "raptor", "raptorq", "online"},
                        name : [runes : Nat, size : 1 .. 4]]

VARIABLES
  req,       \* the request: total, split, mode, codec, name [runes, size of a rune]
  split,     \* the chunk length after the clamp of colour mode
  longest,   \* MaxFrameSize, or 0 if the parameters are refused
  stage,     \* "received", "refused", "admitted" or "encoded"
  tag        \* the codec in the frames' headers

classicVars == <<req, split, longest, stage, tag>>

Least(a, b) == IF a < b THEN a ELSE b
NumberOfChunks(length, chunk) == (length + chunk - 1) \div chunk

ValidParameters(total, chunk, ct) ==
  /\ total \in 1 .. MaxTransferBytes /\ chunk \in 1 .. MaxChunkBytes
  /\ NumberOfChunks(total, chunk) <= MaxSourceBlocks
  /\ ct = "raptor" => NumberOfChunks(total, chunk) >= 4

-----------------------------------------------------------------------------
(* Frame: pack and ParseFrame.  A frame is its header, and payload its length. *)

Digits(n) == IF n < 0 THEN 2 ELSE 1 + Cardinality({e \in 1 .. 8 : n >= 10 ^ e})
CodecName == [lt |-> 2, binary |-> 6, raptor |-> 6, raptorq |-> 7, online |-> 6]

\* QRT2/session/sha256/code/chunk/total/codec/{data|name}/crc32
HeaderLength(f) ==
  4 + 32 + 64 + Digits(f.code) + Digits(f.chunk) + Digits(f.total) + CodecName[f.codec] + 4 + 8 + 8
Packed(f) == HeaderLength(f) + 1 + f.payload

SymbolSize(total, chunk, ct) ==
  IF ct = "raptorq" THEN chunk ELSE NumberOfChunks(total, NumberOfChunks(total, chunk))

ParseFrame(f) ==
  /\ Packed(f) <= MaxFrameOverhead + 1 + MaxChunkBytes /\ HeaderLength(f) <= MaxFrameOverhead
  /\ ValidParameters(f.total, f.chunk, f.codec)
  /\ IF f.name THEN f.code = -1 /\ f.payload \in 1 .. MaxFileNameBytes
     ELSE /\ f.code \in 0 .. MaxBlockCode /\ f.payload <= MaxChunkBytes
          /\ \/ f.payload = SymbolSize(f.total, f.chunk, f.codec)
             \/ f.codec = "binary" /\ f.payload = 0
  /\ f.codec = "raptor" => f.code <= 65535

-----------------------------------------------------------------------------
(* The encoder.                                                             *)

DataFrame(code, total, chunk, ct, payload) ==
  [code |-> code, total |-> total, chunk |-> chunk, codec |-> ct, name |-> FALSE, payload |-> payload]

\* nameFrame: 120 runes at most, then as many as fit.
NameBytes(n) ==
  LET bytes == Least(n.runes, 120) * n.size
  IN IF bytes > MaxFileNameBytes THEN (MaxFileNameBytes \div n.size) * n.size ELSE bytes

NameFrame(total, chunk, ct, n) ==
  [code |-> -1, total |-> total, chunk |-> chunk, codec |-> ct, name |-> TRUE, payload |-> NameBytes(n)]

\* One block, and Raptor with fewer than four, is sent as LT.
Effective(k, codec) ==
  IF codec # "raptorq" /\ (k = 1 \/ (codec = "raptor" /\ k < 4)) THEN "lt" ELSE codec

FrameCount(k, ct) ==
  IF ct = "raptorq" THEN k + (105 * k) \div 100 ELSE IF k = 1 THEN 1 ELSE 2 * k

\* withNameFrame: the name goes before these data frames (the last: after all).
Positions(n) == <<0, (n + 2) \div 3, (2 * n + 2) \div 3>>

\* A bug to be caught: the code of the first frame stands for all.
FirstCode(count) == 0
LastCode(count) == count - 1

MaxFrameSize(total, chunk, codec, n) ==
  LET k == NumberOfChunks(total, chunk)
      ct == Effective(k, codec)
      size == Packed(DataFrame(LastCode(FrameCount(k, ct)), total, chunk, ct, SymbolSize(total, chunk, ct)))
      named == Packed(NameFrame(total, chunk, ct, n))
  IN IF ~ValidParameters(total, chunk, ct) THEN 0
     ELSE IF n.runes > 0 /\ named > size THEN named ELSE size

\* What EncodeContext returns: its first and its last frame, and those whose code
\* has a digit more than the one before.
Encoded(total, chunk, ct, n) ==
  LET k == NumberOfChunks(total, chunk)
      last == FrameCount(k, ct) - 1
      code == {c \in {0, 10, 100, 1000, 10000, last} : c <= last}
      size == {SymbolSize(total, chunk, ct)} \union (IF ct = "binary" /\ k > 1 THEN {0} ELSE {})
  IN {DataFrame(c, total, chunk, ct, s) : c \in code, s \in size}
       \union (IF n.runes > 0 THEN {NameFrame(total, chunk, ct, n)} ELSE {})

-----------------------------------------------------------------------------
(* The sender.                                                              *)

\* The header and its separator are left out of a colour matrix's room.
ClampColorSplit(s) == Least(s, NumColorPayloadBytes - (MaxFrameOverhead + 1))
Capacity(mode) == IF mode = "color" THEN NumColorPayloadBytes ELSE MaxMediumBytes

ClassicInit ==
  /\ req \in Request /\ stage = "received" /\ tag = "none"
  /\ split = IF req.mode = "color" THEN ClampColorSplit(req.split) ELSE req.split
  /\ longest = MaxFrameSize(req.total, split, req.codec, req.name)

\* validateClassicRequest.
Validate ==
  /\ stage = "received"
  /\ stage' = IF longest = 0 \/ longest > Capacity(req.mode) THEN "refused" ELSE "admitted"
  /\ UNCHANGED <<req, split, longest, tag>>

\* EncodeContext: Raptor whose round trip fails gives way to LT.
EncodeFrames ==
  /\ stage = "admitted" /\ stage' = "encoded"
  /\ LET ct == Effective(NumberOfChunks(req.total, split), req.codec) IN
     tag' \in {ct} \union (IF ct = "raptor" THEN {"lt"} ELSE {})
  /\ UNCHANGED <<req, split, longest>>

ClassicNext == Validate \/ EncodeFrames
ClassicSpec == ClassicInit /\ [][ClassicNext]_classicVars

-----------------------------------------------------------------------------
\* The estimate the request is judged by is right, though it is made before the
\* codec, the frame codes and the cut of the name are known: every frame of an
\* admitted request is one the receiver parses and the symbol holds, and none is
\* longer than the estimate; a request that is refused has parameters no receiver
\* takes, or a frame that would not fit.  And the name comes three times, never
\* more than a third of the sweep apart ("exactly three metadata packets per
\* cycle, spread across the data sweep").
FramesFit ==
  /\ stage = "encoded" =>
       /\ \A f \in Encoded(req.total, split, tag, req.name) :
            ParseFrame(f) /\ Packed(f) <= longest /\ longest <= Capacity(req.mode)
       /\ LET n == FrameCount(NumberOfChunks(req.total, split), tag)
              at == Positions(n)
          IN at[1] = 0 /\ at[3] <= n
             /\ \A gap \in {at[2] - at[1], at[3] - at[2], n - at[3]} : gap \in 0 .. (n + 2) \div 3
  /\ stage = "refused" =>
       LET ct == Effective(NumberOfChunks(req.total, split), req.codec) IN
       \/ ~ValidParameters(req.total, split, ct)
       \/ \E f \in Encoded(req.total, split, ct, req.name) : Packed(f) > Capacity(req.mode)
=============================================================================
