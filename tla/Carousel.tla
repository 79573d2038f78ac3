------------------------------- MODULE Carousel -------------------------------
(***************************************************************************)
(* A file on its way through package decimen: PackContainer, the encoder's *)
(* blocks and frames, ParseFrame, Assemble and UnpackContainer.  That the  *)
(* decoder recovers the blocks from the frames is PeelingDecoder's.        *)
(*                                                                         *)
(* A byte of a container is its position, and a byte of padding 0; the XOR *)
(* of blocks is not computed.  gzip is a library: it shortens a file to    *)
(* some length, and undoes that.                                           *)
(***************************************************************************)
EXTENDS Integers, Sequences, FiniteSets

CONSTANTS
  U16,                            \* 65535
  MaxFileBytes,
  FixedPart,                      \* the 49 bytes before the name
  GzipMin, GzipGain, GzipLeast,   \* 768, 64 and 18 bytes
  DecimenBlockLen, MaxBlockLen,   \* 2933
  DefaultType,                    \* the length of "application/octet-stream"
  File                            \* files of an instance: name, type (its length), size,
                                  \* gzip (its length in gzip), precompressed

\* In the code the limits are 65535, 64 MB and more, and 2933 bytes twice; what gzip
\* makes is never shorter than its own 18 bytes.
ASSUME CarouselAssumption ==
  /\ {U16, MaxFileBytes, FixedPart, GzipMin, GzipGain, DefaultType, MaxBlockLen} \subseteq Nat
  /\ GzipLeast \in Nat \ {0}
  /\ DecimenBlockLen \in 1 .. MaxBlockLen
  /\ \A f \in File : /\ f.name \in Seq(STRING) /\ f.size \in Nat \ {0}
                     /\ f.type \in Nat /\ f.gzip \in Nat /\ f.gzip >= GzipLeast

VARIABLES file, container, frames, received

carouselVars == <<file, container, frames, received>>

Refused == [refused |-> TRUE]
Crashed == [refused |-> TRUE, nilEncoder |-> TRUE]
NotYet == [refused |-> FALSE]

-----------------------------------------------------------------------------
(* SanitizeFileName.  A name is a sequence of letters, of ".", of "/", of  *)
(* " " and of control characters "ctl".                                     *)

\* What is behind the last "/" and no control character, in its order.
BaseName(n) ==
  LET kept == {i \in DOMAIN n : n[i] # "ctl" /\ \A j \in DOMAIN n : n[j] = "/" => j < i}
      nth(k) == CHOOSE i \in kept : Cardinality({j \in kept : j <= i}) = k
  IN [k \in 1 .. Cardinality(kept) |-> n[nth(k)]]
TrimSpace(n) ==
  LET ink == {i \in DOMAIN n : n[i] # " "}
  IN IF ink = {} THEN << >>
     ELSE SubSeq(n, CHOOSE i \in ink : \A j \in ink : i <= j, CHOOSE i \in ink : \A j \in ink : j <= i)
SanitizeFileName(n) ==
  LET out == TrimSpace(BaseName(n))
  IN IF out \in {<< >>, <<".">>, <<".", ".">>} THEN <<"transfer.bin">> ELSE out

\* encodeDecimen gives a file without a type one of its own.
TypeOf(f) == IF f.type = 0 THEN DefaultType ELSE f.type

-----------------------------------------------------------------------------
(* The container.                                                           *)

UseGzip(f) == f.size >= GzipMin /\ ~f.precompressed /\ f.gzip + GzipGain < f.size

PackContainer(f) ==
  LET name == SanitizeFileName(f.name)
      sent == IF UseGzip(f) THEN f.gzip ELSE f.size
  IN IF Len(name) > U16 \/ TypeOf(f) > U16 \/ f.size > MaxFileBytes THEN Refused
     ELSE [refused |-> FALSE, gzip |-> UseGzip(f), nameLen |-> Len(name), typeLen |-> TypeOf(f),
           fileLen |-> f.size, transLen |-> sent, name |-> name,
           bytes |-> [i \in 1 .. FixedPart + Len(name) + TypeOf(f) + sent |-> i]]

\* The file, or Refused.  What was packed is found at its place, byte for byte.
UnpackContainer(c, bytes) ==
  LET data == FixedPart + c.nameLen + c.typeLen IN
  IF \/ Len(bytes) < FixedPart \/ data + c.transLen # Len(bytes)
     \/ c.fileLen \notin 1 .. MaxFileBytes \/ c.transLen \notin 1 .. MaxFileBytes
     \/ (IF c.gzip THEN c.transLen < GzipLeast ELSE c.transLen # c.fileLen)
     \/ bytes # c.bytes
  THEN Refused
  ELSE [refused |-> FALSE, name |-> SanitizeFileName(c.name), type |-> c.typeLen, size |-> c.fileLen]

-----------------------------------------------------------------------------
(* Blocks and frames.                                                       *)

MaxPayload == MaxFileBytes + FixedPart + 2 * U16
BlocksFor(length) == (length + DecimenBlockLen - 1) \div DecimenBlockLen

Words == (DecimenBlockLen + 3) \div 4
\* A bug to be caught: blocks follow each other without padding to whole words.
Contiguous(b) == b * DecimenBlockLen
Slot(b) == b * Words * 4

\* NewEncoder copies each block to its slot; Encode reads the slot.
Buffer(bytes) ==
  [p \in 0 .. BlocksFor(Len(bytes)) * Words * 4 - 1 |->
     LET b == p \div (Words * 4)
         i == p - Slot(b)
     IN IF i \in 0 .. DecimenBlockLen - 1 /\ b * DecimenBlockLen + i < Len(bytes)
        THEN bytes[b * DecimenBlockLen + i + 1] ELSE 0]
BlockAt(bytes, b) == [i \in 0 .. DecimenBlockLen - 1 |-> Buffer(bytes)[b * Words * 4 + i]]

\* validHeader: one number of blocks and one length of a block for each length.
ValidHeader(h) ==
  /\ h.k > 0 /\ h.blockLen \in 1 .. MaxBlockLen /\ h.totalLen \in 1 .. MaxPayload
  /\ h.totalLen <= h.k * h.blockLen /\ h.totalLen > (h.k - 1) * h.blockLen

\* FrameComposition of the sweep: frame seq is block seq % (2k), for the first k.
\* (The k frames after it are sums of blocks, of which nothing new can be said.)
Sweep(k) == 0 .. k - 1

-----------------------------------------------------------------------------
CarouselInit == file \in File /\ container = NotYet /\ frames = NotYet /\ received = NotYet

Pack ==
  /\ container = NotYet /\ container' = PackContainer(file)
  /\ UNCHANGED <<file, frames, received>>

TooMany(k) == k > U16

\* encodeDecimen.  It uses the encoder without a look at it: nil would crash.
EncodeDecimen ==
  /\ container \notin {NotYet, Refused} /\ frames = NotYet
  /\ LET length == Len(container.bytes)
         k == BlocksFor(length)
     IN frames' = IF TooMany(k) THEN Refused
                  ELSE IF length \notin 1 .. MaxPayload \/ DecimenBlockLen \notin 1 .. MaxBlockLen THEN Crashed
                  ELSE [refused |-> FALSE,
                        header |-> [k |-> k % (U16 + 1), blockLen |-> DecimenBlockLen, totalLen |-> length],
                        payload |-> [b \in Sweep(k) |-> BlockAt(container.bytes, b)]]
  /\ UNCHANGED <<file, container, received>>

\* Assemble cuts the last block; the padding goes.
Assemble(h, payload) ==
  [i \in 1 .. h.totalLen |-> payload[(i - 1) \div h.blockLen][(i - 1) % h.blockLen]]

\* ParseFrame of each frame, then Assemble and UnpackContainer.
Receive ==
  /\ frames \notin {NotYet, Refused, Crashed} /\ received = NotYet
  /\ received' = IF ~ValidHeader(frames.header) THEN Refused
                 ELSE UnpackContainer(container, Assemble(frames.header, frames.payload))
  /\ UNCHANGED <<file, container, frames>>

CarouselNext == Pack \/ EncodeDecimen \/ Receive
CarouselSpec == CarouselInit /\ [][CarouselNext]_carouselVars

-----------------------------------------------------------------------------
\* The limits of the two ends agree, and so do the ways they cut a container: a
\* file that is packed and encoded arrives, whatever the length of its name and
\* type, at every size up to the limit, compressed or not, and though a block is
\* no whole number of words; it has the name it was sent under, and no path.  Only a
\* file or name or type over a limit, or too many blocks for a header, is refused,
\* and what is not refused has an encoder.
ContainerArrives ==
  /\ received # NotYet =>
       received = [refused |-> FALSE, name |-> SanitizeFileName(file.name), type |-> TypeOf(file), size |-> file.size]
  /\ container = Refused => Len(SanitizeFileName(file.name)) > U16 \/ TypeOf(file) > U16 \/ file.size > MaxFileBytes
  /\ frames = Refused => Len(container.bytes) > U16 * DecimenBlockLen
  /\ frames # Crashed
=============================================================================
