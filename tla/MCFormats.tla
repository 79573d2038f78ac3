------------------------------ MODULE MCFormats ------------------------------
(***************************************************************************)
(* What is on the wire, on small instances, in one run: a behaviour is one *)
(* of the peeling decoder, of a QRT2 request, of a file in a decimen       *)
(* carousel, or of a colour matrix; the variables of the others stay.      *)
(*                                                                         *)
(* The decoder has three blocks, and as frames two of every possible       *)
(* composition, in every order of arrival.  Requests have sizes on both    *)
(* sides of every limit.                                                   *)
(***************************************************************************)
EXTENDS PeelingDecoder, ClassicFrames, Carousel, ColourMatrix

CONSTANTS b1, b2, b3

Blocks == {b1, b2, b3}
Frames == ((SUBSET Blocks) \ {{}}) \X {1, 2}
FrameBlocks == [s \in Frames |-> s[1]]

Requests ==
  [total : {1, 2190, 2191, 6571, 17940480, 17940481, 67108864, 67108865},
   split : 2180 .. 2200 \union {1, 1024, 2933}, mode : {"qr", "color"},
   codec : {"lt", "binary", "raptor", "raptorq", "online"},
   name : {[runes |-> 0, size |-> 1], [runes |-> 11, size |-> 1], [runes |-> 120, size |-> 4]}]

Files ==
  [name : {<< >>, <<"a", "b", "a">>, <<" ", "a", "ctl">>, <<"a", "/", "b">>,
           <<"a", "/", " ", "ctl">>, <<"a", "b", "a", "b">>, <<"a", "/", ".", ".">>, <<"ctl", " ", "b">>},
   type : {0, 3, 4}, size : 1 .. 10, gzip : 2 .. 8, precompressed : BOOLEAN]

VARIABLE part

formatVars == <<vars, classicVars, carouselVars, colourVars, part>>

\* A part that does not run has one input.
OneOf(S, p) == IF part = p THEN S ELSE {CHOOSE x \in S : TRUE}

FormatsInit ==
  /\ part \in {"decoder", "classic", "carousel", "colour"}
  /\ req \in OneOf(Request, "classic") /\ file \in OneOf(File, "carousel")
  /\ picture \in OneOf(Pictures, "colour")
  /\ Init /\ ClassicInit /\ CarouselInit /\ ColourInit

Decoder ==
  part = "decoder" /\ Next /\ UNCHANGED <<classicVars, carouselVars, colourVars, part>>
ClassicRequest ==
  part = "classic" /\ ClassicNext /\ UNCHANGED <<vars, carouselVars, colourVars, part>>
CarouselFile ==
  part = "carousel" /\ CarouselNext /\ UNCHANGED <<vars, classicVars, colourVars, part>>
Colour ==
  part = "colour" /\ ColourNext /\ UNCHANGED <<vars, classicVars, carouselVars, part>>

FormatsNext == Decoder \/ ClassicRequest \/ CarouselFile \/ Colour

FormatsSpec == FormatsInit /\ [][FormatsNext]_formatVars /\ WF_vars(Resolve)
=============================================================================
