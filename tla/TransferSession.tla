-------------------------- MODULE TransferSession --------------------------
(***************************************************************************)
(* The receive session of one screen region (internal/scanner/decode.go):  *)
(* which transfer its frames are taken to belong to, when another transfer *)
(* is adopted, when content is verified, and the wait for a file name.     *)
(*                                                                         *)
(* feedPayload, finishNameWait and reset run under decodeState.mu: one     *)
(* step each.  A transfer is its identity, a frame an identity and the     *)
(* code of an equation, or a name.  Solving is left to the decoders: an    *)
(* equation makes the content solvable or not, from Need equations on.     *)
(***************************************************************************)
EXTENDS Naturals, FiniteSets, SessionPhases

CONSTANTS
  TxqrId, DecimenId,         \* transfers of the QRT2 and the Decimen protocol
  Corrupt,                   \* those whose content does not match its checksum
  Code,                      \* codes of equations
  Need,                      \* equations without which nothing can be solved
  SwitchAfter,               \* sessionSwitchAfter, 15 in the code
  None

Id == TxqrId \union DecimenId
Decoder == [id : Id, eqs : SUBSET [id : Id, code : Code], name : Id \union {None}, ready : BOOLEAN]

ASSUME SessionAssumption ==
  /\ TxqrId \intersect DecimenId = {}
  /\ Corrupt \subseteq Id
  /\ SwitchAfter \in Nat \ {0, 1} /\ Need \in Nat \ {0}
  /\ None \notin Id /\ None \notin Decoder

Protocol(id) == IF id \in TxqrId THEN "txqr" ELSE "decimen"
Frame == [id : Id, name : {FALSE}, code : Code] \union [id : TxqrId, name : {TRUE}, code : {None}]

VARIABLES
  mode,                      \* "", "txqr" or "decimen"
  dec,                       \* the decoder of the session's transfer, or None
  candidate, mismatch,       \* the foreign transfer seen last, how often
  seen, bytes,               \* txqrSeen; equations counted as received
  failed, completed,
  wait,                      \* nameDeadline: "none", "running", "over"
  fileName,                  \* the transfer whose name is known, or None
  result,                    \* the transfer whose content was verified, or None
  run, cross                 \* history: foreign frames in a row, see Observe

session == <<mode, dec, candidate, mismatch, seen, bytes, failed, completed, wait,
             fileName, result>>
vars == <<session, run, cross>>

NoRun == [id |-> None, n |-> 0]

Init ==
  /\ mode = "" /\ dec = None
  /\ candidate = None /\ mismatch = 0
  /\ seen = {} /\ bytes = 0
  /\ failed = FALSE /\ completed = FALSE /\ wait = "none"
  /\ fileName = None /\ result = None
  /\ run = NoRun /\ cross = NoRun

-----------------------------------------------------------------------------
(* The decoders (txqr.Decoder, decimen.LTDecoder).  A decoder holds the    *)
(* equations it accepted; ready says that they could be solved.            *)

NewDecoder(id) == [id |-> id, eqs |-> {}, name |-> None, ready |-> FALSE]

\* What an equation may do.  A code seen before adds nothing, and an erasure
\* decoder may also reject a symbol.
CodesOf(d) == {e.code : e \in d.eqs}
Added(d, f) ==
  LET grown == [d EXCEPT !.eqs = @ \union {[id |-> f.id, code |-> f.code]}]
  IN  IF f.code \in CodesOf(d) \/ d.ready
        THEN {d}
        ELSE {grown} \union IF Cardinality(grown.eqs) >= Need THEN {[grown EXCEPT !.ready = TRUE]} ELSE {}

\* txqr.Decoder.Decode on a frame of its own transfer; the first name wins.
Decoded(d, f) ==
  IF f.name
    THEN {[d EXCEPT !.name = IF @ = None THEN f.id ELSE @]}
    ELSE {d} \union Added(d, f)

\* Solved equations give the content only if all of them are of one transfer
\* and its content is what the sender hashed.
\* (A bug to be caught: any solution is taken.)
Unchecked(d) == d.ready
Verified(d) == d.ready /\ d.id \notin Corrupt /\ \A e \in d.eqs : e.id = d.id

-----------------------------------------------------------------------------
(* Following one transfer, adopting another.                               *)

Foreign(f) == dec # None /\ dec.id # f.id

\* A bug to be caught: foreign frames of different transfers are added up.
MismatchesOfAnyKind(f) == mismatch + 1

\* The mismatch counter after a foreign frame.
Mismatches(f) == (IF candidate = f.id THEN mismatch ELSE 0) + 1

Patience(f) ==
  /\ candidate' = f.id
  /\ mismatch' = Mismatches(f)
  /\ UNCHANGED <<mode, dec, seen, bytes, failed, completed, wait, fileName, result>>

\* A bug to be caught: the old decoder goes on with the new transfer.
DecoderKept(f) == IF dec = None THEN NewDecoder(f.id) ELSE [dec EXCEPT !.id = f.id]

\* The decoder a frame is given to: a switch, like the first frame, makes
\* a new one.
DecoderFor(f) == IF dec = None \/ Foreign(f) THEN NewDecoder(f.id) ELSE dec

-----------------------------------------------------------------------------
(* feedTxqrLocked.                                                         *)

\* Content waiting for its name holds the session, against any other
\* transfer; a bug to be caught is that it does not.
NeverHeld == FALSE
Held == wait # "none"

\* A bug to be caught: one frame too late.
TxqrSwitchesLate(f) == Mismatches(f) > SwitchAfter
TxqrSwitches(f) == Mismatches(f) >= SwitchAfter

\* A bug to be caught: the codes counted for the old transfer stay counted.
CountedAfterSwitch(f) == seen
Counted(f) == IF Foreign(f) THEN {} ELSE seen

\* What follows the decoder's verdict d on frame f.
TxqrOutcome(f, d) ==
  LET fresh == ~f.name /\ f.code \notin Counted(f) /\ wait = "none"
                 /\ f.code \in CodesOf(d)
      before == IF Foreign(f) THEN 0 ELSE bytes
  IN  /\ dec' = d
      /\ fileName' = d.name
      /\ failed' = (d.ready /\ ~Verified(d))
      /\ seen' = IF fresh /\ ~failed' THEN Counted(f) \union {f.code} ELSE Counted(f)
      /\ bytes' = IF fresh /\ ~failed' THEN before + 1 ELSE before
      /\ result' = IF ~f.name /\ Verified(d) THEN d.id ELSE result
      /\ \/ /\ f.name /\ wait # "none"
            /\ completed' = TRUE /\ wait' = "none"
         \/ /\ f.name /\ wait = "none"
            /\ UNCHANGED <<completed, wait>>
         \/ /\ ~f.name /\ (wait # "none" \/ ~Verified(d))
            /\ UNCHANGED <<completed, wait>>
         \/ /\ ~f.name /\ wait = "none" /\ Verified(d)
            /\ completed' = (d.name # None)
            /\ wait' = IF d.name = None THEN "running" ELSE "none"

\* Solving the equations, with f's among them, fails with an error: the decoder
\* has the equation then, and the session does not count it.
SolveFails(f) ==
  /\ ~f.name
  /\ \E d \in Added(DecoderFor(f), f) \ {DecoderFor(f)} :
       /\ Cardinality(d.eqs) >= Need /\ ~d.ready
       /\ dec' = d /\ fileName' = d.name
  /\ seen' = Counted(f) /\ bytes' = IF Foreign(f) THEN 0 ELSE bytes
  /\ UNCHANGED <<failed, completed, wait, result>>

FeedTxqr(f) ==
  /\ mode # "decimen"
  /\ \/ Foreign(f) /\ Held /\ UNCHANGED session
     \/ Foreign(f) /\ ~Held /\ ~TxqrSwitches(f) /\ Patience(f)
     \/ /\ Foreign(f) => ~Held /\ TxqrSwitches(f)
        /\ mode' = "txqr"
        /\ mismatch' = 0
        /\ candidate' = IF Foreign(f) THEN f.id ELSE None
        /\ \/ \E d \in Decoded(DecoderFor(f), f) : TxqrOutcome(f, d)
           \/ SolveFails(f)

-----------------------------------------------------------------------------
(* feedDecimenLocked: no name frames, no wait, and the decoder itself does *)
(* not look at identities.                                                 *)

FeedDecimen(f) ==
  /\ mode # "txqr"
  /\ \/ Foreign(f) /\ Mismatches(f) < SwitchAfter /\ Patience(f)
     \/ /\ Foreign(f) => Mismatches(f) >= SwitchAfter
        /\ mode' = "decimen"
        /\ mismatch' = IF Foreign(f) THEN Mismatches(f) ELSE 0
        /\ candidate' = IF Foreign(f) THEN f.id ELSE candidate
        /\ \E d \in Added(DecoderFor(f), f) :
             /\ dec' = d
             /\ bytes' = (IF Foreign(f) THEN 0 ELSE bytes)
                           + (IF d # DecoderFor(f) THEN 1 ELSE 0)
             /\ failed' = (d.ready /\ ~Verified(d))
             /\ completed' = Verified(d)
             /\ result' = IF Verified(d) THEN d.id ELSE None
             /\ fileName' = IF Verified(d) THEN d.id ELSE fileName
        /\ UNCHANGED <<seen, wait>>

-----------------------------------------------------------------------------
(* History: how many frames in a row were of one and the same foreign      *)
(* transfer; run counts among the frames of the session's protocol, cross  *)
(* counts frames of the other protocol.                                    *)

Longer(r, f) == IF r.id = f.id THEN [r EXCEPT !.n = IF @ < SwitchAfter THEN @ + 1 ELSE @]
                               ELSE [id |-> f.id, n |-> 1]

Observe(f) ==
  IF ~Foreign(f) \/ dec'.id = f.id THEN run' = NoRun /\ cross' = NoRun
  ELSE IF Protocol(f.id) = mode     THEN run' = Longer(run, f) /\ cross' = NoRun
  ELSE                                   cross' = Longer(cross, f) /\ UNCHANGED run

\* A frame of the other protocol than the session's never gets further.
IgnoreProtocol(f) ==
  /\ mode \notin {"", Protocol(f.id)}
  /\ UNCHANGED session

FeedPayload(f) ==
  /\ ~completed /\ ~failed
  /\ \/ f.id \in TxqrId /\ FeedTxqr(f)
     \/ f.id \in DecimenId /\ FeedDecimen(f)
     \/ IgnoreProtocol(f)
  /\ Observe(f)

DeadlinePasses ==
  /\ wait = "running"
  /\ wait' = "over"
  /\ UNCHANGED <<mode, dec, candidate, mismatch, seen, bytes, failed, completed,
                 fileName, result, run, cross>>

FinishNameWait ==
  /\ ~completed /\ ~failed /\ wait = "over"
  /\ wait' = "none"
  /\ completed' = TRUE
  /\ UNCHANGED <<mode, dec, candidate, mismatch, seen, bytes, failed, fileName,
                 result, run, cross>>

\* reset, which Start calls for a failed or completed region.
Reset ==
  /\ completed \/ failed
  /\ mode' = "" /\ dec' = None
  /\ candidate' = None /\ mismatch' = 0
  /\ seen' = {} /\ bytes' = 0
  /\ failed' = FALSE /\ completed' = FALSE /\ wait' = "none"
  /\ fileName' = None /\ result' = None
  /\ run' = NoRun /\ cross' = NoRun

Next ==
  \/ \E f \in Frame : FeedPayload(f)
  \/ DeadlinePasses
  \/ FinishNameWait
  \/ Reset

Spec == Init /\ [][Next]_vars

-----------------------------------------------------------------------------
(* Properties.                                                             *)

TypeOK ==
  /\ mode \in {"", "txqr", "decimen"}
  /\ dec \in Decoder \union {None}
  /\ candidate \in Id \union {None} /\ mismatch \in 0 .. SwitchAfter
  /\ seen \subseteq Code /\ bytes \in Nat
  /\ failed \in BOOLEAN /\ completed \in BOOLEAN /\ wait \in {"none", "running", "over"}
  /\ fileName \in Id \union {None} /\ result \in Id \union {None}

(* The equations and the name in the decoder are all of the transfer the   *)
(* session says it follows, whatever was switched away from before; and    *)
(* the progress shown counts equations of this transfer, each once.        *)
OneTransferOnly ==
  dec # None => /\ \A e \in dec.eqs : e.id = dec.id
                /\ dec.name \in {None, dec.id}
                /\ ~failed => IF mode = "txqr"
                                THEN seen \subseteq CodesOf(dec) /\ bytes = Cardinality(seen)
                                ELSE bytes = Cardinality(dec.eqs)

(* A file is never delivered under the name of another: the name stored    *)
(* beside verified content is the one sent with it.                        *)
NameOfContent == result # None => fileName \in {None, result}

(* After SwitchAfter frames in a row of one new transfer of the same       *)
(* protocol, the session has adopted it - unless it holds verified content *)
(* or has failed.                                                          *)
Receiving == ~failed /\ ~completed /\ wait = "none"
SwitchInTime == Receiving => run.n < SwitchAfter

(* And it adopts no other transfer before that: strays, and frames of      *)
(* several transfers taking turns, never cost the equations received.      *)
SwitchDeserved ==
  [][dec # None /\ dec' # None /\ dec'.id # dec.id =>
       run = [id |-> dec'.id, n |-> SwitchAfter - 1] /\ Receiving]_vars

(* The session is what the pipeline around it takes it for.                *)
phase ==
  CASE completed      -> "completed"
    [] failed         -> "failed"
    [] wait # "none"  -> "nameWait"
    [] OTHER          -> "receiving"

Contract == INSTANCE SessionContract WITH content <- result
HonoursContract == Contract!Spec

(* "how many consecutive frames with a foreign header we accept before     *)
(* concluding the sender started a new transfer and adopting it": the same *)
(* for a transfer of the other protocol.                                   *)
SwitchAcrossProtocols == Receiving => cross.n < SwitchAfter
=============================================================================
