------------------------ MODULE TransferSessionProofs ------------------------
(***************************************************************************)
(* A receive session follows one transfer, keeps names with contents,      *)
(* switches exactly when it should and honours its contract, for any       *)
(* transfers, codes, thresholds and choices of the erasure decoders.       *)
(***************************************************************************)
EXTENDS TransferSession, TLAPS, FiniteSetTheorems

\* A decoder has equations and a name of its own transfer.
Own(d) ==
  /\ \A e \in d.eqs : e.id = d.id
  /\ d.name \in {None, d.id}
  /\ IsFiniteSet(d.eqs)

DecoderOK ==
  /\ mode = "" <=> dec = None
  /\ dec # None => Own(dec) /\ Protocol(dec.id) = mode

\* Equations are counted once; what txqrSeen holds are the decoder's.
CountOK ==
  /\ IsFiniteSet(seen)
  /\ dec = None => bytes = 0 /\ seen = {}
  /\ dec # None /\ ~failed => IF mode = "txqr" THEN seen \subseteq CodesOf(dec) /\ bytes = Cardinality(seen)
                                              ELSE bytes = Cardinality(dec.eqs)

\* The phases, and what the result and the name are in each.
PhaseOK ==
  /\ ~(completed /\ failed) /\ (wait # "none" => ~completed /\ ~failed /\ mode = "txqr")
  /\ result # None <=> completed \/ wait # "none"
  /\ dec = None => Receiving /\ fileName = None
  /\ dec # None => dec.ready <=> ~Receiving
  /\ result # None => dec # None /\ Verified(dec) /\ result = dec.id
  /\ mode = "txqr" => fileName = dec.name
  /\ mode = "decimen" => fileName = IF completed THEN dec.id ELSE None

\* The mismatch counter against the frames there were: a run of foreign frames
\* is counted from the last frame of the session's own transfer on.
RunOK ==
  Receiving =>
    \/ run = NoRun /\ (mismatch = 0 \/ (dec # None /\ candidate = dec.id))
    \/ /\ dec # None /\ candidate # dec.id /\ candidate # None
       /\ run = [id |-> candidate, n |-> mismatch] /\ mismatch \in 1 .. SwitchAfter - 1

SessionInv == TypeOK /\ DecoderOK /\ CountOK /\ PhaseOK /\ RunOK

(* The mismatch counter is a number, and what TypeOK says of the rest.     *)
LEMMA Numbers ==
  ASSUME TypeOK
  PROVE  /\ mismatch \in Nat /\ mismatch <= SwitchAfter /\ SwitchAfter \in Nat /\ SwitchAfter > 1
         /\ candidate \in Id \union {None} /\ bytes \in Nat
<1>1. SwitchAfter \in Nat /\ SwitchAfter > 1
  BY SessionAssumption
<1>2. mismatch \in 0 .. SwitchAfter /\ candidate \in Id \union {None} /\ bytes \in Nat
  BY DEF TypeOK
<1> QED
  BY <1>1, <1>2

(* What a frame is.                                                        *)
LEMMA Frames ==
  ASSUME NEW f \in Frame
  PROVE  /\ f.id \in Id /\ f.name \in BOOLEAN
         /\ f.name => f.id \in TxqrId
         /\ ~f.name => f.code \in Code
         /\ Protocol(f.id) \in {"txqr", "decimen"}
         /\ Protocol(f.id) = "txqr" <=> f.id \in TxqrId
BY DEF Frame, Id, Protocol

(* The fields of a decoder.                                                *)
LEMMA DecoderFields ==
  ASSUME NEW i \in Id, NEW E \in SUBSET [id : Id, code : Code], NEW n \in Id \union {None}, NEW r \in BOOLEAN
  PROVE  [id |-> i, eqs |-> E, name |-> n, ready |-> r] \in Decoder
BY DEF Decoder

(* A new decoder is empty.                                                 *)
LEMMA EmptyDecoder ==
  ASSUME NEW id \in Id
  PROVE  /\ NewDecoder(id) \in Decoder /\ NewDecoder(id).id = id /\ NewDecoder(id).name = None
         /\ Own(NewDecoder(id)) /\ ~NewDecoder(id).ready
         /\ CodesOf(NewDecoder(id)) = {} /\ Cardinality(NewDecoder(id).eqs) = 0
BY FS_EmptySet DEF NewDecoder, Decoder, Own, CodesOf

(* Added: an equation of the decoder's transfer is there or not, never     *)
(* twice, and nothing else changes but readiness.                          *)
LEMMA EquationAdded ==
  ASSUME NEW d \in Decoder, Own(d), NEW f \in Frame, ~f.name, d.id = f.id, NEW e \in Added(d, f)
  PROVE  /\ e \in Decoder /\ e.id = d.id /\ e.name = d.name /\ Own(e)
         /\ \/ e = d
            \/ /\ f.code \notin CodesOf(d) /\ ~d.ready /\ e # d
               /\ CodesOf(e) = CodesOf(d) \union {f.code}
               /\ Cardinality(e.eqs) = Cardinality(d.eqs) + 1
         /\ d.ready => e = d
         /\ Cardinality(d.eqs) \in Nat
<1> DEFINE q == [id |-> f.id, code |-> f.code]
           grown == [d EXCEPT !.eqs = @ \union {q}]
<1>1. f.id \in Id /\ f.code \in Code
  BY Frames
<1>2. CASE e = d
  BY <1>2, FS_CardinalityType DEF Own
<1>3. CASE e # d
  <2>1. f.code \notin CodesOf(d) /\ ~d.ready
    BY <1>3 DEF Added, CodesOf
  <2>2. e = grown \/ e = [grown EXCEPT !.ready = TRUE]
    BY <1>3 DEF Added
  <2>3. q \in [id : Id, code : Code]
    BY <1>1
  <2>4. e.eqs = d.eqs \union {q} /\ e.id = d.id /\ e.name = d.name /\ e \in Decoder
    <3> HIDE DEF q
    <3>1. d.eqs \union {q} \in SUBSET [id : Id, code : Code] /\ d.id \in Id /\ d.name \in Id \union {None}
      BY <2>3 DEF Decoder
    <3>2. e \in {[d EXCEPT !.eqs = d.eqs \union {q}],
                 [[d EXCEPT !.eqs = d.eqs \union {q}] EXCEPT !.ready = TRUE]}
      BY <2>2
    <3>3. e \in {[id |-> d.id, eqs |-> d.eqs \union {q}, name |-> d.name, ready |-> d.ready],
                 [id |-> d.id, eqs |-> d.eqs \union {q}, name |-> d.name, ready |-> TRUE]}
      BY <3>2 DEF Decoder
    <3>4. e.eqs = d.eqs \union {q} /\ e.id = d.id /\ e.name = d.name
      BY <3>3
    <3>5. d.ready \in BOOLEAN
      BY DEF Decoder
    <3>6. \A r \in BOOLEAN : [id |-> d.id, eqs |-> d.eqs \union {q}, name |-> d.name, ready |-> r] \in Decoder
      BY <3>1, DecoderFields
    <3>7. e \in Decoder
      BY <3>3, <3>5, <3>6
    <3> QED
      BY <3>4, <3>7
  <2>5. q \notin d.eqs
    BY <2>1 DEF CodesOf
  <2>6. Cardinality(e.eqs) = Cardinality(d.eqs) + 1 /\ IsFiniteSet(e.eqs) /\ Cardinality(d.eqs) \in Nat
    <3> HIDE DEF q
    <3>1. IsFiniteSet(d.eqs)
      BY DEF Own
    <3> QED
      BY <2>4, <2>5, <3>1, FS_AddElement, FS_CardinalityType
  <2>7. CodesOf(e) = CodesOf(d) \union {f.code}
    <3>1. q.code = f.code
      OBVIOUS
    <3> HIDE DEF q
    <3>2. \A c : c \in CodesOf(e) <=> c \in CodesOf(d) \/ c = f.code
      BY <2>4, <3>1 DEF CodesOf
    <3> QED
      BY <3>2
  <2>8. Own(e)
    BY <2>4, <2>6 DEF Own
  <2> QED
    BY <1>3, <2>1, <2>4, <2>6, <2>7, <2>8
<1> QED
  BY <1>2, <1>3

(* The decoder a frame is given to is one of the frame's transfer.         *)
LEMMA DecoderChosen ==
  ASSUME SessionInv, NEW f \in Frame
  PROVE  /\ DecoderFor(f) \in Decoder /\ Own(DecoderFor(f)) /\ DecoderFor(f).id = f.id
         /\ dec = None \/ Foreign(f) => DecoderFor(f) = NewDecoder(f.id)
         /\ dec # None /\ ~Foreign(f) => DecoderFor(f) = dec /\ dec.id = f.id
BY Frames, EmptyDecoder DEF SessionInv, TypeOK, DecoderOK, DecoderFor, Foreign

-----------------------------------------------------------------------------
(* A frame that is taken.                                                  *)

\* What every step is shown to do beside keeping the invariant: it adopts
\* another transfer only when that is due, and is a step of the contract.
Due == dec # None /\ dec' # None /\ dec'.id # dec.id
         => run = [id |-> dec'.id, n |-> SwitchAfter - 1] /\ Receiving
Promised == Contract!Next \/ UNCHANGED <<phase, result>>

(* The phase of a session.                                                 *)
LEMMA PhaseIs ==
  ASSUME PhaseOK, TypeOK
  PROVE  phase = IF completed THEN "completed" ELSE IF failed THEN "failed"
                 ELSE IF wait # "none" THEN "nameWait" ELSE "receiving"
BY DEF phase, PhaseOK, TypeOK

LEMMA PhaseIsNext ==
  ASSUME PhaseOK', TypeOK'
  PROVE  phase' = IF completed' THEN "completed" ELSE IF failed' THEN "failed"
                  ELSE IF wait' # "none" THEN "nameWait" ELSE "receiving"
BY DEF phase, PhaseOK, TypeOK

(* A switch is due: the frames before were of the new transfer, in a row.  *)
LEMMA SwitchIsDue ==
  ASSUME SessionInv, NEW f \in Frame, Receiving, Foreign(f) => Mismatches(f) >= SwitchAfter,
         dec' \in Decoder, dec'.id = f.id
  PROVE  Due
<1>1. f.id \in Id /\ SwitchAfter \in Nat /\ SwitchAfter > 1
  BY Frames, SessionAssumption
<1>2. CASE Foreign(f)
  <2>1. candidate = f.id /\ mismatch >= SwitchAfter - 1 /\ mismatch # 0
    <3>1. mismatch \in 0 .. SwitchAfter
      BY DEF SessionInv, TypeOK
    <3>2. (IF candidate = f.id THEN mismatch ELSE 0) + 1 >= SwitchAfter
      BY <1>2 DEF Mismatches
    <3>3. candidate = f.id
      BY <1>1, <3>2
    <3> QED
      BY <1>1, <3>1, <3>2, <3>3
  <2>2. candidate # dec.id
    BY <1>2, <2>1 DEF Foreign
  <2>3. run = [id |-> candidate, n |-> mismatch] /\ mismatch \in 1 .. SwitchAfter - 1
    BY <2>1, <2>2 DEF SessionInv, RunOK
  <2>4. mismatch = SwitchAfter - 1
    BY <1>1, <2>1, <2>3
  <2> QED
    BY <2>1, <2>3, <2>4 DEF Due
<1>3. CASE ~Foreign(f)
  BY <1>3 DEF Due, Foreign
<1> QED
  BY <1>2, <1>3

(* The decoder after a QRT2 frame.                                         *)
LEMMA TxqrDecoder ==
  ASSUME SessionInv, NEW f \in Frame, NEW d \in Decoded(DecoderFor(f), f)
  PROVE  /\ d \in Decoder /\ d.id = f.id /\ Own(d)
         /\ f.name \/ DecoderFor(f).ready
              => d.eqs = DecoderFor(f).eqs /\ d.ready = DecoderFor(f).ready
         /\ ~f.name => d.name = DecoderFor(f).name
         /\ f.name => d.name = f.id
         /\ ~f.name => \/ d = DecoderFor(f)
                       \/ /\ f.code \notin CodesOf(DecoderFor(f)) /\ ~DecoderFor(f).ready
                          /\ CodesOf(d) = CodesOf(DecoderFor(f)) \union {f.code}
                          /\ Cardinality(d.eqs) = Cardinality(DecoderFor(f).eqs) + 1
         /\ Cardinality(DecoderFor(f).eqs) \in Nat
<1> DEFINE D == DecoderFor(f)
<1>1. D \in Decoder /\ Own(D) /\ D.id = f.id
  BY DecoderChosen
<1>2. Cardinality(D.eqs) \in Nat
  BY <1>1, FS_CardinalityType DEF Own
<1> HIDE DEF D
<1>3. CASE ~f.name
  <2>1. d = D \/ d \in Added(D, f)
    BY <1>3 DEF Decoded, D
  <2>2. CASE d = D
    BY <1>1, <1>2, <1>3, <2>2 DEF D
  <2>3. CASE d \in Added(D, f)
    BY <1>1, <1>2, <1>3, <2>3, EquationAdded DEF D
  <2> QED
    BY <2>1, <2>2, <2>3
<1>4. CASE f.name
  <2>1. d = [D EXCEPT !.name = IF @ = None THEN f.id ELSE @]
    BY <1>4 DEF Decoded, D
  <2>2. f.id \in Id /\ D.name \in {None, f.id}
    BY <1>1, Frames DEF Own
  <2>3. d = [D EXCEPT !.name = f.id]
    BY <1>1, <2>1, <2>2 DEF Decoder
  <2>4. d = [id |-> f.id, eqs |-> D.eqs, name |-> f.id, ready |-> D.ready]
    BY <1>1, <2>3 DEF Decoder
  <2>5. D.eqs \in SUBSET [id : Id, code : Code] /\ D.ready \in BOOLEAN
    BY <1>1 DEF Decoder
  <2>6. d \in Decoder
    BY <2>2, <2>4, <2>5, DecoderFields
  <2>7. d.id = f.id /\ d.eqs = D.eqs /\ d.name = f.id /\ d.ready = D.ready
    BY <2>4
  <2>8. Own(d)
    BY <1>1, <2>7 DEF Own
  <2> QED
    BY <1>2, <1>4, <2>6, <2>7, <2>8 DEF D
<1> QED
  BY <1>3, <1>4, Frames

(* What of the decoder's equations has been counted when a QRT2 frame comes. *)
LEMMA CountedBefore ==
  ASSUME SessionInv, NEW f \in Frame, ~failed, mode # "decimen"
  PROVE  /\ (IF Foreign(f) THEN 0 ELSE bytes) = Cardinality(Counted(f))
         /\ Counted(f) \subseteq CodesOf(DecoderFor(f)) /\ IsFiniteSet(Counted(f))
<1>1. Cardinality({}) = 0 /\ IsFiniteSet({})
  BY FS_EmptySet
<1>2. dec # None => mode = "txqr"
  BY DEF SessionInv, DecoderOK, TypeOK
<1>3. CASE dec = None
  BY <1>1, <1>3 DEF Counted, Foreign, SessionInv, CountOK
<1>4. CASE dec # None /\ Foreign(f)
  BY <1>1, <1>4 DEF Counted
<1>5. CASE dec # None /\ ~Foreign(f)
  BY <1>2, <1>5, DecoderChosen DEF Counted, SessionInv, CountOK
<1> QED
  BY <1>3, <1>4, <1>5

(* Solving fails with an error: the equation is there and is not counted.  *)
LEMMA TxqrStumbled ==
  ASSUME SessionInv, NEW f \in Frame, f.id \in TxqrId, ~completed, ~failed, mode # "decimen",
         Foreign(f) => ~Held /\ TxqrSwitches(f),
         mode' = "txqr", mismatch' = 0, candidate' = IF Foreign(f) THEN f.id ELSE None,
         SolveFails(f), Observe(f)
  PROVE  SessionInv' /\ Due /\ Promised
<1> DEFINE D == DecoderFor(f)
<1>1. D \in Decoder /\ Own(D) /\ D.id = f.id /\ (dec = None \/ Foreign(f) => D = NewDecoder(f.id))
      /\ (dec # None /\ ~Foreign(f) => D = dec /\ dec.id = f.id)
  BY DecoderChosen
<1>2. PICK d \in Added(D, f) \ {D} : ~d.ready /\ dec' = d /\ fileName' = d.name
  BY DEF SolveFails
<1>3. /\ ~f.name /\ UNCHANGED <<failed, completed, wait, result>>
      /\ seen' = Counted(f) /\ bytes' = IF Foreign(f) THEN 0 ELSE bytes
  BY DEF SolveFails
<1>4. /\ d \in Decoder /\ d.id = f.id /\ d.name = D.name /\ Own(d)
      /\ ~D.ready /\ CodesOf(D) \subseteq CodesOf(d)
  BY <1>1, <1>2, <1>3, EquationAdded
<1>5. f.id \in Id /\ Protocol(f.id) = "txqr" /\ f.id # None /\ d # None
  BY <1>4, Frames, SessionAssumption
<1>6. Receiving
  BY <1>1, <1>4 DEF Receiving, Held, SessionInv, PhaseOK
<1>7. result = None /\ ~failed' /\ Receiving'
  BY <1>3, <1>6 DEF SessionInv, PhaseOK, Receiving
<1>8. PhaseOK'
  BY <1>2, <1>3, <1>5, <1>6, <1>7 DEF PhaseOK, Receiving
<1>9. CountOK'
  BY <1>2, <1>3, <1>4, <1>5, CountedBefore DEF CountOK
<1>10. TypeOK'
  <2>1. d.name \in Id \union {None} /\ d \in Decoder
    BY <1>4 DEF Decoder
  <2>2. candidate' \in Id \union {None} /\ mismatch' \in 0 .. SwitchAfter
    BY <1>5, SessionAssumption
  <2>3. seen' \subseteq Code /\ bytes' \in Nat
    BY <1>3 DEF Counted, SessionInv, TypeOK
  <2> QED
    BY <1>2, <1>3, <2>1, <2>2, <2>3 DEF SessionInv, TypeOK
<1>11. DecoderOK' /\ RunOK'
  <2>1. run' = NoRun
    BY <1>2, <1>4 DEF Observe
  <2> QED
    BY <1>2, <1>4, <1>5, <2>1 DEF DecoderOK, RunOK
<1>12. Due
  BY <1>2, <1>4, <1>6, SwitchIsDue DEF TxqrSwitches
<1>13. Promised
  <2>1. phase = "receiving"
    BY <1>6, PhaseIs DEF SessionInv, Receiving
  <2>2. phase' = "receiving"
    BY <1>7, <1>8, <1>10, PhaseIsNext DEF Receiving
  <2> QED
    BY <1>3, <2>1, <2>2 DEF Promised
<1> QED
  BY <1>8, <1>9, <1>10, <1>11, <1>12, <1>13 DEF SessionInv

(* feedTxqrLocked gives a frame to a decoder.                              *)
LEMMA TxqrTaken ==
  ASSUME SessionInv, NEW f \in Frame, f.id \in TxqrId, ~completed, ~failed, mode # "decimen",
         Foreign(f) => ~Held /\ TxqrSwitches(f),
         mode' = "txqr", mismatch' = 0, candidate' = IF Foreign(f) THEN f.id ELSE None,
         NEW d \in Decoded(DecoderFor(f), f), TxqrOutcome(f, d), Observe(f)
  PROVE  SessionInv' /\ Due /\ Promised
<1> DEFINE D == DecoderFor(f)
<1>1. D \in Decoder /\ Own(D) /\ D.id = f.id /\ (dec = None \/ Foreign(f) => D = NewDecoder(f.id))
      /\ (dec # None /\ ~Foreign(f) => D = dec /\ dec.id = f.id)
  BY DecoderChosen
<1>2. /\ d \in Decoder /\ d.id = f.id /\ Own(d)
      /\ f.name \/ D.ready => d.eqs = D.eqs /\ d.ready = D.ready
      /\ ~f.name => d.name = D.name
      /\ f.name => d.name = f.id
      /\ ~f.name => \/ d = D
                    \/ /\ f.code \notin CodesOf(D) /\ ~D.ready
                       /\ CodesOf(d) = CodesOf(D) \union {f.code}
                       /\ Cardinality(d.eqs) = Cardinality(D.eqs) + 1
      /\ Cardinality(D.eqs) \in Nat
  BY TxqrDecoder
<1>3. f.id \in Id /\ f.name \in BOOLEAN /\ (~f.name => f.code \in Code) /\ Protocol(f.id) = "txqr"
      /\ f.id # None /\ d # None
  BY <1>2, Frames, SessionAssumption
<1>4. dec' = d /\ fileName' = d.name /\ failed' = (d.ready /\ ~Verified(d))
  BY DEF TxqrOutcome
<1>5. Receiving \/ (wait # "none" /\ dec # None /\ ~Foreign(f) /\ D = dec /\ dec.ready /\ Verified(dec) /\ result = dec.id)
  BY <1>1 DEF Receiving, Held, SessionInv, PhaseOK
<1>6. Receiving => ~D.ready /\ result = None
  <2>1. Receiving => result = None
    BY DEF SessionInv, PhaseOK, Receiving
  <2>2. dec # None /\ Receiving => ~dec.ready
    BY DEF SessionInv, PhaseOK
  <2>3. ~NewDecoder(f.id).ready
    BY <1>3, EmptyDecoder
  <2> QED
    BY <1>1, <2>1, <2>2, <2>3
<1>7. wait # "none" => d.ready /\ Verified(d)
  BY <1>1, <1>2, <1>5 DEF Receiving, Verified
<1>8. d.ready \in BOOLEAN /\ Verified(d) \in BOOLEAN /\ (Verified(d) => d.ready)
  BY <1>2 DEF Decoder, Verified
<1>9. Receiving /\ f.name => ~d.ready
  BY <1>2, <1>6
<1> HIDE DEF D
<1>10. PhaseOK'
  <2>1. CASE Receiving
    BY <1>2, <1>3, <1>4, <1>6, <1>8, <1>9, <2>1 DEF PhaseOK, Receiving, TxqrOutcome
  <2>2. CASE wait # "none"
    <3>1. result' = d.id /\ ~failed' /\ fileName' = d.name /\ dec' = d
      <4>1. result = d.id
        BY <1>1, <1>2, <1>5, <2>2 DEF Receiving
      <4>2. result' = d.id
        BY <4>1 DEF TxqrOutcome
      <4> QED
        BY <1>4, <1>7, <1>8, <2>2, <4>2
    <3>2. (completed' \/ wait' # "none") /\ ~(completed' /\ wait' # "none")
      BY <2>2 DEF TxqrOutcome
    <3> QED
      BY <1>2, <1>3, <1>7, <2>2, <3>1, <3>2 DEF PhaseOK, Receiving
  <2> QED
    BY <1>5, <2>1, <2>2
<1>11. /\ (IF Foreign(f) THEN 0 ELSE bytes) = Cardinality(Counted(f))
       /\ Counted(f) \subseteq CodesOf(d) /\ IsFiniteSet(Counted(f))
  <2>1. CodesOf(D) \subseteq CodesOf(d)
    BY <1>2, <1>3 DEF CodesOf
  <2> QED
    BY <2>1, CountedBefore DEF D
<1>12. CountOK'
  <2> DEFINE fresh == ~f.name /\ f.code \notin Counted(f) /\ wait = "none" /\ f.code \in CodesOf(d)
             before == IF Foreign(f) THEN 0 ELSE bytes
  <2>1. /\ seen' = IF fresh /\ ~failed' THEN Counted(f) \union {f.code} ELSE Counted(f)
        /\ bytes' = IF fresh /\ ~failed' THEN before + 1 ELSE before
    BY DEF TxqrOutcome
  <2>2. before = Cardinality(Counted(f))
    BY <1>11
  <2> HIDE DEF before
  <2>3. CASE fresh /\ ~failed'
    <3>1. seen' = Counted(f) \union {f.code} /\ f.code \notin Counted(f) /\ f.code \in CodesOf(d)
      BY <2>1, <2>3
    <3>2. IsFiniteSet(seen') /\ Cardinality(seen') = Cardinality(Counted(f)) + 1
      BY <1>11, <3>1, FS_AddElement
    <3> QED
      BY <1>3, <1>4, <1>11, <2>1, <2>2, <2>3, <3>1, <3>2 DEF CountOK
  <2>4. CASE ~(fresh /\ ~failed')
    BY <1>3, <1>4, <1>11, <2>1, <2>2, <2>4 DEF CountOK
  <2> QED
    BY <2>3, <2>4
<1>13. TypeOK'
  <2>1. d.name \in Id \union {None} /\ d \in Decoder
    BY <1>2 DEF Decoder
  <2>2. candidate' \in Id \union {None} /\ mismatch' \in 0 .. SwitchAfter
    BY <1>3, SessionAssumption
  <2>3. seen' \subseteq Code /\ bytes' \in Nat
    <3>1. seen \subseteq Code /\ bytes \in Nat
      BY DEF SessionInv, TypeOK
    <3>2. Counted(f) \subseteq Code
      BY <3>1 DEF Counted
    <3> QED
      BY <1>3, <3>1, <3>2 DEF TxqrOutcome
  <2>4. completed' \in BOOLEAN /\ wait' \in {"none", "running", "over"} /\ result' \in Id \union {None}
    BY <1>2, <1>3 DEF TxqrOutcome, SessionInv, TypeOK
  <2> QED
    BY <1>4, <1>8, <2>1, <2>2, <2>3, <2>4 DEF TypeOK
<1>14. DecoderOK'
  BY <1>2, <1>3, <1>4 DEF DecoderOK
<1>15. RunOK'
  <2>1. run' = NoRun
    BY <1>2, <1>4 DEF Observe
  <2> QED
    BY <2>1 DEF RunOK
<1>16. Due
  <2>1. CASE Receiving
    BY <1>2, <1>4, <2>1, SwitchIsDue DEF TxqrSwitches
  <2>2. CASE wait # "none"
    BY <1>2, <1>4, <1>5, <2>2 DEF Due, Foreign, Receiving
  <2> QED
    BY <1>5, <2>1, <2>2
<1>17. Promised
  <2>1. phase = IF wait # "none" THEN "nameWait" ELSE "receiving"
    BY PhaseIs DEF SessionInv
  <2>2. phase' = IF completed' THEN "completed" ELSE IF failed' THEN "failed"
                 ELSE IF wait' # "none" THEN "nameWait" ELSE "receiving"
    BY <1>10, <1>13, PhaseIsNext
  <2>3. CASE Receiving
    <3>1. wait = "none" /\ ~completed /\ phase = "receiving"
      BY <2>1, <2>3 DEF Receiving
    <3>2. phase' \in {"nameWait", "completed"} => result' \in Id \ Corrupt
      BY <1>2, <1>3, <2>2, <3>1 DEF TxqrOutcome, Verified
    <3>3. phase' \in {"receiving", "failed"} => result' = result
      BY <1>4, <1>8, <2>2, <3>1 DEF TxqrOutcome
    <3>4. phase' \in {"nameWait", "completed", "receiving", "failed"}
      BY <2>2
    <3> QED
      BY <3>1, <3>2, <3>3, <3>4 DEF Promised, Contract!Next, Contract!Feed, Contract!AfterFrame, Contract!Phase
  <2>4. CASE wait # "none"
    <3>1. result' = result /\ phase' \in {"nameWait", "completed"}
      BY <1>2, <1>4, <1>5, <1>7, <2>2, <2>4 DEF TxqrOutcome, Receiving
    <3> QED
      BY <2>1, <2>4, <3>1 DEF Promised, Contract!Next, Contract!Feed, Contract!AfterFrame
  <2> QED
    BY <1>5, <2>3, <2>4
<1> QED
  BY <1>10, <1>12, <1>13, <1>14, <1>15, <1>16, <1>17 DEF SessionInv

(* feedDecimenLocked gives a frame to a decoder.                           *)
LEMMA DecimenTaken ==
  ASSUME SessionInv, NEW f \in Frame, f.id \in DecimenId, ~completed, ~failed, mode # "txqr",
         Foreign(f) => Mismatches(f) >= SwitchAfter,
         mode' = "decimen", mismatch' = IF Foreign(f) THEN Mismatches(f) ELSE 0,
         candidate' = IF Foreign(f) THEN f.id ELSE candidate,
         NEW d \in Added(DecoderFor(f), f), dec' = d,
         bytes' = (IF Foreign(f) THEN 0 ELSE bytes) + (IF d # DecoderFor(f) THEN 1 ELSE 0),
         failed' = (d.ready /\ ~Verified(d)), completed' = Verified(d),
         result' = IF Verified(d) THEN d.id ELSE None,
         fileName' = IF Verified(d) THEN d.id ELSE fileName,
         UNCHANGED <<seen, wait>>, Observe(f)
  PROVE  SessionInv' /\ Due /\ Promised
<1> DEFINE D == DecoderFor(f)
<1>1. D \in Decoder /\ Own(D) /\ D.id = f.id /\ (dec = None \/ Foreign(f) => D = NewDecoder(f.id))
      /\ (dec # None /\ ~Foreign(f) => D = dec /\ dec.id = f.id)
  BY DecoderChosen
<1>2. f.id \in Id /\ ~f.name /\ f.code \in Code /\ Protocol(f.id) = "decimen" /\ f.id # None
  BY Frames, SessionAssumption DEF Id, Protocol
<1>3. wait = "none" /\ Receiving
  BY DEF SessionInv, PhaseOK, Receiving, TypeOK, DecoderOK
<1>4. /\ d \in Decoder /\ d.id = f.id /\ Own(d) /\ Cardinality(D.eqs) \in Nat
      /\ d = D \/ (d # D /\ Cardinality(d.eqs) = Cardinality(D.eqs) + 1)
  BY <1>1, <1>2, EquationAdded
<1>5. d # None
  BY <1>4, SessionAssumption
<1>6. d.ready \in BOOLEAN /\ Verified(d) \in BOOLEAN /\ (Verified(d) => d.ready)
  BY <1>4 DEF Decoder, Verified
<1>7. (IF Foreign(f) THEN 0 ELSE bytes) = Cardinality(D.eqs)
  <2>1. Cardinality(NewDecoder(f.id).eqs) = 0
    BY <1>2, EmptyDecoder
  <2> QED
    BY <1>1, <2>1 DEF Foreign, SessionInv, CountOK
<1>8. fileName = None /\ result = None
  <2>1. mode \in {"", "decimen"} /\ (mode = "" <=> dec = None)
    BY DEF SessionInv, TypeOK, DecoderOK
  <2> QED
    BY <1>3, <2>1 DEF SessionInv, PhaseOK, Receiving
<1>9. Mismatches(f) \in Nat /\ (Foreign(f) => Mismatches(f) <= SwitchAfter)
  <2>1. mismatch \in Nat /\ SwitchAfter \in Nat /\ SwitchAfter > 1
    BY Numbers DEF SessionInv
  <2>2. Foreign(f) /\ candidate = f.id => mismatch < SwitchAfter
    BY <1>3, <2>1 DEF SessionInv, RunOK, Foreign
  <2> QED
    BY <2>1, <2>2 DEF Mismatches
<1> HIDE DEF D
<1>10. PhaseOK'
  <2>1. ~(completed' /\ failed') /\ wait' = "none" /\ (result' # None <=> completed')
    BY <1>2, <1>3, <1>4, <1>6
  <2>2. (d.ready <=> completed' \/ failed') /\ dec' # None
    BY <1>5, <1>6
  <2>3. result' # None => Verified(dec') /\ result' = dec'.id
    BY <1>4
  <2>4. fileName' = IF completed' THEN dec'.id ELSE None
    BY <1>8
  <2> QED
    BY <2>1, <2>2, <2>3, <2>4 DEF PhaseOK, Receiving, Verified
<1>11. CountOK'
  <2>1. IsFiniteSet(seen')
    BY DEF SessionInv, CountOK
  <2> QED
    BY <1>4, <1>5, <1>7, <2>1 DEF CountOK, D
<1>12. TypeOK'
  <2>1. bytes' \in Nat
    <3> DEFINE before == IF Foreign(f) THEN 0 ELSE bytes
               more == IF d # DecoderFor(f) THEN 1 ELSE 0
    <3>1. before \in Nat /\ more \in Nat
      BY <1>4, <1>7
    <3>2. bytes' = before + more
      OBVIOUS
    <3> HIDE DEF before, more
    <3>3. before + more \in Nat
      BY <3>1
    <3> QED
      BY <3>2, <3>3, Zenon
  <2>2. mismatch' \in 0 .. SwitchAfter
    <3>1. SwitchAfter \in Nat
      BY SessionAssumption
    <3>2. CASE Foreign(f)
      BY <1>9, <3>1, <3>2
    <3>3. CASE ~Foreign(f)
      BY <3>1, <3>3
    <3> QED
      BY <3>2, <3>3
  <2>3. candidate' \in Id \union {None}
    <3>1. candidate \in Id \union {None}
      BY Numbers DEF SessionInv
    <3> QED
      BY <1>2, <3>1
  <2>4. failed' \in BOOLEAN /\ completed' \in BOOLEAN
    BY <1>6
  <2>5. fileName' \in Id \union {None} /\ result' \in Id \union {None}
    BY <1>2, <1>4, <1>8
  <2>6. seen' \subseteq Code /\ wait' \in {"none", "running", "over"}
    BY DEF SessionInv, TypeOK
  <2>7. dec' \in Decoder \union {None} /\ mode' \in {"", "txqr", "decimen"}
    BY <1>4
  <2> QED
    BY <2>1, <2>2, <2>3, <2>4, <2>5, <2>6, <2>7 DEF TypeOK
<1>13. DecoderOK'
  BY <1>2, <1>4, <1>5 DEF DecoderOK
<1>14. RunOK'
  <2>1. run' = NoRun
    BY <1>4 DEF Observe
  <2>2. mismatch' = 0 \/ candidate' = dec'.id
    BY <1>4
  <2> QED
    BY <1>5, <2>1, <2>2 DEF RunOK
<1>15. Due
  BY <1>3, <1>4, SwitchIsDue
<1>16. Promised
  <2>1. phase = "receiving"
    BY <1>3, PhaseIs DEF SessionInv, Receiving
  <2>2. phase' = IF completed' THEN "completed" ELSE IF failed' THEN "failed" ELSE "receiving"
    BY <1>3, <1>10, <1>12, PhaseIsNext
  <2>3. phase' = "completed" => result' \in Id \ Corrupt
    BY <1>2, <1>4, <2>2 DEF Verified
  <2>4. phase' # "completed" => result' = result
    BY <1>6, <1>8, <2>2
  <2>5. phase' \in {"completed", "failed", "receiving"}
    BY <2>2
  <2> QED
    BY <2>1, <2>3, <2>4, <2>5 DEF Promised, Contract!Next, Contract!Feed, Contract!AfterFrame, Contract!Phase
<1> QED
  BY <1>10, <1>11, <1>12, <1>13, <1>14, <1>15, <1>16 DEF SessionInv

-----------------------------------------------------------------------------
(* Frames that are not taken, timers, and reset.                           *)

(* A foreign frame counts, and is dropped.                                 *)
LEMMA Counted1 ==
  ASSUME SessionInv, NEW f \in Frame, Foreign(f), ~completed, ~failed, wait = "none",
         Mismatches(f) < SwitchAfter, Patience(f), Protocol(f.id) = mode, Observe(f)
  PROVE  SessionInv' /\ Due /\ Promised
<1>1. f.id \in Id /\ f.id # None /\ dec # None /\ dec.id # f.id /\ mismatch \in Nat
  BY Frames, Numbers, SessionAssumption DEF Foreign, SessionInv
<1>2. Mismatches(f) \in 1 .. SwitchAfter - 1
  BY <1>1, SessionAssumption DEF Mismatches
<1>3. TypeOK'
  <2>1. Mismatches(f) \in 0 .. SwitchAfter
    BY <1>2, SessionAssumption
  <2>2. mismatch' \in 0 .. SwitchAfter /\ candidate' \in Id \union {None}
    BY <1>1, <2>1 DEF Patience
  <2> QED
    BY <2>2 DEF Patience, SessionInv, TypeOK
<1>4. DecoderOK' /\ CountOK' /\ PhaseOK' /\ Due /\ Promised
  BY DEF Patience, SessionInv, DecoderOK, CountOK, PhaseOK, Receiving, Due, Promised, phase
<1>5. run' = Longer(run, f)
  BY <1>1 DEF Observe, Patience
<1>6. run' = [id |-> f.id, n |-> Mismatches(f)]
  <2>1. Receiving
    BY DEF Receiving
  <2>2. CASE run = NoRun /\ (mismatch = 0 \/ candidate = dec.id)
    BY <1>1, <1>5, <2>2 DEF Longer, NoRun, Mismatches
  <2>3. CASE run = [id |-> candidate, n |-> mismatch] /\ mismatch < SwitchAfter
    BY <1>1, <1>5, <2>3 DEF Longer, Mismatches
  <2> QED
    BY <2>1, <2>2, <2>3, SessionAssumption DEF SessionInv, RunOK
<1>7. RunOK'
  BY <1>1, <1>2, <1>6 DEF RunOK, Patience
<1> QED
  BY <1>3, <1>4, <1>7 DEF SessionInv

(* A frame of the other protocol, and a foreign one while a name is waited *)
(* for, change nothing.                                                    *)
LEMMA Ignored ==
  ASSUME SessionInv, NEW f \in Frame, UNCHANGED session, Foreign(f),
         wait # "none" \/ Protocol(f.id) # mode, Observe(f)
  PROVE  SessionInv' /\ Due /\ Promised
<1>1. TypeOK' /\ DecoderOK' /\ CountOK' /\ PhaseOK' /\ Due /\ Promised
  BY DEF session, SessionInv, TypeOK, DecoderOK, CountOK, PhaseOK, Receiving, Due, Promised, phase
<1>2. wait = "none" => run' = run
  BY DEF Observe, session, Foreign
<1>3. RunOK'
  BY <1>2 DEF RunOK, Receiving, session, SessionInv
<1> QED
  BY <1>1, <1>3 DEF SessionInv

(* feedPayload.                                                            *)
LEMMA Fed ==
  ASSUME SessionInv, NEW f \in Frame, FeedPayload(f)
  PROVE  SessionInv' /\ Due /\ Promised
<1>1. ~completed /\ ~failed /\ Observe(f)
  BY DEF FeedPayload
<1>2. dec # None => mode \in {"txqr", "decimen"} /\ mode = Protocol(dec.id)
  BY DEF SessionInv, DecoderOK, TypeOK
<1>3. CASE f.id \in TxqrId /\ FeedTxqr(f)
  <2>1. Protocol(f.id) = "txqr" /\ (Foreign(f) => Protocol(f.id) = mode)
    BY <1>2, <1>3 DEF Protocol, FeedTxqr, Foreign
  <2>2. CASE Foreign(f) /\ Held /\ UNCHANGED session
    BY <1>1, <2>2, Ignored DEF Held
  <2>3. CASE Foreign(f) /\ ~Held /\ ~TxqrSwitches(f) /\ Patience(f)
    <3>1. Mismatches(f) < SwitchAfter
      <4>1. Mismatches(f) \in Nat /\ SwitchAfter \in Nat
        BY Numbers DEF Mismatches, SessionInv
      <4> QED
        BY <2>3, <4>1 DEF TxqrSwitches
    <3> QED
      BY <1>1, <2>1, <2>3, <3>1, Counted1 DEF Held
  <2>4. CASE /\ Foreign(f) => ~Held /\ TxqrSwitches(f)
             /\ mode' = "txqr" /\ mismatch' = 0
             /\ candidate' = IF Foreign(f) THEN f.id ELSE None
             /\ \/ \E d \in Decoded(DecoderFor(f), f) : TxqrOutcome(f, d)
                \/ SolveFails(f)
    BY <1>1, <1>3, <2>4, TxqrTaken, TxqrStumbled DEF FeedTxqr
  <2> QED
    BY <1>3, <2>2, <2>3, <2>4 DEF FeedTxqr
<1>4. CASE f.id \in DecimenId /\ FeedDecimen(f)
  <2>1. Protocol(f.id) = "decimen" /\ (Foreign(f) => Protocol(f.id) = mode)
    BY <1>2, <1>4, SessionAssumption DEF Protocol, FeedDecimen, Foreign
  <2>2. CASE Foreign(f) /\ Mismatches(f) < SwitchAfter /\ Patience(f)
    <3>1. wait = "none"
      BY <1>4 DEF FeedDecimen, SessionInv, PhaseOK
    <3> QED
      BY <1>1, <2>1, <2>2, <3>1, Counted1
  <2>3. CASE ~(Foreign(f) /\ Mismatches(f) < SwitchAfter /\ Patience(f))
    BY <1>1, <1>4, <2>3, DecimenTaken DEF FeedDecimen
  <2> QED
    BY <2>2, <2>3
<1>5. CASE IgnoreProtocol(f)
  <2>1. Foreign(f) /\ Protocol(f.id) # mode
    BY <1>2, <1>5 DEF IgnoreProtocol, Foreign, SessionInv, DecoderOK
  <2> QED
    BY <1>1, <1>5, <2>1, Ignored DEF IgnoreProtocol
<1> QED
  BY <1>3, <1>4, <1>5 DEF FeedPayload

(* The end of a name wait.                                                 *)
LEMMA Timed ==
  ASSUME SessionInv, DeadlinePasses \/ FinishNameWait
  PROVE  SessionInv' /\ Due /\ Promised
<1>1. SessionInv' /\ Due
  <2>1. wait # "none" /\ ~completed /\ ~failed /\ ~Receiving /\ dec # None
    BY DEF DeadlinePasses, FinishNameWait, SessionInv, PhaseOK, Receiving
  <2>2. UNCHANGED <<mode, dec, candidate, mismatch, seen, bytes, failed, fileName, result, run, cross>>
    BY DEF DeadlinePasses, FinishNameWait
  <2>3. \/ wait' = "over" /\ completed' = completed
        \/ wait' = "none" /\ completed' = TRUE
    BY DEF DeadlinePasses, FinishNameWait
  <2>4. ~Receiving'
    BY <2>3 DEF Receiving
  <2>5. TypeOK'
    BY <2>2, <2>3 DEF SessionInv, TypeOK
  <2>6. DecoderOK' /\ CountOK' /\ Due
    BY <2>2 DEF SessionInv, DecoderOK, CountOK, Due
  <2>7. PhaseOK'
    <3>1. result # None /\ Verified(dec) /\ result = dec.id /\ dec.ready /\ fileName = dec.name /\ mode = "txqr"
      BY <2>1 DEF SessionInv, PhaseOK
    <3> QED
      BY <2>1, <2>2, <2>3, <2>4, <3>1 DEF PhaseOK
  <2> QED
    BY <2>4, <2>5, <2>6, <2>7 DEF SessionInv, RunOK
<1>2. Promised
  <2>1. CASE DeadlinePasses
    BY <2>1 DEF DeadlinePasses, Promised, phase
  <2>2. CASE FinishNameWait
    <3>1. phase = "nameWait" /\ phase' = "completed" /\ result' = result
      BY <1>1, <2>2, PhaseIs, PhaseIsNext DEF FinishNameWait, SessionInv
    <3> QED
      BY <3>1 DEF Promised, Contract!Next, Contract!NameMissing
  <2> QED
    BY <2>1, <2>2
<1> QED
  BY <1>1, <1>2

(* reset.                                                                  *)
LEMMA WasReset ==
  ASSUME SessionInv, Reset
  PROVE  SessionInv' /\ Due /\ Promised
<1>1. SessionInv' /\ Due
  <2>1. TypeOK'
    <3>1. 0 \in 0 .. SwitchAfter
      BY SessionAssumption
    <3>2. mismatch' \in 0 .. SwitchAfter
      BY <3>1, Zenon DEF Reset
    <3> QED
      BY <3>2 DEF Reset, TypeOK
  <2>2. DecoderOK' /\ CountOK' /\ Due
    BY FS_EmptySet DEF Reset, DecoderOK, CountOK, Due
  <2>3. PhaseOK' /\ RunOK'
    BY DEF Reset, PhaseOK, RunOK, Receiving
  <2> QED
    BY <2>1, <2>2, <2>3 DEF SessionInv
<1>2. phase \in {"failed", "completed"} /\ phase' = "receiving" /\ result' = None
  BY <1>1, PhaseIs, PhaseIsNext DEF Reset, SessionInv
<1> QED
  BY <1>1, <1>2 DEF Promised, Contract!Next, Contract!Reset

(* Every step.                                                             *)
LEMMA SessionStep ==
  ASSUME SessionInv, [Next]_vars
  PROVE  SessionInv' /\ Due /\ Promised
<1>1. CASE UNCHANGED vars
  BY <1>1 DEF vars, session, SessionInv, TypeOK, DecoderOK, CountOK, PhaseOK, RunOK, Receiving, Due, Promised, phase
<1> QED
  BY <1>1, Fed, Timed, WasReset DEF Next

-----------------------------------------------------------------------------
(* The initial state.                                                      *)
LEMMA InitSession == Init => SessionInv /\ Contract!Init
<1> SUFFICES ASSUME Init PROVE SessionInv /\ Contract!Init
  OBVIOUS
<1>1. TypeOK
  <2>1. 0 \in 0 .. SwitchAfter
    BY SessionAssumption
  <2>2. mismatch \in 0 .. SwitchAfter
    BY <2>1, Zenon DEF Init
  <2> QED
    BY <2>2 DEF Init, TypeOK
<1>2. DecoderOK /\ CountOK
  BY FS_EmptySet DEF Init, DecoderOK, CountOK
<1>3. PhaseOK /\ RunOK
  BY DEF Init, PhaseOK, RunOK, Receiving
<1>4. Contract!Init
  <2>1. phase = "receiving"
    BY <1>1, <1>3, PhaseIs DEF Init
  <2> QED
    BY <2>1 DEF Init, Contract!Init
<1> QED
  BY <1>1, <1>2, <1>3, <1>4 DEF SessionInv

(* SessionInv is an inductive invariant of a receive session.              *)
THEOREM SessionInvariant == Spec => []SessionInv
<1> QED
  BY InitSession, SessionStep, PTL DEF Spec

(* A session never mixes equations or names of two transfers, and counts   *)
(* no equation twice (feedTxqrLocked, feedDecimenLocked).                 *)
THEOREM NeverMixed == Spec => []OneTransferOnly
<1>1. SessionInv => OneTransferOnly
  BY DEF SessionInv, DecoderOK, CountOK, Own, OneTransferOnly
<1> QED
  BY <1>1, SessionInvariant, PTL

(* Verified content never gets the name of another transfer.               *)
THEOREM NamedRight == Spec => []NameOfContent
<1>1. SessionInv => NameOfContent
  BY DEF SessionInv, TypeOK, DecoderOK, PhaseOK, Own, NameOfContent
<1> QED
  BY <1>1, SessionInvariant, PTL

(* sessionSwitchAfter foreign frames in a row are never survived.          *)
THEOREM SwitchedInTime == Spec => []SwitchInTime
<1>1. SessionInv => SwitchInTime
  BY SessionAssumption DEF SessionInv, RunOK, NoRun, SwitchInTime
<1> QED
  BY <1>1, SessionInvariant, PTL

(* And no transfer is given up for fewer.                                  *)
THEOREM SwitchedForCause == Spec => SwitchDeserved
<1>1. SessionInv /\ [Next]_vars
        => [dec # None /\ dec' # None /\ dec'.id # dec.id
              => run = [id |-> dec'.id, n |-> SwitchAfter - 1] /\ Receiving]_vars
  BY SessionStep DEF Due
<1> QED
  BY <1>1, SessionInvariant, PTL DEF Spec, SwitchDeserved

(* decodeState does what scanner.go relies on: TransferSession implements  *)
(* SessionContract.                                                        *)
THEOREM ImplementsContract == Spec => HonoursContract
<1>1. SessionInv /\ [Next]_vars => [Contract!Next]_<<phase, result>>
  BY SessionStep DEF Promised
<1> QED
  BY <1>1, InitSession, SessionInvariant, PTL DEF Spec, HonoursContract, Contract!Spec
=============================================================================
