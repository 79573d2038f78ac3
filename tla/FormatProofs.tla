---------------------------- MODULE FormatProofs ----------------------------
(***************************************************************************)
(* What is on the wire, for every value of the constants: the peeling      *)
(* decoder, QRT2 frames, the journey of a file in a decimen container, and *)
(* colour pictures.  The four share no state.                              *)
(***************************************************************************)
EXTENDS PeelingDecoder, ClassicFrames, Carousel, ColourMatrix,
        TLAPS, FiniteSetTheorems, SequenceTheorems, WellFoundedInduction

-----------------------------------------------------------------------------
(* Whole numbers.                                                           *)

(* What a quotient is.                                                      *)
LEMMA Quotient ==
  ASSUME NEW a \in Int, NEW b \in Nat \ {0}
  PROVE  a \div b \in Int /\ b * (a \div b) <= a /\ a < b * (a \div b) + b
OBVIOUS

(* And what a remainder is.                                                 *)
LEMMA Remainder ==
  ASSUME NEW a \in Nat, NEW b \in Nat \ {0}
  PROVE  a % b = a - b * (a \div b) /\ a % b \in 0 .. b - 1
OBVIOUS

-----------------------------------------------------------------------------
(* The peeling decoder.  PeelInv is inductive for every finite set of       *)
(* blocks, every set of sequence numbers and every composition, and from it *)
(* follow the three properties a file depends on.                           *)

(* The number of blocks is a number, and so is the number of solved ones.  *)
LEMMA Counts ==
  /\ K \in Nat
  /\ IsFiniteSet(Solved) /\ Cardinality(Solved) \in 0 .. K
  /\ Cardinality(Solved) = K => Solved = Block
<1>1. Solved \in SUBSET Block
  BY DEF Solved
<1>2. IsFiniteSet(Block) /\ K \in Nat
  BY BlocksAssumption, FS_CardinalityType DEF K
<1>3. IsFiniteSet(Solved) /\ Cardinality(Solved) <= K
      /\ (Cardinality(Solved) = K => Solved = Block)
  BY <1>1, <1>2, FS_Subset DEF K
<1>4. Cardinality(Solved) \in Nat
  BY <1>3, FS_CardinalityType
<1> QED
  BY <1>2, <1>3, <1>4

(* XORing the solved blocks out of a new frame leaves the XOR of the       *)
(* unsolved ones, as long as the solved blocks are right.                  *)
LEMMA ReducedIsUnsolved ==
  ASSUME TypeOK, SolvedOK, NEW s \in SeqNo
  PROVE  Reduced(s) = Unsolved(s)
<1> DEFINE Known == Composition[s] \intersect Solved
           Hits(e) == {b \in Known : e \in buf[solved[b]]}
<1>1. Composition[s] \subseteq Block
  BY CompositionAssumption
<1>2. ASSUME NEW e \in Block
      PROVE  Odd(Hits(e)) <=> e \in Known
  <2>1. \A b \in Known : buf[solved[b]] = {b}
    BY DEF SolvedOK
  <2>2. CASE e \in Known
    <3>1. Hits(e) = {e}
      BY <2>1, <2>2
    <3>2. Cardinality(Hits(e)) = 1
      BY <3>1, FS_Singleton
    <3> QED
      BY <2>2, <3>2 DEF Odd
  <2>3. CASE e \notin Known
    <3>1. Hits(e) = {}
      BY <2>1, <2>3
    <3>2. Cardinality(Hits(e)) = 0
      BY <3>1, FS_EmptySet
    <3> QED
      BY <2>3, <3>2 DEF Odd
  <2> QED
    BY <2>2, <2>3
<1>3. Reduced(s) = {e \in Block : e \in Composition[s] <=> ~Odd(Hits(e))}
  BY DEF Reduced
<1> HIDE DEF Hits
<1>4. \A e \in Block : e \in Reduced(s) <=> (e \in Composition[s] <=> ~Odd(Hits(e)))
  BY <1>3
<1>5. \A e \in Block : e \in Reduced(s) <=> e \in Unsolved(s)
  BY <1>2, <1>4 DEF Unsolved
<1> QED
  BY <1>1, <1>3, <1>5 DEF Unsolved

(* A new decoder holds nothing, and every count is right.                  *)
LEMMA InitInv == Init => PeelInv
<1> SUFFICES ASSUME Init PROVE PeelInv
  OBVIOUS
<1>1. Solved = {}
  BY DEF Init, Solved
<1>2. Cardinality(Solved) = 0
  BY <1>1, FS_EmptySet
<1>3. TypeOK
  BY Counts DEF Init, TypeOK
<1>4. Pending = {}
  BY DEF Init, Pending
<1> QED
  BY <1>1, <1>2, <1>3, <1>4
  DEF Init, PeelInv, CountOK, PendingOK, QueueOK, SolvedOK, SeenOK

-----------------------------------------------------------------------------
(* AddFrame.                                                               *)

(* A frame of solved blocks only changes nothing but its own slice.        *)
LEMMA AddRedundantInv ==
  ASSUME PeelInv, NEW s \in SeqNo, AddRedundant(s)
  PROVE  PeelInv'
<1> USE DEF PeelInv, AddRedundant, Accepts
<1>1. Solved' = Solved /\ Pending' = Pending
  BY DEF Solved, Pending
<1>2. \A t \in SeqNo : Unsolved(t)' = Unsolved(t)
  BY <1>1 DEF Unsolved
<1>3. TypeOK'
  BY DEF TypeOK
<1>4. CountOK' /\ QueueOK' /\ SolvedOK'
  BY <1>1 DEF CountOK, QueueOK, SolvedOK
<1>5. PendingOK'
  BY <1>1, <1>2 DEF PendingOK, TypeOK, Pending
<1>6. SeenOK'
  BY <1>1, <1>2 DEF SeenOK, TypeOK
<1> QED
  BY <1>3, <1>4, <1>5, <1>6

(* A frame with one unsolved block solves it and starts the queue.         *)
LEMMA AddSolvingInv ==
  ASSUME PeelInv, NEW s \in SeqNo, AddSolving(s)
  PROVE  PeelInv'
<1> USE DEF PeelInv, AddSolving, Accepts
<1>1. PICK b \in Block : Unsolved(s) = {b} /\ queue' = {<<b, s>>}
  OBVIOUS
<1>2. Solved' = Solved /\ Pending' = Pending /\ s \notin Pending
  BY DEF Solved, Pending, PendingOK
<1>3. \A t \in SeqNo : Unsolved(t)' = Unsolved(t)
  BY <1>2 DEF Unsolved
<1>4. buf'[s] = {b} /\ \A t \in SeqNo \ {s} : buf'[t] = buf[t]
  BY <1>1, ReducedIsUnsolved DEF TypeOK
<1>5. TypeOK'
  BY <1>1, <1>4 DEF TypeOK, Reduced
<1>6. CountOK' /\ QueueOK'
  BY <1>1, <1>2, <1>4 DEF CountOK, QueueOK
<1>7. SolvedOK'
  <2>1. \A c \in Solved : solved[c] \in SeqNo \ {s}
    BY DEF SolvedOK, TypeOK, Solved
  <2> QED
    BY <1>2, <1>4, <2>1 DEF SolvedOK
<1>8. PendingOK'
  BY <1>2, <1>3, <1>4 DEF PendingOK, TypeOK, Pending
<1>9. SeenOK'
  BY <1>1, <1>2, <1>3 DEF SeenOK, TypeOK
<1> QED
  BY <1>5, <1>6, <1>7, <1>8, <1>9

(* Any other frame waits on the lists of its unsolved blocks.              *)
LEMMA AddPendingInv ==
  ASSUME PeelInv, NEW s \in SeqNo, AddPending(s)
  PROVE  PeelInv'
<1> USE DEF PeelInv, AddPending, Accepts
<1>1. Solved' = Solved /\ s \notin Pending
  BY DEF Solved, PendingOK
<1>2. Unsolved(s) \subseteq Block
  BY CompositionAssumption DEF Unsolved
<1>3. Pending' = Pending \union {s}
  <2>1. \A p \in SeqNo, b \in Block : p # s => (p \in byBlock'[b] <=> p \in byBlock[b])
    BY DEF TypeOK
  <2>2. \E b \in Block : s \in byBlock'[b]
    BY <1>2
  <2> QED
    BY <1>1, <2>1, <2>2 DEF Pending
<1>4. \A t \in SeqNo : Unsolved(t)' = Unsolved(t)
  BY <1>1 DEF Unsolved
<1>5. buf'[s] = Unsolved(s) /\ \A t \in SeqNo \ {s} : buf'[t] = buf[t]
  BY ReducedIsUnsolved DEF TypeOK
<1>6. TypeOK'
  <2>1. buf' \in [SeqNo -> SUBSET Block] /\ idx' \in [SeqNo -> SUBSET Block]
    BY <1>2, <1>5 DEF TypeOK
  <2>2. byBlock' \in [Block -> SUBSET SeqNo]
    BY DEF TypeOK
  <2> QED
    BY <2>1, <2>2 DEF TypeOK
<1>7. CountOK' /\ QueueOK'
  BY <1>1 DEF CountOK, QueueOK
<1>8. SolvedOK'
  <2>1. \A c \in Solved : solved[c] \in SeqNo \ {s}
    BY DEF SolvedOK, TypeOK, Solved
  <2> QED
    BY <1>1, <1>3, <1>5, <2>1 DEF SolvedOK
<1>9. PendingOK'
  <2> SUFFICES ASSUME NEW p \in Pending'
               PROVE  /\ p \in seen'
                      /\ idx'[p] = Unsolved(p)' /\ buf'[p] = idx'[p]
                      /\ \A b \in Block : p \in byBlock'[b] <=> b \in idx'[p]
                      /\ \A b \in Block : idx'[p] # {b}
    BY DEF PendingOK
  <2>1. CASE p = s
    <3>1. idx'[s] = Unsolved(s)
      BY DEF TypeOK
    <3>2. \A b \in Block : s \notin byBlock[b]
      BY <1>1 DEF Pending
    <3> QED
      BY <2>1, <1>4, <1>5, <3>1, <3>2
  <2>2. CASE p # s
    <3>1. p \in Pending /\ p \in SeqNo
      BY <2>2, <1>3 DEF Pending
    <3>2. idx'[p] = idx[p] /\ \A b \in Block : p \in byBlock'[b] <=> p \in byBlock[b]
      BY <2>2, <3>1 DEF TypeOK
    <3> QED
      BY <2>2, <3>1, <3>2, <1>4, <1>5 DEF PendingOK
  <2> QED
    BY <2>1, <2>2
<1>10. SeenOK'
  BY <1>3, <1>4 DEF SeenOK, TypeOK
<1> QED
  BY <1>6, <1>7, <1>8, <1>9, <1>10

-----------------------------------------------------------------------------
(* resolve.                                                                *)

(* resolve drops the queue's head when its last block is already solved.   *)
LEMMA SkipInv ==
  ASSUME PeelInv, NEW b \in Block, NEW s \in SeqNo, Skip(b, s)
  PROVE  PeelInv'
<1> USE DEF PeelInv, Skip
<1>1. Solved' = Solved /\ Pending' = Pending /\ b \in Solved
  BY DEF Solved, Pending
<1>2. \A t \in SeqNo : Unsolved(t)' = Unsolved(t) /\ b \notin Unsolved(t)
  BY <1>1 DEF Unsolved
<1>3. TypeOK' /\ CountOK' /\ QueueOK' /\ SolvedOK'
  BY <1>1 DEF TypeOK, CountOK, QueueOK, SolvedOK
<1>4. PendingOK'
  BY <1>1, <1>2 DEF PendingOK, Pending
<1>5. SeenOK'
  BY <1>1, <1>2 DEF SeenOK, TypeOK
<1> QED
  BY <1>3, <1>4, <1>5

(* resolve takes the solved block out of every frame waiting for it.       *)
LEMMA PeelStepInv ==
  ASSUME PeelInv, NEW b \in Block, NEW s \in SeqNo, Peel(b, s)
  PROVE  PeelInv'
<1> USE DEF PeelInv
<1>1. /\ <<b, s>> \in queue /\ solved[b] = None
      /\ buf[s] = {b} /\ s \notin Pending /\ s \in seen
  BY DEF Peel, QueueOK
<1>2. b \notin Solved /\ Solved' = Solved \union {b}
  BY <1>1, NoneAssumption DEF Peel, Solved, TypeOK
<1>3. \A t \in SeqNo : Unsolved(t)' = Unsolved(t) \ {b}
  BY <1>2 DEF Unsolved
<1>4. ASSUME NEW p \in byBlock[b]
      PROVE  /\ p \in Pending /\ p \in SeqNo /\ b \in idx[p]
             /\ idx'[p] = idx[p] \ {b} /\ buf'[p] = idx'[p]
  <2>1. p \in Pending /\ p \in SeqNo
    BY DEF Pending, TypeOK
  <2>2. b \in idx[p] /\ buf[p] = idx[p]
    BY <2>1 DEF PendingOK
  <2>3. idx'[p] = idx[p] \ {b} /\ buf'[p] = Xor(buf[p], buf[s])
    BY <2>1 DEF Peel
  <2> QED
    BY <1>1, <2>1, <2>2, <2>3 DEF Xor
<1>5. ASSUME NEW p \in SeqNo, p \notin byBlock[b]
      PROVE  idx'[p] = idx[p] /\ buf'[p] = buf[p]
  BY <1>5 DEF Peel
<1>6. ASSUME NEW p \in SeqNo, NEW r \in Block
      PROVE  p \in byBlock'[r] <=>
               r # b /\ p \in byBlock[r] /\ (p \in byBlock[b] => idx[p] \ {b} # {r})
  BY DEF Peel, Waiting, LeftWith
<1>7. Pending' \subseteq Pending
  BY <1>6 DEF Pending
<1>8. ASSUME NEW i \in NewlyQueued(b)
      PROVE  /\ i[1] \in Block /\ i[2] \in byBlock[b]
             /\ buf'[i[2]] = {i[1]} /\ i[2] \notin Pending' /\ i[2] \in seen
  <2>1. /\ i[1] \in Block /\ i[2] \in byBlock[b] /\ i[2] \in SeqNo
        /\ idx[i[2]] \ {b} = {i[1]}
    BY DEF NewlyQueued, LeftWith
  <2>2. i[2] \in Pending /\ buf'[i[2]] = {i[1]}
    BY <2>1, <1>4
  <2>3. \A r \in Block : i[2] \notin byBlock'[r]
    <3> SUFFICES ASSUME NEW r \in Block, i[2] \in byBlock'[r]
                 PROVE  FALSE
      OBVIOUS
    <3>1. r # b /\ i[2] \in byBlock[r] /\ idx[i[2]] \ {b} # {r}
      BY <1>6, <2>1
    <3>2. r \in idx[i[2]]
      BY <2>2, <3>1 DEF PendingOK
    <3> QED
      BY <2>1, <3>1, <3>2
  <2> QED
    BY <2>1, <2>2, <2>3 DEF PendingOK, Pending
<1>9. TypeOK' /\ CountOK'
  <2>1. solvedN' = Cardinality(Solved')
    <3>1. Cardinality(Solved \union {b}) = Cardinality(Solved) + 1
      BY <1>2, Counts, FS_AddElement
    <3> QED
      BY <3>1, <1>2 DEF Peel, CountOK
  <2>2. solvedN' \in 0 .. K
    <3>1. Solved' \in SUBSET Block
      BY <1>2 DEF Solved
    <3>2. IsFiniteSet(Solved') /\ Cardinality(Solved') <= K
      BY <3>1, BlocksAssumption, FS_Subset DEF K
    <3>3. Cardinality(Solved') \in Nat /\ K \in Nat
      BY <3>2, FS_CardinalityType, Counts
    <3> QED
      BY <2>1, <3>2, <3>3
  <2>3. buf' \in [SeqNo -> SUBSET Block] /\ idx' \in [SeqNo -> SUBSET Block]
    BY DEF Peel, TypeOK, Xor
  <2>4. byBlock' \in [Block -> SUBSET SeqNo]
    BY DEF Peel, TypeOK, Waiting
  <2>5. queue' \subseteq Block \X SeqNo
    BY DEF Peel, TypeOK, NewlyQueued
  <2>6. seen' \subseteq SeqNo /\ solved' \in [Block -> SeqNo \union {None}]
    BY DEF Peel, TypeOK
  <2> QED
    BY <2>1, <2>2, <2>3, <2>4, <2>5, <2>6 DEF TypeOK, CountOK
<1>10. PendingOK'
  <2> SUFFICES ASSUME NEW p \in Pending'
               PROVE  /\ p \in seen'
                      /\ idx'[p] = Unsolved(p)' /\ buf'[p] = idx'[p]
                      /\ \A r \in Block : p \in byBlock'[r] <=> r \in idx'[p]
                      /\ \A r \in Block : idx'[p] # {r}
    BY DEF PendingOK
  <2>1. p \in Pending /\ p \in SeqNo /\ p \in seen' /\ idx[p] = Unsolved(p)
    BY <1>7 DEF Pending, PendingOK, Peel
  <2>2. buf[p] = idx[p] /\ \A r \in Block : idx[p] # {r}
    BY <2>1 DEF PendingOK
  <2>3. \A r \in Block : p \in byBlock[r] <=> r \in idx[p]
    BY <2>1 DEF PendingOK
  <2>4. CASE p \in byBlock[b]
    <3>1. idx'[p] = idx[p] \ {b} /\ buf'[p] = idx'[p]
      BY <1>4, <2>4
    <3>2. PICK r0 \in Block : p \in byBlock'[r0]
      BY DEF Pending
    <3>3. r0 \in idx'[p] /\ idx'[p] # {r0}
      BY <1>6, <2>1, <2>3, <2>4, <3>1, <3>2
    <3>4. \A r \in Block : idx'[p] # {r}
      BY <3>3
    <3>5. \A r \in Block : p \in byBlock'[r] <=> r \in idx'[p]
      BY <1>6, <2>1, <2>3, <3>1, <3>4
    <3> QED
      BY <1>3, <2>1, <3>1, <3>4, <3>5
  <2>5. CASE p \notin byBlock[b]
    <3>1. idx'[p] = idx[p] /\ buf'[p] = buf[p] /\ b \notin idx[p]
      BY <1>5, <2>1, <2>3, <2>5
    <3>2. \A r \in Block : p \in byBlock'[r] <=> r \in idx'[p]
      BY <1>6, <2>1, <2>3, <2>5, <3>1
    <3> QED
      BY <1>3, <2>1, <2>2, <3>1, <3>2
  <2> QED
    BY <2>4, <2>5
<1>11. QueueOK'
  <2> SUFFICES ASSUME NEW i \in queue'
               PROVE  buf'[i[2]] = {i[1]} /\ i[2] \notin Pending' /\ i[2] \in seen'
    BY DEF QueueOK
  <2>1. CASE i \in NewlyQueued(b)
    BY <1>8, <2>1 DEF Peel
  <2>2. CASE i \in queue
    <3>1. buf[i[2]] = {i[1]} /\ i[2] \notin Pending /\ i[2] \in seen /\ i[2] \in SeqNo
      BY <2>2 DEF QueueOK, TypeOK
    <3>2. i[2] \notin byBlock[b]
      BY <3>1 DEF Pending
    <3> QED
      BY <1>5, <1>7, <3>1, <3>2 DEF Peel
  <2> QED
    BY <2>1, <2>2 DEF Peel
<1>12. SolvedOK'
  <2> SUFFICES ASSUME NEW c \in Solved'
               PROVE  /\ buf'[solved'[c]] = {c}
                      /\ solved'[c] \notin Pending' /\ solved'[c] \in seen'
    BY DEF SolvedOK
  <2>1. CASE c = b
    <3>1. solved'[c] = s /\ s \notin byBlock[b]
      BY <1>1, <2>1 DEF Peel, TypeOK, Pending
    <3> QED
      BY <1>1, <1>5, <1>7, <2>1, <3>1 DEF Peel
  <2>2. CASE c # b
    <3>1. c \in Solved /\ solved'[c] = solved[c]
      BY <1>2, <2>2 DEF Peel, TypeOK
    <3>2. solved[c] \in SeqNo /\ solved[c] \notin byBlock[b]
      BY <3>1 DEF Solved, SolvedOK, TypeOK, Pending
    <3> QED
      BY <1>5, <1>7, <3>1, <3>2 DEF SolvedOK, Peel
  <2> QED
    BY <2>1, <2>2
<1>13. SeenOK'
  <2> SUFFICES ASSUME NEW t \in seen'
               PROVE  t \in Pending' \/ \A c \in Unsolved(t)' : <<c, t>> \in queue'
    BY DEF SeenOK
  <2>1. t \in seen /\ t \in SeqNo
    BY DEF Peel, TypeOK
  <2>2. CASE t \notin Pending
    <3>1. \A c \in Unsolved(t) : <<c, t>> \in queue
      BY <2>1, <2>2 DEF SeenOK
    <3> QED
      BY <1>3, <2>1, <3>1 DEF Peel
  <2>3. CASE t \in byBlock[b]
    <3>1. idx'[t] = idx[t] \ {b} /\ idx[t] = Unsolved(t)
          /\ \A r \in Block : t \in byBlock[r] <=> r \in idx[t]
      BY <1>4, <2>3 DEF PendingOK
    <3>2. CASE \E r \in Block : idx'[t] = {r}
      <4>1. PICK r \in Block : idx'[t] = {r}
        BY <3>2
      <4>2. t \in LeftWith(b, r) /\ r # b /\ solved[r] = None
        BY <2>3, <3>1, <4>1 DEF LeftWith, Unsolved, Solved
      <4>3. <<r, t>> \in NewlyQueued(b)
        BY <2>1, <4>2 DEF NewlyQueued
      <4> QED
        BY <1>3, <2>1, <3>1, <4>1, <4>3 DEF Peel
    <3>3. CASE \A r \in Block : idx'[t] # {r}
      <4>1. idx[t] \subseteq Block /\ b \in idx[t] /\ idx[t] # {b}
        BY <1>4, <2>1, <2>3 DEF TypeOK, PendingOK
      <4>2. PICK r \in Block : r \in idx[t] /\ r # b
        BY <4>1
      <4>3. t \in byBlock'[r]
        BY <1>6, <2>1, <3>1, <3>3, <4>2
      <4> QED
        BY <2>1, <4>3 DEF Pending
    <3> QED
      BY <3>2, <3>3
  <2>4. CASE t \in Pending /\ t \notin byBlock[b]
    <3>1. PICK r \in Block : t \in byBlock[r]
      BY <2>4 DEF Pending
    <3>2. t \in byBlock'[r]
      BY <1>6, <2>1, <2>4, <3>1
    <3> QED
      BY <2>1, <3>2 DEF Pending
  <2> QED
    BY <2>2, <2>3, <2>4
<1> QED
  BY <1>9, <1>10, <1>11, <1>12, <1>13

-----------------------------------------------------------------------------
(* Nothing changes when the decoder does nothing.                          *)
LEMMA StutterInv ==
  ASSUME PeelInv, UNCHANGED vars
  PROVE  PeelInv'
<1>1. Solved' = Solved /\ Pending' = Pending
  BY DEF vars, Solved, Pending
<1>2. \A t \in SeqNo : Unsolved(t)' = Unsolved(t)
  BY <1>1 DEF Unsolved
<1> QED
  BY <1>1, <1>2 DEF vars, PeelInv, TypeOK, CountOK, PendingOK, QueueOK, SolvedOK,
                    SeenOK, Pending

(* The bookkeeping of the peeling decoder is consistent in every reachable *)
(* state: counts, lists, queue and shared slices agree.                    *)
THEOREM Inductive == Spec => []PeelInv
<1>1. PeelInv /\ [Next]_vars => PeelInv'
  BY AddRedundantInv, AddSolvingInv, AddPendingInv, SkipInv, PeelStepInv, StutterInv
  DEF Next, Resolve
<1> QED
  BY <1>1, InitInv, PTL DEF Spec

(* A solved block always holds the sender's block, for every composition   *)
(* of the frames and every order in which they arrive.                     *)
THEOREM BlocksAreRight == Spec => []SolvedRight
<1>1. PeelInv => SolvedRight
  BY DEF PeelInv, SolvedOK, SolvedRight
<1> QED
  BY <1>1, Inductive, PTL

(* When the decoder says it is complete, every block is there and right:   *)
(* what Assemble concatenates is what the sender encoded.                  *)
THEOREM CompleteIsWhole == Spec => []CompleteHoldsAll
<1>1. PeelInv => CompleteHoldsAll
  <2> SUFFICES ASSUME PeelInv, IsComplete, NEW b \in Block
               PROVE  solved[b] # None /\ buf[solved[b]] = {b}
    BY DEF CompleteHoldsAll
  <2>1. Cardinality(Solved) = K
    BY Counts DEF PeelInv, CountOK, IsComplete
  <2>2. b \in Solved
    BY <2>1, Counts
  <2> QED
    BY <2>2 DEF PeelInv, SolvedOK, Solved
<1> QED
  BY <1>1, Inductive, PTL

(* No received frame is left unused while it could solve a block.          *)
THEOREM NothingLeftLying == Spec => []PeelingExhausted
<1>1. PeelInv => PeelingExhausted
  <2> SUFFICES ASSUME PeelInv, queue = {}, NEW s \in seen, NEW b \in Block
               PROVE  Unsolved(s) # {b}
    BY DEF PeelingExhausted
  <2>1. CASE s \in Pending
    BY <2>1 DEF PeelInv, PendingOK
  <2>2. CASE s \notin Pending
    BY <2>2 DEF PeelInv, SeenOK
  <2> QED
    BY <2>1, <2>2
<1> QED
  BY <1>1, Inductive, PTL

-----------------------------------------------------------------------------
(* As many chunks as it takes, and no more.                                 *)
LEMMA Chunks ==
  ASSUME NEW a \in Nat \ {0}, NEW b \in Nat \ {0}
  PROVE  LET k == NumberOfChunks(a, b) IN k \in Nat \ {0} /\ a <= k * b /\ k * b < a + b
<1> DEFINE k == (a + b - 1) \div b
<1>1. k \in Int /\ b * k <= a + b - 1 /\ a + b - 1 < b * k + b
  BY Quotient
<1>2. k * b = b * k
  BY <1>1
<1> HIDE DEF k
<1>3. a <= k * b /\ k * b < a + b
  BY <1>1, <1>2
<1>4. k > 0
  <2> SUFFICES ASSUME k <= 0 PROVE FALSE
    BY <1>1
  <2> DEFINE x == k * b
  <2>1. x \in Int /\ x <= 0
    BY <1>1
  <2>2. a <= x
    BY <1>3
  <2> HIDE DEF x
  <2> QED
    BY <2>1, <2>2
<1> QED
  BY <1>1, <1>3, <1>4 DEF NumberOfChunks, k

(* Chunks of one length, as few as it takes, are no longer than allowed.    *)
LEMMA ChunksFit ==
  ASSUME NEW total \in Nat \ {0}, NEW chunk \in Nat \ {0}
  PROVE  LET n == NumberOfChunks(total, NumberOfChunks(total, chunk)) IN n \in Nat \ {0} /\ n <= chunk
<1> DEFINE k == NumberOfChunks(total, chunk)
           n == NumberOfChunks(total, k)
<1>1. k \in Nat \ {0} /\ total <= k * chunk
  BY Chunks
<1> HIDE DEF k
<1>2. n \in Nat \ {0} /\ n * k < total + k
  BY <1>1, Chunks
<1> HIDE DEF n
<1>3. n <= chunk
  <2> SUFFICES ASSUME n > chunk PROVE FALSE
    BY <1>2
  <2>1. n >= chunk + 1
    BY <1>2
  <2>2. n * k >= (chunk + 1) * k
    BY <1>1, <1>2, <2>1
  <2>3. (chunk + 1) * k = k * chunk + k
    BY <1>1
  <2> QED
    BY <1>1, <1>2, <2>2, <2>3
<1> QED
  BY <1>2, <1>3 DEF k, n

(* A number has nine digits at most, and a larger one no fewer.             *)
LEMMA DigitsGrow ==
  /\ \A n \in Int : Digits(n) \in 1 .. 9
  /\ \A m, n \in Nat : m <= n => Digits(m) <= Digits(n)
<1> DEFINE Powers(n) == {e \in 1 .. 8 : n >= 10 ^ e}
<1>1. IsFiniteSet(1 .. 8) /\ Cardinality(1 .. 8) = 8
  <2>1. \A m \in Nat : IsFiniteSet(1 .. m) /\ Cardinality(1 .. m) = IF 1 > m THEN 0 ELSE m - 1 + 1
    BY FS_Interval
  <2>2. IsFiniteSet(1 .. 8) /\ Cardinality(1 .. 8) = IF 1 > 8 THEN 0 ELSE 8 - 1 + 1
    BY <2>1
  <2> QED
    BY <2>2
<1>2. \A n : /\ IsFiniteSet(Powers(n)) /\ Cardinality(Powers(n)) \in Nat
             /\ Cardinality(Powers(n)) <= 8
  BY <1>1, FS_Subset, FS_CardinalityType
<1>3. \A n : Digits(n) = IF n < 0 THEN 2 ELSE 1 + Cardinality(Powers(n))
  BY DEF Digits
<1>4. ASSUME NEW m \in Nat, NEW n \in Nat, m <= n PROVE Powers(m) \subseteq Powers(n)
  <2>1. \A e \in 1 .. 8 : 10 ^ e \in Int
    OBVIOUS
  <2> QED
    BY <1>4, <2>1
<1> HIDE DEF Powers
<1>5. ASSUME NEW n \in Int PROVE Digits(n) \in 1 .. 9
  <2> DEFINE c == Cardinality(Powers(n))
  <2>1. c \in Nat /\ c <= 8 /\ Digits(n) = IF n < 0 THEN 2 ELSE 1 + c
    BY <1>2, <1>3
  <2> HIDE DEF c
  <2> QED
    BY <2>1
<1>6. ASSUME NEW m \in Nat, NEW n \in Nat, m <= n PROVE Digits(m) <= Digits(n)
  <2> DEFINE c == Cardinality(Powers(m))
             d == Cardinality(Powers(n))
  <2>1. c <= d
    BY <1>2, <1>4, <1>6, FS_Subset
  <2>2. c \in Nat /\ d \in Nat /\ Digits(m) = 1 + c /\ Digits(n) = 1 + d
    BY <1>2, <1>3
  <2> HIDE DEF c, d
  <2> QED
    BY <2>1, <2>2
<1> QED
  BY <1>5, <1>6

Codec == DOMAIN CodecName
FileName == [runes : Nat, size : 1 .. 4]

(* The limits, as they are assumed.                                         *)
LEMMA Limits ==
  /\ MaxTransferBytes \in Nat /\ MaxSourceBlocks \in Nat \ {0} /\ MaxChunkBytes \in Nat \ {0} /\ MaxBlockCode \in Nat
  /\ MaxFrameOverhead \in Nat /\ MaxFrameOverhead >= 154
  /\ 3 * MaxSourceBlocks <= MaxBlockCode /\ 2 * MaxSourceBlocks <= 65536
  /\ MaxFileNameBytes \in Nat /\ MaxFileNameBytes >= 4 /\ MaxFileNameBytes <= MaxChunkBytes
  /\ NumColorPayloadBytes \in Nat /\ MaxMediumBytes \in Nat /\ MaxFrameOverhead + 1 < NumColorPayloadBytes
BY ClassicAssumption
(* What the numbers in a header take.                                       *)
LEMMA Header ==
  ASSUME NEW f, f.code \in Int, f.chunk \in Int, f.total \in Int, f.codec \in Codec, f.payload \in Nat
  PROVE  /\ HeaderLength(f) = 120 + Digits(f.code) + Digits(f.chunk) + Digits(f.total) + CodecName[f.codec]
         /\ HeaderLength(f) \in Nat /\ HeaderLength(f) <= 154
         /\ Packed(f) = HeaderLength(f) + 1 + f.payload
         /\ Digits(f.code) \in 1 .. 9 /\ Digits(f.chunk) \in 1 .. 9 /\ Digits(f.total) \in 1 .. 9
         /\ CodecName[f.codec] \in 2 .. 7
<1>1. Digits(f.code) \in 1 .. 9 /\ Digits(f.chunk) \in 1 .. 9 /\ Digits(f.total) \in 1 .. 9
  BY DigitsGrow
<1>2. CodecName[f.codec] \in 2 .. 7
  BY DEF Codec, CodecName
<1> DEFINE a == Digits(f.code)
           b == Digits(f.chunk)
           c == Digits(f.total)
           d == CodecName[f.codec]
<1>3. HeaderLength(f) = 4 + 32 + 64 + a + b + c + d + 4 + 8 + 8
  BY DEF HeaderLength
<1>4. a \in 1 .. 9 /\ b \in 1 .. 9 /\ c \in 1 .. 9 /\ d \in 2 .. 7
  BY <1>1, <1>2
<1> HIDE DEF a, b, c, d
<1>5. HeaderLength(f) = 120 + a + b + c + d /\ HeaderLength(f) \in Nat /\ HeaderLength(f) <= 154
  BY <1>3, <1>4
<1> QED
  BY <1>4, <1>5 DEF Packed, a, b, c, d

(* Blocks are as long as chunks are allowed to be, at most.                 *)
LEMMA Symbols ==
  ASSUME NEW total \in Nat \ {0}, NEW chunk \in Nat \ {0}, NEW ct
  PROVE  SymbolSize(total, chunk, ct) \in Nat \ {0} /\ SymbolSize(total, chunk, ct) <= chunk
BY ChunksFit DEF SymbolSize

(* The frames of a sweep.                                                   *)
LEMMA Counted ==
  ASSUME NEW k \in Nat \ {0}, NEW ct
  PROVE  /\ FrameCount(k, ct) \in Nat \ {0} /\ FrameCount(k, ct) <= 3 * k
         /\ ct # "raptorq" => FrameCount(k, ct) <= 2 * k
<1> DEFINE q == (105 * k) \div 100
<1>1. q \in Nat /\ q <= 2 * k
  OBVIOUS
<1>2. FrameCount(k, ct) = IF ct = "raptorq" THEN k + q ELSE IF k = 1 THEN 1 ELSE 2 * k
  BY DEF FrameCount
<1> HIDE DEF q
<1> QED
  BY <1>1, <1>2

(* A name, cut to whole runes, is not empty and no longer than allowed.     *)
LEMMA NameCut ==
  ASSUME NEW n \in FileName, n.runes > 0
  PROVE  NameBytes(n) \in 1 .. MaxFileNameBytes
<1> DEFINE z == n.size
           m == Least(n.runes, 120)
           q == MaxFileNameBytes \div z
<1>1. z \in 1 .. 4 /\ m \in Nat \ {0} /\ MaxFileNameBytes \in Nat /\ MaxFileNameBytes >= 4
  <2>1. n.runes \in Nat \ {0} /\ n.size \in 1 .. 4
    BY DEF FileName
  <2>2. m \in Nat \ {0}
    BY <2>1 DEF Least
  <2> QED
    BY <2>1, <2>2, Limits
<1>2. q \in Int /\ z * q <= MaxFileNameBytes /\ MaxFileNameBytes < z * q + z
  BY <1>1, Quotient
<1>3. NameBytes(n) = IF m * z > MaxFileNameBytes THEN q * z ELSE m * z
  BY DEF NameBytes
<1> HIDE DEF z, m, q
<1>4. q * z \in Int /\ q * z >= 1 /\ q * z <= MaxFileNameBytes
  <2>1. z \in {1, 2, 3, 4}
    BY <1>1
  <2> QED
    BY <1>1, <1>2, <2>1
<1>5. m * z \in Int /\ m * z >= 1
  <2>1. z \in {1, 2, 3, 4}
    BY <1>1
  <2> QED
    BY <1>1, <2>1
<1> QED
  BY <1>1, <1>3, <1>4, <1>5

(* A frame of data, of any code of the sweep, is one that ParseFrame takes. *)
LEMMA DataParsed ==
  ASSUME NEW total, NEW chunk, NEW ct \in Codec, ValidParameters(total, chunk, ct),
         NEW code \in 0 .. FrameCount(NumberOfChunks(total, chunk), ct) - 1,
         NEW size, size = SymbolSize(total, chunk, ct) \/ (ct = "binary" /\ size = 0)
  PROVE  ParseFrame(DataFrame(code, total, chunk, ct, size))
<1> DEFINE f == DataFrame(code, total, chunk, ct, size)
           k == NumberOfChunks(total, chunk)
           y == SymbolSize(total, chunk, ct)
           n == FrameCount(k, ct)
<1>1. total \in Nat \ {0} /\ chunk \in Nat \ {0} /\ chunk <= MaxChunkBytes /\ k <= MaxSourceBlocks
  BY Limits DEF ValidParameters
<1>2. k \in Nat \ {0}
  BY <1>1, Chunks
<1>3. y \in Nat \ {0} /\ y <= chunk
  BY <1>1, Symbols
<1>4. f.code = code /\ f.chunk = chunk /\ f.total = total /\ f.codec = ct /\ f.payload = size /\ f.name = FALSE
  BY DEF DataFrame
<1>5. n \in Nat \ {0} /\ n <= 3 * k /\ (ct # "raptorq" => n <= 2 * k)
  BY <1>2, Counted
<1> HIDE DEF f, k, y, n
<1>6. code \in Nat /\ code <= MaxBlockCode /\ (ct # "raptorq" => code <= 65535)
  BY <1>1, <1>2, <1>5, Limits DEF n, k
<1>7. size \in Nat /\ size <= MaxChunkBytes
  BY <1>1, <1>3, Limits DEF y
<1>8. HeaderLength(f) \in Nat /\ HeaderLength(f) <= 154 /\ Packed(f) = HeaderLength(f) + 1 + size
  BY <1>1, <1>4, <1>6, <1>7, Header
<1>9. Packed(f) <= MaxFrameOverhead + 1 + MaxChunkBytes /\ HeaderLength(f) <= MaxFrameOverhead
  <2> DEFINE h == HeaderLength(f)
  <2>1. h \in Nat /\ h <= 154 /\ Packed(f) = h + 1 + size
    BY <1>8
  <2> HIDE DEF h
  <2>2. Packed(f) <= MaxFrameOverhead + 1 + MaxChunkBytes /\ h <= MaxFrameOverhead
    BY <1>7, <2>1, Limits
  <2> QED
    BY <2>2 DEF h
<1>10. /\ f.code \in 0 .. MaxBlockCode
       /\ \/ f.payload = SymbolSize(f.total, f.chunk, f.codec)
          \/ f.codec = "binary" /\ f.payload = 0
  BY <1>4, <1>6, Limits
<1>11. ValidParameters(f.total, f.chunk, f.codec) /\ (f.codec = "raptor" => f.code <= 65535) /\ f.payload <= MaxChunkBytes
  BY <1>4, <1>6, <1>7
<1>12. ParseFrame(f)
  BY <1>4, <1>9, <1>10, <1>11 DEF ParseFrame
<1> QED
  BY <1>12 DEF f

(* So is a frame of the name.                                               *)
LEMMA NameParsed ==
  ASSUME NEW total, NEW chunk, NEW ct \in Codec, ValidParameters(total, chunk, ct),
         NEW n \in FileName, n.runes > 0
  PROVE  ParseFrame(NameFrame(total, chunk, ct, n))
<1> DEFINE f == NameFrame(total, chunk, ct, n)
           b == NameBytes(n)
<1>1. total \in Nat \ {0} /\ chunk \in Nat \ {0}
  BY Limits DEF ValidParameters
<1>2. b \in 1 .. MaxFileNameBytes
  BY NameCut
<1>3. f.code = -1 /\ f.chunk = chunk /\ f.total = total /\ f.codec = ct /\ f.payload = b /\ f.name = TRUE
  BY DEF NameFrame
<1> HIDE DEF f, b
<1>4. HeaderLength(f) \in Nat /\ HeaderLength(f) <= 154 /\ Packed(f) = HeaderLength(f) + 1 + b
  <2>1. f.code \in Int /\ f.payload \in Nat
    BY <1>2, <1>3, Limits
  <2> QED
    BY <1>1, <1>3, <2>1, Header
<1>5. Packed(f) <= MaxFrameOverhead + 1 + MaxChunkBytes /\ HeaderLength(f) <= MaxFrameOverhead
  <2> DEFINE h == HeaderLength(f)
  <2>1. h \in Nat /\ h <= 154 /\ Packed(f) = h + 1 + b
    BY <1>4
  <2> HIDE DEF h
  <2>2. Packed(f) <= MaxFrameOverhead + 1 + MaxChunkBytes /\ h <= MaxFrameOverhead
    BY <1>2, <2>1, Limits
  <2> QED
    BY <2>2 DEF h
<1>6. ParseFrame(f)
  BY <1>2, <1>3, <1>5 DEF ParseFrame
<1> QED
  BY <1>6 DEF f

(* A frame with no more digits, codec or payload is no longer.              *)
LEMMA NoLonger ==
  ASSUME NEW f, f.code \in Int, f.chunk \in Int, f.total \in Int, f.codec \in Codec, f.payload \in Nat,
         NEW g, g.code \in Int, g.chunk = f.chunk, g.total = f.total, g.codec \in Codec, g.payload \in Nat,
         Digits(f.code) <= Digits(g.code), CodecName[f.codec] <= CodecName[g.codec], f.payload <= g.payload
  PROVE  Packed(f) <= Packed(g)
<1> DEFINE a == Digits(f.code)
           b == Digits(g.code)
           c == CodecName[f.codec]
           d == CodecName[g.codec]
           m == Digits(f.chunk)
           n == Digits(f.total)
           x == f.payload
           y == g.payload
<1>1. /\ Packed(f) = HeaderLength(f) + 1 + x /\ HeaderLength(f) = 120 + a + m + n + c
      /\ a \in 1 .. 9 /\ m \in 1 .. 9 /\ n \in 1 .. 9 /\ c \in 2 .. 7
  BY Header
<1>2. /\ Packed(g) = HeaderLength(g) + 1 + y /\ HeaderLength(g) = 120 + b + m + n + d
      /\ b \in 1 .. 9 /\ d \in 2 .. 7
  BY Header
<1>3. x \in Nat /\ y \in Nat /\ x <= y /\ a <= b /\ c <= d
  OBVIOUS
<1> HIDE DEF a, b, c, d, m, n, x, y
<1> QED
  BY <1>1, <1>2, <1>3

(* Binary codes are left with two blocks at least, Raptor with four.        *)
LEMMA CodecChosen ==
  ASSUME NEW k \in Nat \ {0}, NEW codec \in Codec
  PROVE  LET ct == Effective(k, codec)
         IN  /\ ct \in Codec /\ (ct = "binary" => k > 1) /\ (ct = "raptor" => k > 3)
             /\ "lt" \in Codec /\ CodecName["lt"] = 2 /\ CodecName["raptor"] = 6
BY DEF Effective, Codec, CodecName

(* MaxFrameSize is the length of the longest frame: every frame that is     *)
(* encoded is one that ParseFrame takes, and is no longer.                  *)
LEMMA Estimated ==
  ASSUME NEW total \in Nat \ {0}, NEW chunk \in Nat \ {0}, NEW codec \in Codec, NEW n \in FileName,
         NEW ct, ct = Effective(NumberOfChunks(total, chunk), codec), ValidParameters(total, chunk, ct)
  PROVE  /\ MaxFrameSize(total, chunk, codec, n) \in Nat \ {0}
         /\ \E f \in Encoded(total, chunk, ct, n) : Packed(f) = MaxFrameSize(total, chunk, codec, n)
         /\ \A t \in {ct} \union (IF ct = "raptor" THEN {"lt"} ELSE {}) :
              \A f \in Encoded(total, chunk, t, n) :
                ParseFrame(f) /\ Packed(f) <= MaxFrameSize(total, chunk, codec, n)
<1> DEFINE k == NumberOfChunks(total, chunk)
           y == SymbolSize(total, chunk, ct)
           m == FrameCount(k, ct)
           big == DataFrame(m - 1, total, chunk, ct, y)
           named == NameFrame(total, chunk, ct, n)
           most == MaxFrameSize(total, chunk, codec, n)
<1>1. k \in Nat \ {0} /\ y \in Nat \ {0}
  BY Chunks, Symbols
<1>2. m \in Nat \ {0}
  BY <1>1, Counted
<1>3. ct \in Codec /\ (ct = "binary" => k > 1) /\ (ct = "raptor" => k > 3)
  <2>1. ct = Effective(k, codec)
    OBVIOUS
  <2> HIDE DEF k
  <2> QED
    BY <1>1, <2>1, CodecChosen
<1>4. /\ big.code = m - 1 /\ big.chunk = chunk /\ big.total = total /\ big.codec = ct /\ big.payload = y
      /\ named.code = -1 /\ named.chunk = chunk /\ named.total = total /\ named.codec = ct
      /\ named.payload = NameBytes(n)
  BY DEF DataFrame, NameFrame
<1>5. Packed(big) \in Nat \ {0}
  <2>1. HeaderLength(big) \in Nat /\ Packed(big) = HeaderLength(big) + 1 + y
    BY <1>1, <1>2, <1>3, <1>4, Header
  <2> HIDE DEF big, y
  <2> QED
    BY <1>1, <2>1
<1>6. n.runes > 0 => Packed(named) \in Nat \ {0}
  <2> SUFFICES ASSUME n.runes > 0 PROVE Packed(named) \in Nat \ {0}
    OBVIOUS
  <2>1. NameBytes(n) \in Nat
    BY NameCut, Limits
  <2>2. HeaderLength(named) \in Nat /\ Packed(named) = HeaderLength(named) + 1 + NameBytes(n)
    BY <1>3, <1>4, <2>1, Header
  <2> HIDE DEF named
  <2> QED
    BY <2>1, <2>2
<1>7. most = IF n.runes > 0 /\ Packed(named) > Packed(big) THEN Packed(named) ELSE Packed(big)
  BY DEF MaxFrameSize, LastCode
<1> HIDE DEF most
<1>8. big \in Encoded(total, chunk, ct, n) /\ (n.runes > 0 => named \in Encoded(total, chunk, ct, n))
  BY <1>2 DEF Encoded
<1>9. ASSUME NEW t \in {ct} \union (IF ct = "raptor" THEN {"lt"} ELSE {}), NEW f \in Encoded(total, chunk, t, n)
      PROVE  ParseFrame(f) /\ Packed(f) <= most
  <2>1. /\ t \in Codec /\ CodecName[t] <= CodecName[ct] /\ FrameCount(k, t) = m
        /\ SymbolSize(total, chunk, t) = y /\ ValidParameters(total, chunk, t) /\ (t = "binary" <=> ct = "binary")
    BY <1>1, <1>3 DEF Codec, CodecName, FrameCount, SymbolSize, ValidParameters
  <2>2. CASE n.runes > 0 /\ f = NameFrame(total, chunk, t, n)
    <3>1. ParseFrame(f)
      BY <2>1, <2>2, NameParsed
    <3>2. f.code = -1 /\ f.chunk = chunk /\ f.total = total /\ f.codec = t /\ f.payload = NameBytes(n)
      BY <2>2 DEF NameFrame
    <3>3. NameBytes(n) \in Nat /\ Digits(-1) \in 1 .. 9
      BY <2>2, NameCut, Limits, DigitsGrow
    <3>4. Packed(f) <= Packed(named)
      <4> HIDE DEF named
      <4> QED
        BY <1>3, <1>4, <2>1, <3>2, <3>3, NoLonger
    <3>5. f.payload = NameBytes(n)
      BY <3>2
    <3>6. Packed(f) \in Nat
      <4>1. HeaderLength(f) \in Nat /\ Packed(f) = HeaderLength(f) + 1 + NameBytes(n)
        BY <2>1, <3>2, <3>3, Header
      <4> QED
        BY <3>3, <4>1
    <3> HIDE DEF named, big
    <3> QED
      BY <1>5, <1>6, <1>7, <2>2, <3>1, <3>4, <3>6
  <2>3. CASE \E code \in 0 .. m - 1, size \in {y} \union (IF t = "binary" THEN {0} ELSE {}) :
               f = DataFrame(code, total, chunk, t, size)
    <3>1. PICK code \in 0 .. m - 1, size \in {y} \union (IF t = "binary" THEN {0} ELSE {}) :
            f = DataFrame(code, total, chunk, t, size)
      BY <2>3
    <3>2. ParseFrame(f)
      <4>1. code \in 0 .. FrameCount(NumberOfChunks(total, chunk), t) - 1
        BY <2>1
      <4>2. size = SymbolSize(total, chunk, t) \/ (t = "binary" /\ size = 0)
        BY <2>1
      <4> QED
        BY <2>1, <3>1, <4>1, <4>2, DataParsed
    <3>3. f.code = code /\ f.chunk = chunk /\ f.total = total /\ f.codec = t /\ f.payload = size
      BY <3>1 DEF DataFrame
    <3>4. size \in Nat /\ size <= y /\ code \in Nat /\ m - 1 \in Nat /\ code <= m - 1
      <4> HIDE DEF y, m
      <4> QED
        BY <1>1, <1>2
    <3>5. Digits(code) <= Digits(m - 1)
      BY <3>4, DigitsGrow
    <3>6. Packed(f) <= Packed(big)
      <4> HIDE DEF big, m, y
      <4> QED
        BY <1>1, <1>3, <1>4, <2>1, <3>3, <3>4, <3>5, NoLonger
    <3>7. Packed(f) \in Nat
      <4>1. HeaderLength(f) \in Nat /\ Packed(f) = HeaderLength(f) + 1 + size
        BY <2>1, <3>3, <3>4, Header
      <4> QED
        BY <3>4, <4>1
    <3> HIDE DEF named, big
    <3> QED
      BY <1>5, <1>6, <1>7, <3>2, <3>6, <3>7
  <2>4. \/ n.runes > 0 /\ f = NameFrame(total, chunk, t, n)
        \/ \E code \in 0 .. m - 1, size \in {y} \union (IF t = "binary" THEN {0} ELSE {}) :
             f = DataFrame(code, total, chunk, t, size)
    <3>1. \A c \in {0, 10, 100, 1000, 10000, m - 1} : c <= m - 1 => c \in 0 .. m - 1
      <4> HIDE DEF m
      <4> QED
        BY <1>2
    <3> HIDE DEF m, y
    <3> QED
      BY <2>1, <3>1 DEF Encoded, m, y
  <2> QED
    BY <2>2, <2>3, <2>4
<1>10. most \in Nat \ {0} /\ \E f \in Encoded(total, chunk, ct, n) : Packed(f) = most
  <2> HIDE DEF named, big
  <2> QED
    BY <1>5, <1>6, <1>7, <1>8
<1> QED
  BY <1>9, <1>10 DEF most

\* The estimate is that of the request, and the request was judged by it.
ClassicInv ==
  /\ req \in Request /\ stage \in {"received", "refused", "admitted", "encoded"}
  /\ split = IF req.mode = "color" THEN ClampColorSplit(req.split) ELSE req.split
  /\ longest = MaxFrameSize(req.total, split, req.codec, req.name)
  /\ stage = "refused" => longest = 0 \/ longest > Capacity(req.mode)
  /\ stage \in {"admitted", "encoded"} => longest # 0 /\ ~(longest > Capacity(req.mode))
  /\ stage = "encoded" =>
       LET ct == Effective(NumberOfChunks(req.total, split), req.codec)
       IN tag \in {ct} \union (IF ct = "raptor" THEN {"lt"} ELSE {})

(* A request is judged once, before it is encoded.                          *)
LEMMA ClassicInvariant == ClassicSpec => []ClassicInv
<1>1. ClassicInit => ClassicInv
  BY DEF ClassicInit, ClassicInv
<1>2. ClassicInv /\ [ClassicNext]_classicVars => ClassicInv'
  <2> SUFFICES ASSUME ClassicInv, [ClassicNext]_classicVars PROVE ClassicInv'
    OBVIOUS
  <2>1. CASE Validate
    BY <2>1 DEF Validate, ClassicInv
  <2>2. CASE EncodeFrames
    BY <2>2 DEF EncodeFrames, ClassicInv
  <2>3. CASE UNCHANGED classicVars
    BY <2>3 DEF classicVars, ClassicInv
  <2> QED
    BY <2>1, <2>2, <2>3 DEF ClassicNext
<1> QED
  BY <1>1, <1>2, PTL DEF ClassicSpec

(* What a request is, after the clamp of its chunk length.                  *)
LEMMA Asked ==
  ASSUME ClassicInv
  PROVE  /\ req.total \in Nat \ {0} /\ split \in Nat \ {0} /\ req.codec \in Codec /\ req.name \in FileName
         /\ Capacity(req.mode) \in Nat
<1>1. /\ req.total \in Nat \ {0} /\ req.split \in 1 .. MaxChunkBytes /\ req.mode \in {"qr", "color"}
      /\ req.codec \in {"lt", "binary", "raptor", "raptorq", "online"}
      /\ req.name \in [runes : Nat, size : 1 .. 4]
  BY ClassicAssumption DEF ClassicInv
<1>2. ClampColorSplit(req.split) \in Nat \ {0}
  BY <1>1, Limits DEF ClampColorSplit, Least
<1>3. split \in Nat \ {0}
  BY <1>1, <1>2, Limits DEF ClassicInv
<1> QED
  BY <1>1, <1>3, Limits DEF Capacity, Codec, CodecName, FileName

(* The name is spread over the sweep.                                       *)
LEMMA Spread ==
  ASSUME NEW n \in Nat \ {0}
  PROVE  LET at == Positions(n)
         IN  /\ at[1] = 0 /\ at[3] <= n
             /\ \A gap \in {at[2] - at[1], at[3] - at[2], n - at[3]} : gap \in 0 .. (n + 2) \div 3
<1> DEFINE a == (n + 2) \div 3
           b == (2 * n + 2) \div 3
<1>1. a \in Nat /\ b \in Nat /\ a <= b /\ b <= n /\ b - a <= a /\ n - b <= a
  OBVIOUS
<1>2. Positions(n)[1] = 0 /\ Positions(n)[2] = a /\ Positions(n)[3] = b
  BY DEF Positions
<1> HIDE DEF a, b
<1>3. a - 0 \in 0 .. a /\ b - a \in 0 .. a /\ n - b \in 0 .. a
  BY <1>1
<1> QED
  BY <1>1, <1>2, <1>3 DEF a

(* Every frame of an admitted request is parsed and fits, and a request that *)
(* is refused has no frames, or one that would not fit: for all limits, and  *)
(* every length, chunk length, codec and name.                               *)
THEOREM FramesAreFit == ClassicSpec => []FramesFit
<1>1. ClassicInv => FramesFit
  <2> SUFFICES ASSUME ClassicInv PROVE FramesFit
    OBVIOUS
  <2> DEFINE k == NumberOfChunks(req.total, split)
             ct == Effective(k, req.codec)
             valid == ValidParameters(req.total, split, ct)
  <2>1. /\ req.total \in Nat \ {0} /\ split \in Nat \ {0} /\ req.codec \in Codec /\ req.name \in FileName
        /\ Capacity(req.mode) \in Nat /\ k \in Nat \ {0}
    BY Asked, Chunks
  <2>2. longest = MaxFrameSize(req.total, split, req.codec, req.name) /\ (~valid => longest = 0)
    BY DEF ClassicInv, MaxFrameSize
  <2>3. valid =>
          /\ longest \in Nat \ {0} /\ \E f \in Encoded(req.total, split, ct, req.name) : Packed(f) = longest
          /\ \A t \in {ct} \union (IF ct = "raptor" THEN {"lt"} ELSE {}) :
               \A f \in Encoded(req.total, split, t, req.name) : ParseFrame(f) /\ Packed(f) <= longest
    <3> SUFFICES ASSUME valid
                 PROVE  /\ longest \in Nat \ {0}
                        /\ \E f \in Encoded(req.total, split, ct, req.name) : Packed(f) = longest
                        /\ \A t \in {ct} \union (IF ct = "raptor" THEN {"lt"} ELSE {}) :
                             \A f \in Encoded(req.total, split, t, req.name) : ParseFrame(f) /\ Packed(f) <= longest
      OBVIOUS
    <3>1. ct = Effective(NumberOfChunks(req.total, split), req.codec) /\ ValidParameters(req.total, split, ct)
      OBVIOUS
    <3> HIDE DEF ct
    <3> QED
      BY <2>1, <2>2, <3>1, Estimated
  <2>4. ASSUME stage = "encoded"
        PROVE  /\ \A f \in Encoded(req.total, split, tag, req.name) :
                    ParseFrame(f) /\ Packed(f) <= longest /\ longest <= Capacity(req.mode)
               /\ FrameCount(k, tag) \in Nat \ {0}
    <3>1. /\ tag \in {ct} \union (IF ct = "raptor" THEN {"lt"} ELSE {})
          /\ longest # 0 /\ ~(longest > Capacity(req.mode))
      BY <2>4 DEF ClassicInv
    <3>2. FrameCount(k, tag) \in Nat \ {0}
      BY <2>1, Counted
    <3> HIDE DEF k, ct, valid
    <3>3. valid /\ longest <= Capacity(req.mode)
      BY <2>1, <2>2, <2>3, <3>1
    <3> QED
      BY <2>3, <3>1, <3>2, <3>3
  <2>5. ASSUME stage = "refused"
        PROVE  ~valid \/ \E f \in Encoded(req.total, split, ct, req.name) : Packed(f) > Capacity(req.mode)
    <3>1. longest = 0 \/ longest > Capacity(req.mode)
      BY <2>5 DEF ClassicInv
    <3> HIDE DEF k, ct, valid
    <3> QED
      BY <2>3, <3>1
  <2>6. stage = "encoded" =>
          LET n == FrameCount(k, tag)
              at == Positions(n)
          IN  /\ at[1] = 0 /\ at[3] <= n
              /\ \A gap \in {at[2] - at[1], at[3] - at[2], n - at[3]} : gap \in 0 .. (n + 2) \div 3
    BY <2>4, Spread
  <2> QED
    BY <2>4, <2>5, <2>6 DEF FramesFit
<1> QED
  BY <1>1, ClassicInvariant, PTL

-----------------------------------------------------------------------------
(* Names.  A sanitized name is plain and has no space at its ends, so that  *)
(* sanitizing it again, as the receiver does, changes nothing.              *)

(* A set of numbers has a least one.                                        *)
LEMMA LeastOf == ASSUME NEW S \in SUBSET Nat, S # {} PROVE \E x \in S : \A y \in S : x <= y
<1> DEFINE R == OpToRel(<, Nat)
<1>1. \A y, x \in Nat : <<y, x>> \in R \/ x <= y
  BY DEF OpToRel
<1>2. IsWellFoundedOn(R, Nat)
  BY NatLessThanWellFounded
<1> HIDE DEF R
<1>3. PICK x \in S : \A y \in S : ~(<<y, x>> \in R)
  BY <1>2, WFMin
<1> QED
  BY <1>1, <1>3

(* And a set of numbers with a bound a greatest.                            *)
LEMMA GreatestOf ==
  ASSUME NEW n \in Nat, NEW S \in SUBSET (1 .. n), S # {} PROVE \E x \in S : \A y \in S : y <= x
<1> DEFINE T == {n - x : x \in S}
<1>0. \A x \in S : x \in Int /\ n - x \in Nat
  OBVIOUS
<1>1. T \in SUBSET Nat /\ T # {}
  BY <1>0, Zenon
<1>2. PICK t \in T : \A u \in T : t <= u
  BY <1>1, LeastOf
<1>3. PICK x \in S : t = n - x
  BY <1>2
<1>4. \A y \in S : t <= n - y
  BY <1>2
<1> QED
  BY <1>0, <1>3, <1>4

(* A finite set of numbers has a k-th member, for each k up to its size.    *)
LEMMA Ranked ==
  ASSUME NEW n \in Nat, NEW S \in SUBSET (1 .. n), NEW k \in 1 .. Cardinality(S)
  PROVE  \E i \in S : Cardinality({j \in S : j <= i}) = k
<1> DEFINE Upto(i) == {j \in S : j <= i}
           Behind0 == {i \in S : Cardinality(Upto(i)) >= k}
<1>1. IsFiniteSet(S) /\ S \in SUBSET Nat
  <2>1. IsFiniteSet(1 .. n)
    BY FS_Interval
  <2>2. \A x \in 1 .. n : x \in Nat
    OBVIOUS
  <2> QED
    BY <2>1, <2>2, FS_Subset, Zenon
<1>2. \A i : IsFiniteSet(Upto(i)) /\ Cardinality(Upto(i)) \in Nat
  BY <1>1, FS_Subset, FS_CardinalityType
<1>3. Cardinality(S) \in Nat /\ k \in Nat \ {0}
  BY <1>1, FS_CardinalityType
<1>4. S # {}
  BY <1>3, FS_EmptySet
<1>5. PICK last \in S : \A y \in S : y <= last
  BY <1>4, GreatestOf
<1>6. Upto(last) = S
  BY <1>5
<1>7. last \in Behind0
  BY <1>6, <1>3
<1>8. Behind0 \in SUBSET Nat /\ Behind0 # {}
  BY <1>1, <1>7, Zenon
<1>9. PICK i \in Behind0 : \A y \in Behind0 : i <= y
  <2> HIDE DEF Behind0
  <2> QED
    BY <1>8, LeastOf
<1>10. i \in S /\ Cardinality(Upto(i)) >= k /\ i \in Upto(i)
  BY <1>1, <1>9
<1>11. CASE Cardinality(Upto(i)) > k
  <2> DEFINE before == Upto(i) \ {i}
  <2>1. before \in SUBSET (1 .. n) /\ before = {j \in S : j < i}
    <3>1. \A j \in S : j \in 1 .. n /\ j \in Nat /\ i \in Nat
      BY <1>1, <1>10
    <3>2. \A j \in S : j <= i /\ j # i <=> j < i
      BY <3>1
    <3> QED
      BY <3>1, <3>2, Zenon
  <2>2. IsFiniteSet(before) /\ Cardinality(before) = Cardinality(Upto(i)) - 1
    <3> HIDE DEF Upto
    <3> QED
      BY <1>2, <1>10, FS_RemoveElement
  <2> HIDE DEF before
  <2>3. Cardinality(before) >= k /\ before # {}
    BY <2>2, <1>2, <1>3, <1>11, FS_EmptySet
  <2>4. PICK m \in before : \A y \in before : y <= m
    BY <2>1, <2>3, GreatestOf
  <2>5. m \in S /\ m < i
    BY <2>1, <2>4
  <2>6. Upto(m) = before
    <3>1. ASSUME NEW j \in S PROVE j <= m <=> j \in before
      <4>1. j \in Nat /\ m \in Nat /\ i \in Nat
        BY <1>1, <1>10, <2>5
      <4> QED
        BY <2>1, <2>4, <2>5, <4>1
    <3> QED
      BY <2>1, <3>1
  <2>7. m \in Behind0
    BY <2>5, <2>6, <2>3
  <2>8. i <= m /\ i \in Nat /\ m \in Nat
    BY <2>7, <1>9, <1>1, <2>5, <1>10
  <2> QED
    BY <2>5, <2>8
<1>12. CASE Cardinality(Upto(i)) = k
  BY <1>10, <1>12
<1>13. Cardinality(Upto(i)) > k \/ Cardinality(Upto(i)) = k
  BY <1>2, <1>3, <1>10
<1> QED
  BY <1>11, <1>12, <1>13

Plain(n) == (\E S : n \in Seq(S)) /\ \A i \in DOMAIN n : n[i] \notin {"/", "ctl"}
NoEnds(n) == n # << >> => n[1] # " " /\ n[Len(n)] # " "

Kept(n) == {i \in DOMAIN n : n[i] # "ctl" /\ \A j \in DOMAIN n : n[j] = "/" => j < i}
Nth(n, k) == CHOOSE i \in Kept(n) : Cardinality({j \in Kept(n) : j <= i}) = k

(* The base of a name has as many characters as are kept of it, each the    *)
(* one of its rank.                                                         *)
LEMMA BaseIs ==
  ASSUME NEW S, NEW n \in Seq(S)
  PROVE  /\ BaseName(n) = [k \in 1 .. Cardinality(Kept(n)) |-> n[Nth(n, k)]]
         /\ Kept(n) \in SUBSET (1 .. Len(n)) /\ Cardinality(Kept(n)) \in Nat
         /\ \A k \in 1 .. Cardinality(Kept(n)) :
              Nth(n, k) \in Kept(n) /\ Cardinality({j \in Kept(n) : j <= Nth(n, k)}) = k
<1>1. BaseName(n) = [k \in 1 .. Cardinality(Kept(n)) |-> n[Nth(n, k)]]
  BY DEF BaseName, Kept, Nth
<1>2. Kept(n) \in SUBSET (1 .. Len(n)) /\ Len(n) \in Nat
  BY DEF Kept
<1>3. Cardinality(Kept(n)) \in Nat
  <2>1. IsFiniteSet(1 .. Len(n))
    BY <1>2, FS_Interval
  <2> QED
    BY <1>2, <2>1, FS_Subset, FS_CardinalityType
<1>4. ASSUME NEW k \in 1 .. Cardinality(Kept(n))
      PROVE  Nth(n, k) \in Kept(n) /\ Cardinality({j \in Kept(n) : j <= Nth(n, k)}) = k
  <2>1. \E i \in Kept(n) : Cardinality({j \in Kept(n) : j <= i}) = k
    BY <1>2, Ranked
  <2> QED
    BY <2>1 DEF Nth
<1> QED
  BY <1>1, <1>2, <1>3, <1>4

(* The base of a name is plain,                                             *)
LEMMA BaseIsPlain == ASSUME NEW S, NEW n \in Seq(S) PROVE Plain(BaseName(n))
<1> DEFINE N == Cardinality(Kept(n))
<1>1. N \in Nat /\ BaseName(n) = [k \in 1 .. N |-> n[Nth(n, k)]]
  BY BaseIs
<1>2. ASSUME NEW k \in 1 .. N PROVE n[Nth(n, k)] \in S \ {"/", "ctl"}
  <2>1. Nth(n, k) \in Kept(n)
    BY BaseIs
  <2> QED
    BY <2>1 DEF Kept
<1> HIDE DEF N
<1>3. BaseName(n) \in Seq(S)
  BY <1>1, <1>2
<1> QED
  BY <1>1, <1>2, <1>3 DEF Plain

(* and the base of a plain name the name.                                   *)
LEMMA BaseOfPlain == ASSUME NEW n, Plain(n) PROVE BaseName(n) = n
<1> DEFINE L == Len(n)
           N == Cardinality(Kept(n))
<1>1. PICK S : n \in Seq(S)
  BY DEF Plain
<1>2. DOMAIN n = 1 .. L /\ L \in Nat /\ n = [k \in 1 .. L |-> n[k]]
  BY <1>1
<1>3. Kept(n) = 1 .. L
  BY <1>2 DEF Kept, Plain
<1>4. /\ BaseName(n) = [k \in 1 .. N |-> n[Nth(n, k)]]
      /\ \A k \in 1 .. N : Nth(n, k) \in 1 .. L /\ Cardinality({j \in 1 .. L : j <= Nth(n, k)}) = k
  BY <1>1, <1>3, BaseIs
<1> HIDE DEF L
<1>5. N = L
  BY <1>2, <1>3, FS_Interval
<1>6. ASSUME NEW k \in 1 .. L PROVE Nth(n, k) = k
  <2> DEFINE i == Nth(n, k)
  <2>1. i \in 1 .. L /\ Cardinality({j \in 1 .. L : j <= i}) = k
    BY <1>4, <1>5
  <2> HIDE DEF i
  <2>2. {j \in 1 .. L : j <= i} = 1 .. i
    BY <1>2, <2>1
  <2>3. Cardinality(1 .. i) = i
    BY <2>1, FS_Interval
  <2> QED
    BY <2>1, <2>2, <2>3 DEF i
<1> QED
  BY <1>2, <1>4, <1>5, <1>6

(* What is left of a plain name without the spaces at its ends.             *)
LEMMA Trimmed ==
  ASSUME NEW n, Plain(n)
  PROVE  Plain(TrimSpace(n)) /\ NoEnds(TrimSpace(n)) /\ (NoEnds(n) => TrimSpace(n) = n)
<1> DEFINE L == Len(n)
           ink == {i \in DOMAIN n : n[i] # " "}
           a == CHOOSE i \in ink : \A j \in ink : i <= j
           z == CHOOSE i \in ink : \A j \in ink : j <= i
           t == SubSeq(n, a, z)
<1>0. PICK S : n \in Seq(S)
  BY DEF Plain
<1>1. DOMAIN n = 1 .. L /\ L \in Nat /\ (n # << >> => L # 0)
  BY <1>0
<1>2. TrimSpace(n) = IF ink = {} THEN << >> ELSE t
  BY DEF TrimSpace
<1>3. /\ ink \in SUBSET (1 .. L) /\ ink \in SUBSET Nat
      /\ \A i \in ink : i \in 1 .. L /\ n[i] # " "
      /\ \A i \in 1 .. L : n[i] # " " => i \in ink
  <2>1. \A i \in 1 .. L : i \in Nat
    OBVIOUS
  <2> QED
    BY <1>1, <2>1, Zenon
<1>4. ink # {} => a \in ink /\ \A j \in ink : a <= j
  <2> HIDE DEF ink
  <2>1. ink # {} => \E i \in ink : \A j \in ink : i <= j
    BY <1>3, LeastOf
  <2> QED
    BY <2>1
<1>5. ink # {} => z \in ink /\ \A j \in ink : j <= z
  <2> HIDE DEF ink, L
  <2>1. ink # {} => \E i \in ink : \A j \in ink : j <= i
    BY <1>1, <1>3, GreatestOf
  <2> QED
    BY <2>1
<1>6. n # << >> /\ NoEnds(n) => 1 \in ink /\ L \in ink
  <2>1. L # 0 => 1 \in 1 .. L /\ L \in 1 .. L
    <3> HIDE DEF L
    <3> QED
      BY <1>1
  <2> QED
    BY <1>1, <1>3, <2>1, Zenon DEF NoEnds
<1> HIDE DEF ink, a, z, L
<1>7. CASE ink = {}
  <2>1. Plain(<< >>) /\ NoEnds(<< >>)
    BY DEF Plain, NoEnds
  <2>2. NoEnds(n) => n = << >>
    BY <1>6, <1>7
  <2> QED
    BY <1>2, <1>7, <2>1, <2>2
<1>8. CASE ink # {}
  <2>1. a \in 1 .. L /\ z \in 1 .. L /\ a <= z /\ a \in ink /\ z \in ink
    BY <1>3, <1>4, <1>5, <1>8, Zenon
  <2>2. a \in Int /\ z \in Int /\ \A i \in a .. z : i \in 1 .. L
    BY <1>1, <2>1
  <2>3. \A i \in 1 .. L : n[i] \in S /\ n[i] \notin {"/", "ctl"}
    BY <1>0, <1>1, ElementOfSeq DEF Plain, L
  <2>4. t \in Seq(S) /\ Len(t) = IF a <= z THEN z - a + 1 ELSE 0
    BY <2>2, <2>3, SubSeqProperties
  <2>5. \A i \in 1 .. z - a + 1 : t[i] = n[a + i - 1]
    BY <2>2, <2>3, SubSeqProperties
  <2> HIDE DEF t
  <2>6. DOMAIN t = 1 .. z - a + 1 /\ Len(t) = z - a + 1
    BY <2>1, <2>4
  <2>7. Plain(t)
    <3>1. ASSUME NEW i \in DOMAIN t PROVE t[i] \notin {"/", "ctl"}
      <4>1. i \in 1 .. z - a + 1 /\ a + i - 1 \in a .. z
        BY <2>2, <2>6
      <4> QED
        BY <2>2, <2>3, <2>5, <4>1, Zenon
    <3> QED
      BY <2>4, <3>1 DEF Plain
  <2>8. NoEnds(t)
    <3>1. 1 \in 1 .. z - a + 1 /\ z - a + 1 \in 1 .. z - a + 1 /\ a + 1 - 1 = a /\ a + (z - a + 1) - 1 = z
      BY <1>1, <2>1
    <3>2. t[1] = n[a] /\ t[Len(t)] = n[z]
      BY <2>5, <2>6, <3>1, Zenon
    <3> QED
      BY <1>3, <2>1, <3>2, Zenon DEF NoEnds
  <2>9. NoEnds(n) => t = n
    <3>1. NoEnds(n) => 1 \in ink /\ L \in ink
      <4>1. n # << >>
        <5>1. n = << >> => L = 0
          BY DEF L
        <5> QED
          BY <5>1, <2>1
      <4> QED
        BY <1>6, <4>1
    <3>2. NoEnds(n) => a = 1 /\ z = L
      BY <1>1, <1>4, <1>5, <1>8, <2>1, <3>1
    <3> QED
      BY <1>0, <3>2, SubSeqFull DEF t, L
  <2> QED
    BY <1>2, <1>8, <2>7, <2>8, <2>9
<1> QED
  BY <1>7, <1>8

(* A name is sanitized once and for all.                                    *)
LEMMA Sanitized ==
  ASSUME NEW S, NEW n \in Seq(S)
  PROVE  /\ \E U : SanitizeFileName(n) \in Seq(U)
         /\ SanitizeFileName(SanitizeFileName(n)) = SanitizeFileName(n)
<1> DEFINE Reserved == {<< >>, <<".">>, <<".", ".">>}
           out(m) == TrimSpace(BaseName(m))
           s == SanitizeFileName(n)
<1>1. \A m : SanitizeFileName(m) = IF out(m) \in Reserved THEN <<"transfer.bin">> ELSE out(m)
  BY DEF SanitizeFileName
<1>2. Plain(out(n)) /\ NoEnds(out(n))
  BY BaseIsPlain, Trimmed
<1>3. Plain(<<"transfer.bin">>) /\ NoEnds(<<"transfer.bin">>) /\ <<"transfer.bin">> \notin Reserved
  <2> DEFINE u == <<"transfer.bin">>
  <2>1. Len(u) = 1 /\ u[1] = "transfer.bin" /\ DOMAIN u = {1}
    OBVIOUS
  <2>2. \E U : u \in Seq(U)
    <3>1. u \in Seq({"transfer.bin"})
      OBVIOUS
    <3> QED
      BY <3>1, Zenon
  <2>3. Len(<< >>) = 0 /\ <<".">>[1] = "." /\ Len(<<".", ".">>) = 2
    OBVIOUS
  <2>4. u # << >> /\ u # <<".", ".">>
    BY <2>1, <2>3
  <2>5. u # <<".">>
    BY <2>1, <2>3
  <2> QED
    BY <2>1, <2>2, <2>4, <2>5 DEF Plain, NoEnds
<1> HIDE DEF Reserved, out
<1>4. Plain(s) /\ NoEnds(s) /\ s \notin Reserved
  BY <1>1, <1>2, <1>3
<1> HIDE DEF s
<1>5. BaseName(s) = s /\ TrimSpace(s) = s
  BY <1>4, BaseOfPlain, Trimmed
<1>6. out(s) = s
  BY <1>5 DEF out
<1> QED
  BY <1>1, <1>4, <1>6 DEF s, Plain
-----------------------------------------------------------------------------
(* Blocks.  Each byte of a container is found in its block.                 *)

(* The slot a place in the buffer belongs to.                               *)
LEMMA InSlot ==
  ASSUME NEW w \in Nat \ {0}, NEW b \in Nat, NEW j \in 0 .. w - 1
  PROVE  (b * w + j) \div w = b
<1> DEFINE a == b * w + j
           q == a \div w
<1>1. a \in Int
  OBVIOUS
<1> HIDE DEF a
<1>2. q \in Int /\ w * q <= a /\ a < w * q + w
  BY <1>1, Quotient
<1> HIDE DEF q
<1>3. CASE q > b
  <2>1. w * q >= w * (b + 1)
    BY <1>2, <1>3
  <2>2. w * (b + 1) = w * b + w /\ b * w = w * b
    OBVIOUS
  <2> QED
    BY <1>2, <2>1, <2>2 DEF a
<1>4. CASE q < b
  <2>1. w * b >= w * (q + 1)
    BY <1>2, <1>4
  <2>2. w * (q + 1) = w * q + w /\ b * w = w * b
    BY <1>2
  <2> QED
    BY <1>2, <2>1, <2>2 DEF a
<1> QED
  BY <1>2, <1>3, <1>4 DEF q, a

(* A slot has room for a block.                                             *)
LEMMA Lengths ==
  /\ DecimenBlockLen \in Nat \ {0} /\ DecimenBlockLen <= MaxBlockLen /\ MaxBlockLen \in Nat
  /\ Words \in Nat /\ Words * 4 \in Nat \ {0} /\ Words * 4 >= DecimenBlockLen
<1>1. DecimenBlockLen \in Nat \ {0} /\ DecimenBlockLen <= MaxBlockLen /\ MaxBlockLen \in Nat
  BY CarouselAssumption
<1> QED
  BY <1>1 DEF Words

(* How many blocks a container has.                                         *)
LEMMA Enough ==
  ASSUME NEW n \in Nat \ {0}
  PROVE  /\ BlocksFor(n) \in Nat \ {0}
         /\ n <= BlocksFor(n) * DecimenBlockLen /\ n > (BlocksFor(n) - 1) * DecimenBlockLen
         /\ \A m \in Nat : BlocksFor(n) > m => n > m * DecimenBlockLen
<1> DEFINE L == DecimenBlockLen
           k == BlocksFor(n)
           a == n + L - 1
           x == L * k
<1>1. L \in Nat \ {0} /\ a \in Nat
  BY Lengths
<1>2. k \in Int /\ x <= a /\ a < x + L
  <2> HIDE DEF a, L
  <2> QED
    BY <1>1, Quotient DEF BlocksFor, a, L
<1> HIDE DEF k, L
<1>3. x \in Int /\ n <= x /\ n > x - L
  <2>1. x \in Int
    BY <1>1, <1>2
  <2> HIDE DEF x
  <2> QED
    BY <1>1, <1>2, <2>1
<1>4. k * L = x /\ (k - 1) * L = x - L
  BY <1>1, <1>2
<1>5. k > 0
  <2>1. k <= 0 => x <= 0
    BY <1>1, <1>2
  <2> HIDE DEF x
  <2> QED
    BY <1>2, <1>3, <2>1
<1>6. ASSUME NEW m \in Nat, k > m PROVE n > m * L
  <2>1. m * L <= (k - 1) * L /\ m * L \in Nat
    BY <1>1, <1>2, <1>6
  <2> DEFINE y == m * L
  <2>2. y <= x - L /\ y \in Nat
    BY <2>1, <1>4
  <2> HIDE DEF x, y
  <2>3. n > y
    BY <1>1, <1>3, <2>2
  <2> QED
    BY <2>3 DEF y
<1> QED
  BY <1>2, <1>3, <1>4, <1>5, <1>6 DEF L, k

(* A block has the bytes of its part of the container.                      *)
LEMMA BlockIs ==
  ASSUME NEW bytes, Len(bytes) \in Nat \ {0},
         NEW b \in 0 .. BlocksFor(Len(bytes)) - 1, NEW j \in 0 .. DecimenBlockLen - 1,
         b * DecimenBlockLen + j < Len(bytes)
  PROVE  BlockAt(bytes, b)[j] = bytes[b * DecimenBlockLen + j + 1]
<1> DEFINE n == Len(bytes)
           k == BlocksFor(n)
           w == Words * 4
           L == DecimenBlockLen
           p == b * w + j
           Value(q) ==
             LET c == q \div w
                 i == q - Slot(c)
             IN IF i \in 0 .. L - 1 /\ c * L + i < n THEN bytes[c * L + i + 1] ELSE 0
<1>1. w \in Nat \ {0} /\ L \in Nat \ {0} /\ w >= L /\ k \in Nat \ {0} /\ b \in Nat /\ j \in Nat /\ Words \in Nat
  BY Lengths, Enough
<1>2. Buffer(bytes) = [q \in 0 .. k * Words * 4 - 1 |-> Value(q)]
  BY Zenon DEF Buffer
<1>3. BlockAt(bytes, b)[j] = Buffer(bytes)[b * Words * 4 + j]
  BY DEF BlockAt
<1>4. b * Words * 4 + j = p /\ k * Words * 4 = k * w /\ Slot(b) = b * w
  BY <1>1 DEF Slot
<1>5. p \div w = b
  <2>1. j \in 0 .. w - 1
    BY <1>1
  <2> HIDE DEF w, L
  <2> QED
    BY <1>1, <2>1, InSlot
<1>6. p \in 0 .. k * w - 1 /\ p - b * w = j
  <2> HIDE DEF w, L, n, k
  <2>1. b + 1 <= k
    BY <1>1 DEF k, n
  <2>2. (b + 1) * w <= k * w /\ (b + 1) * w = b * w + w /\ b * w \in Nat /\ k * w \in Nat
    BY <1>1, <2>1
  <2> DEFINE x == b * w
             y == k * w
  <2>3. x + w <= y /\ x \in Nat /\ y \in Nat
    BY <1>1, <2>2
  <2> HIDE DEF x, y
  <2>4. j < w
    BY <1>1 DEF L
  <2>5. x + j \in 0 .. y - 1 /\ x + j - x = j
    BY <1>1, <2>3, <2>4
  <2>6. p = x + j
    BY DEF x
  <2> HIDE DEF p
  <2>7. p \in 0 .. y - 1
    BY <2>5, <2>6
  <2>8. p - x = j
    BY <1>1, <2>3, <2>6
  <2> QED
    BY <2>7, <2>8, Zenon DEF x, y
<1>7. Value(p) = bytes[b * L + j + 1]
  <2>1. p - Slot(p \div w) = j
    BY <1>4, <1>5, <1>6
  <2> HIDE DEF p, w
  <2> QED
    BY <1>5, <2>1
<1>8. Buffer(bytes)[p] = Value(p)
  <2> HIDE DEF Value, p, w
  <2> QED
    BY <1>2, <1>4, <1>6
<1> QED
  BY <1>3, <1>4, <1>7, <1>8

(* What is cut into blocks is put together again.                           *)
LEMMA CutAndJoined ==
  ASSUME NEW n \in Nat \ {0}, NEW bytes, bytes = [i \in 1 .. n |-> bytes[i]], Len(bytes) = n,
         NEW h, h.totalLen = n, h.blockLen = DecimenBlockLen,
         NEW payload, payload = [b \in Sweep(BlocksFor(n)) |-> BlockAt(bytes, b)]
  PROVE  Assemble(h, payload) = bytes
<1> DEFINE L == DecimenBlockLen
           k == BlocksFor(n)
<1>1. L \in Nat \ {0} /\ k \in Nat \ {0} /\ n <= k * L
  BY Lengths, Enough
<1>2. ASSUME NEW i \in 1 .. n PROVE payload[(i - 1) \div L][(i - 1) % L] = bytes[i]
  <2> DEFINE a == i - 1
             b == a \div L
             j == a % L
  <2>1. a \in Nat /\ a < n /\ a + 1 = i
    OBVIOUS
  <2> HIDE DEF a, L, k
  <2>2. b \in Int /\ L * b <= a /\ a < L * b + L
    BY <1>1, <2>1, Quotient
  <2>3. j = a - L * b /\ j \in 0 .. L - 1
    BY <1>1, <2>1, Remainder
  <2> HIDE DEF b, j
  <2>4. b >= 0
    <3>1. b < 0 => L * (b + 1) <= 0 /\ L * (b + 1) = L * b + L
      BY <1>1, <2>2, SMTT(30)
    <3> DEFINE x == L * b
    <3>2. x \in Int /\ a < x + L /\ (b < 0 => x + L <= 0)
      BY <1>1, <2>2, <3>1
    <3> HIDE DEF x
    <3> QED
      BY <1>1, <2>1, <2>2, <3>2
  <2>5. b < k
    <3>1. b >= k => L * b >= k * L
      BY <1>1, <2>2, SMTT(30)
    <3> DEFINE x == L * b
               y == k * L
    <3>2. x \in Int /\ y \in Int /\ x <= a /\ n <= y /\ (b >= k => x >= y)
      BY <1>1, <2>2, <3>1
    <3> HIDE DEF x, y
    <3> QED
      BY <1>1, <2>1, <2>2, <3>2
  <2>6. b * L + j = a
    BY <1>1, <2>1, <2>2, <2>3
  <2>7. BlockAt(bytes, b)[j] = bytes[b * L + j + 1]
    <3>1. /\ Len(bytes) \in Nat \ {0} /\ b \in 0 .. BlocksFor(Len(bytes)) - 1
          /\ j \in 0 .. DecimenBlockLen - 1 /\ b * DecimenBlockLen + j < Len(bytes)
      BY <2>1, <2>2, <2>3, <2>4, <2>5, <2>6, <1>1 DEF L, k
    <3> QED
      BY <3>1, BlockIs DEF L
  <2>8. payload[b] = BlockAt(bytes, b)
    BY <1>1, <2>2, <2>4, <2>5 DEF Sweep, k
  <2> QED
    BY <2>1, <2>6, <2>7, <2>8 DEF a, b, j
<1>3. Assemble(h, payload) = [i \in 1 .. n |-> payload[(i - 1) \div L][(i - 1) % L]]
  BY DEF Assemble
<1> QED
  BY <1>2, <1>3

-----------------------------------------------------------------------------
(* The container.                                                           *)

(* The limits are numbers.                                                  *)
LEMMA CarouselLimits ==
  /\ U16 \in Nat /\ MaxFileBytes \in Nat /\ FixedPart \in Nat /\ GzipMin \in Nat /\ GzipGain \in Nat
  /\ GzipLeast \in Nat \ {0} /\ DefaultType \in Nat
BY CarouselAssumption

(* What a container has of a file.                                          *)
Sent(f) == IF UseGzip(f) THEN f.gzip ELSE f.size
SizeOf(f) == FixedPart + Len(SanitizeFileName(f.name)) + TypeOf(f) + Sent(f)
IsContainer(f, c) ==
  /\ c.refused = FALSE /\ c.gzip = UseGzip(f) /\ c.nameLen = Len(SanitizeFileName(f.name))
  /\ c.typeLen = TypeOf(f) /\ c.fileLen = f.size /\ c.transLen = Sent(f)
  /\ c.name = SanitizeFileName(f.name) /\ c.bytes = [i \in 1 .. SizeOf(f) |-> i]

(* Sizes are numbers, and gzip is used only where it gains.                 *)
LEMMA FileSizes ==
  ASSUME NEW f \in File
  PROVE  /\ Len(SanitizeFileName(f.name)) \in Nat /\ TypeOf(f) \in Nat /\ UseGzip(f) \in BOOLEAN
         /\ Sent(f) \in Nat /\ f.size \in Nat \ {0} /\ SizeOf(f) \in Nat
         /\ UseGzip(f) => Sent(f) >= GzipLeast /\ Sent(f) <= f.size
         /\ ~UseGzip(f) => Sent(f) = f.size
         /\ SanitizeFileName(SanitizeFileName(f.name)) = SanitizeFileName(f.name)
<1>1. /\ f.name \in Seq(STRING) /\ f.size \in Nat \ {0}
      /\ f.type \in Nat /\ f.gzip \in Nat /\ f.gzip >= GzipLeast
  BY CarouselAssumption
<1>2. Len(SanitizeFileName(f.name)) \in Nat /\ SanitizeFileName(SanitizeFileName(f.name)) = SanitizeFileName(f.name)
  BY <1>1, Sanitized
<1>3. TypeOf(f) \in Nat
  BY <1>1, CarouselLimits DEF TypeOf
<1>4. /\ UseGzip(f) \in BOOLEAN /\ Sent(f) \in Nat
      /\ UseGzip(f) => Sent(f) >= GzipLeast /\ Sent(f) <= f.size
      /\ ~UseGzip(f) => Sent(f) = f.size
  BY <1>1, CarouselLimits DEF UseGzip, Sent
<1>5. SizeOf(f) \in Nat
  BY <1>2, <1>3, <1>4, CarouselLimits DEF SizeOf
<1> QED
  BY <1>1, <1>2, <1>3, <1>4, <1>5

TooLarge(f) == Len(SanitizeFileName(f.name)) > U16 \/ TypeOf(f) > U16 \/ f.size > MaxFileBytes

(* A file is packed or over a limit.                                        *)
LEMMA Packing ==
  ASSUME NEW f
  PROVE  /\ PackContainer(f) = Refused => TooLarge(f)
         /\ PackContainer(f) # Refused => IsContainer(f, PackContainer(f)) /\ ~TooLarge(f)
<1>1. CASE TooLarge(f)
  BY <1>1 DEF PackContainer, TooLarge, Refused
<1>2. CASE ~TooLarge(f)
  <2> DEFINE c == PackContainer(f)
  <2>1. c = [refused |-> FALSE, gzip |-> UseGzip(f), nameLen |-> Len(SanitizeFileName(f.name)),
             typeLen |-> TypeOf(f), fileLen |-> f.size, transLen |-> Sent(f), name |-> SanitizeFileName(f.name),
             bytes |-> [i \in 1 .. SizeOf(f) |-> i]]
    BY <1>2, Zenon DEF PackContainer, TooLarge, SizeOf, Sent
  <2> HIDE DEF c
  <2>2. c.refused = FALSE /\ IsContainer(f, c)
    BY <2>1 DEF IsContainer
  <2>3. c # Refused
    BY <2>2 DEF Refused
  <2> QED
    BY <1>2, <2>2, <2>3 DEF c
<1> QED
  BY <1>1, <1>2

(* What was packed is unpacked again.                                       *)
LEMMA Unpacking ==
  ASSUME NEW f \in File, NEW c, IsContainer(f, c), ~TooLarge(f)
  PROVE  /\ Len(c.bytes) = SizeOf(f) /\ SizeOf(f) \in 1 .. MaxPayload
         /\ UnpackContainer(c, c.bytes)
              = [refused |-> FALSE, name |-> SanitizeFileName(f.name), type |-> TypeOf(f), size |-> f.size]
<1> DEFINE l == Len(SanitizeFileName(f.name))
           y == TypeOf(f)
           t == Sent(f)
           z == SizeOf(f)
           g == UseGzip(f)
<1>1. /\ l \in Nat /\ y \in Nat /\ t \in Nat /\ f.size \in Nat \ {0} /\ z \in Nat /\ g \in BOOLEAN
      /\ g => t >= GzipLeast /\ t <= f.size
      /\ ~g => t = f.size
  BY FileSizes
<1>2. z = FixedPart + l + y + t
  BY DEF SizeOf
<1>3. l <= U16 /\ y <= U16 /\ f.size <= MaxFileBytes
  BY <1>1, CarouselLimits DEF TooLarge
<1>4. t \in 1 .. MaxFileBytes
  BY <1>1, <1>3, CarouselLimits
<1>5. z \in 1 .. MaxPayload
  BY <1>1, <1>2, <1>3, <1>4, CarouselLimits DEF MaxPayload
<1>6. c.bytes = [i \in 1 .. z |-> i] /\ Len(c.bytes) = z
  BY <1>1 DEF IsContainer
<1>7. /\ c.nameLen = l /\ c.typeLen = y /\ c.fileLen = f.size /\ c.transLen = t /\ c.gzip = g
      /\ c.name = SanitizeFileName(f.name)
  BY DEF IsContainer
<1>8. SanitizeFileName(c.name) = SanitizeFileName(f.name)
  BY <1>7, FileSizes
<1> HIDE DEF l, y, t, z, g
<1>9. ~ \/ Len(c.bytes) < FixedPart \/ FixedPart + c.nameLen + c.typeLen + c.transLen # Len(c.bytes)
        \/ c.fileLen \notin 1 .. MaxFileBytes \/ c.transLen \notin 1 .. MaxFileBytes
        \/ (IF c.gzip THEN c.transLen < GzipLeast ELSE c.transLen # c.fileLen)
  <2>1. Len(c.bytes) >= FixedPart /\ FixedPart + c.nameLen + c.typeLen + c.transLen = Len(c.bytes)
    BY <1>1, <1>2, <1>6, <1>7, CarouselLimits
  <2>2. c.fileLen \in 1 .. MaxFileBytes /\ c.transLen \in 1 .. MaxFileBytes
    BY <1>1, <1>3, <1>4, <1>7, CarouselLimits
  <2>3. ~(IF c.gzip THEN c.transLen < GzipLeast ELSE c.transLen # c.fileLen)
    BY <1>1, <1>7, CarouselLimits
  <2> QED
    BY <2>1, <2>2, <2>3, <1>1, <1>6, CarouselLimits
<1>10. UnpackContainer(c, c.bytes)
         = [refused |-> FALSE, name |-> SanitizeFileName(c.name), type |-> c.typeLen, size |-> c.fileLen]
  BY <1>9, Zenon DEF UnpackContainer
<1> QED
  BY <1>5, <1>6, <1>7, <1>8, <1>10 DEF z, y
-----------------------------------------------------------------------------
(* The carousel.  What is there of a file's journey is what its last step   *)
(* made of the file.                                                        *)

CarouselInv ==
  /\ file \in File
  /\ container # NotYet => container = PackContainer(file)
  /\ container = NotYet => frames = NotYet
  /\ frames # NotYet => IsContainer(file, container) /\ ~TooLarge(file)
  /\ frames = Refused => TooMany(BlocksFor(Len(container.bytes)))
  /\ frames \notin {NotYet, Refused} =>
       /\ ~TooMany(BlocksFor(SizeOf(file)))
       /\ frames = [refused |-> FALSE,
                    header |-> [k |-> BlocksFor(SizeOf(file)) % (U16 + 1), blockLen |-> DecimenBlockLen,
                                totalLen |-> SizeOf(file)],
                    payload |-> [b \in Sweep(BlocksFor(SizeOf(file))) |-> BlockAt(container.bytes, b)]]
  /\ received # NotYet =>
       received = [refused |-> FALSE, name |-> SanitizeFileName(file.name), type |-> TypeOf(file), size |-> file.size]

(* The header of frames that were made is one the receiver takes, and its   *)
(* blocks are the container.                                                *)
LEMMA Taken ==
  ASSUME NEW f \in File, NEW c, IsContainer(f, c), ~TooLarge(f), ~TooMany(BlocksFor(SizeOf(f))),
         NEW h, h = [k |-> BlocksFor(SizeOf(f)) % (U16 + 1), blockLen |-> DecimenBlockLen, totalLen |-> SizeOf(f)],
         NEW payload, payload = [b \in Sweep(BlocksFor(SizeOf(f))) |-> BlockAt(c.bytes, b)]
  PROVE  ValidHeader(h) /\ Assemble(h, payload) = c.bytes
<1> DEFINE n == SizeOf(f)
           k == BlocksFor(n)
           L == DecimenBlockLen
<1>1. n \in 1 .. MaxPayload /\ Len(c.bytes) = n /\ c.bytes = [i \in 1 .. n |-> i] /\ MaxPayload \in Nat
  <2>1. MaxPayload \in Nat
    BY CarouselLimits DEF MaxPayload
  <2> QED
    BY <2>1, Unpacking DEF IsContainer
<1>2. L \in 1 .. MaxBlockLen
  BY Lengths
<1> HIDE DEF n
<1>3. k \in Nat \ {0} /\ n <= k * L /\ n > (k - 1) * L
  BY <1>1, Enough
<1> HIDE DEF k, L
<1>4. k <= U16
  BY <1>3, CarouselLimits DEF TooMany, k, n
<1>5. k % (U16 + 1) = k
  BY <1>3, <1>4, CarouselLimits
<1>6. h.k = k /\ h.blockLen = L /\ h.totalLen = n
  BY <1>5 DEF k, L, n
<1>7. ValidHeader(h)
  BY <1>1, <1>2, <1>3, <1>6 DEF ValidHeader
<1>8. c.bytes = [i \in 1 .. n |-> c.bytes[i]] /\ n \in Nat \ {0}
  BY <1>1
<1>9. payload = [b \in Sweep(BlocksFor(n)) |-> BlockAt(c.bytes, b)]
  BY DEF n
<1>10. Assemble(h, payload) = c.bytes
  BY <1>1, <1>6, <1>8, <1>9, CutAndJoined DEF L
<1> QED
  BY <1>7, <1>10

(* The invariant of the carousel.                                           *)
THEOREM CarouselInvariant == CarouselSpec => []CarouselInv
<1>1. CarouselInit => CarouselInv
  BY DEF CarouselInit, CarouselInv, NotYet, Refused
<1>2. CarouselInv /\ [CarouselNext]_carouselVars => CarouselInv'
  <2> SUFFICES ASSUME CarouselInv, [CarouselNext]_carouselVars PROVE CarouselInv'
    OBVIOUS
  <2> USE DEF CarouselInv
  <2>1. CASE Pack
    <3>1. /\ container = NotYet /\ container' = PackContainer(file)
          /\ file' = file /\ frames' = frames /\ received' = received
      BY <2>1 DEF Pack
    <3>2. frames' = NotYet /\ NotYet # Refused
      BY <3>1 DEF NotYet, Refused
    <3> QED
      BY <3>1, <3>2
  <2>2. CASE EncodeDecimen
    <3> DEFINE n == Len(container.bytes)
               k == BlocksFor(n)
               made == [refused |-> FALSE,
                        header |-> [k |-> k % (U16 + 1), blockLen |-> DecimenBlockLen, totalLen |-> n],
                        payload |-> [b \in Sweep(k) |-> BlockAt(container.bytes, b)]]
    <3>1. container = PackContainer(file) /\ container # Refused /\ frames = NotYet /\ file \in File
      BY <2>2 DEF EncodeDecimen
    <3>2. IsContainer(file, container) /\ ~TooLarge(file)
      BY <3>1, Packing
    <3>3. n = SizeOf(file) /\ SizeOf(file) \in 1 .. MaxPayload
      BY <3>1, <3>2, Unpacking
    <3>4. DecimenBlockLen \in 1 .. MaxBlockLen
      BY Lengths
    <3>5. frames' = IF TooMany(k) THEN Refused ELSE made
      <4>1. ~(n \notin 1 .. MaxPayload \/ DecimenBlockLen \notin 1 .. MaxBlockLen)
        BY <3>3, <3>4
      <4> QED
        BY <2>2, <4>1, Zenon DEF EncodeDecimen
    <3>6. file' = file /\ container' = container /\ received' = received /\ container # NotYet
      BY <2>2 DEF EncodeDecimen
    <3>7. made # Refused
      BY DEF Refused
    <3> HIDE DEF made, k, n
    <3>8. frames' = Refused => TooMany(k)
      BY <3>5, <3>7
    <3>9. frames' # Refused => ~TooMany(k) /\ frames' = made
      BY <3>5
    <3>10. CarouselInv!5'
      BY <3>6, <3>8 DEF k, n
    <3>11. CarouselInv!6'
      BY <3>3, <3>6, <3>9 DEF k, made
    <3> QED
      BY <3>2, <3>6, <3>10, <3>11
  <2>3. CASE Receive
    <3>1. frames \notin {NotYet, Refused} /\ received = NotYet /\ file \in File
      BY <2>3 DEF Receive
    <3>2. ValidHeader(frames.header) /\ Assemble(frames.header, frames.payload) = container.bytes
      <4> DEFINE h == [k |-> BlocksFor(SizeOf(file)) % (U16 + 1), blockLen |-> DecimenBlockLen, totalLen |-> SizeOf(file)]
                 payload == [b \in Sweep(BlocksFor(SizeOf(file))) |-> BlockAt(container.bytes, b)]
      <4>1. frames = [refused |-> FALSE, header |-> h, payload |-> payload]
        BY <3>1
      <4>2. IsContainer(file, container) /\ ~TooLarge(file) /\ ~TooMany(BlocksFor(SizeOf(file)))
        BY <3>1
      <4>3. ValidHeader(h) /\ Assemble(h, payload) = container.bytes
        BY <3>1, <4>2, Taken
      <4> HIDE DEF h, payload
      <4> QED
        BY <4>1, <4>3
    <3>3. received' = UnpackContainer(container, container.bytes)
      BY <2>3, <3>2 DEF Receive
    <3>4. received' = [refused |-> FALSE, name |-> SanitizeFileName(file.name), type |-> TypeOf(file), size |-> file.size]
      BY <3>1, <3>3, Unpacking
    <3>5. file' = file /\ container' = container /\ frames' = frames
      BY <2>3 DEF Receive
    <3> QED
      BY <3>4, <3>5
  <2>4. CASE UNCHANGED carouselVars
    BY <2>4 DEF CarouselInv, carouselVars
  <2> QED
    BY <2>1, <2>2, <2>3, <2>4 DEF CarouselNext
<1> QED
  BY <1>1, <1>2, PTL DEF CarouselSpec

(* The limits of the two ends agree, and so do the ways they cut a          *)
(* container: whatever the limits, the length of a block and the files, a   *)
(* file that is packed and encoded arrives under the name it was sent       *)
(* under, and only what is over a limit is refused; what is not refused has *)
(* an encoder.                                                              *)
THEOREM FilesArrive == CarouselSpec => []ContainerArrives
<1>1. CarouselInv => ContainerArrives
  <2> SUFFICES ASSUME CarouselInv PROVE ContainerArrives
    OBVIOUS
  <2> USE DEF CarouselInv
  <2>1. container = Refused =>
          Len(SanitizeFileName(file.name)) > U16 \/ TypeOf(file) > U16 \/ file.size > MaxFileBytes
    <3>1. Refused # NotYet
      BY DEF Refused, NotYet
    <3> QED
      BY <3>1, Packing DEF TooLarge
  <2>2. frames = Refused => Len(container.bytes) > U16 * DecimenBlockLen
    <3> SUFFICES ASSUME frames = Refused PROVE Len(container.bytes) > U16 * DecimenBlockLen
      OBVIOUS
    <3>1. IsContainer(file, container) /\ ~TooLarge(file) /\ file \in File
      BY DEF Refused, NotYet
    <3> DEFINE n == Len(container.bytes)
    <3>2. n \in Nat \ {0}
      <4>1. MaxPayload \in Nat
        BY CarouselLimits DEF MaxPayload
      <4>2. Len(container.bytes) = SizeOf(file) /\ SizeOf(file) \in 1 .. MaxPayload
        BY <3>1, Unpacking
      <4> QED
        BY <4>1, <4>2
    <3>3. BlocksFor(n) > U16
      BY DEF TooMany
    <3> HIDE DEF n
    <3>4. n > U16 * DecimenBlockLen
      BY <3>2, <3>3, Enough, CarouselLimits
    <3> QED
      BY <3>4 DEF n
  <2>3. frames # Crashed
    <3>1. Refused # Crashed /\ NotYet # Crashed
      BY DEF Refused, NotYet, Crashed
    <3>2. frames \notin {NotYet, Refused} => frames.refused = FALSE
      OBVIOUS
    <3>3. Crashed.refused = TRUE
      BY DEF Crashed
    <3> QED
      BY <3>1, <3>2, <3>3
  <2> QED
    BY <2>1, <2>2, <2>3 DEF ContainerArrives
<1> QED
  BY <1>1, CarouselInvariant, PTL

-----------------------------------------------------------------------------
(* The colour matrix.  A decoder that looks for every module d too early    *)
(* reads the header only if d is 0, and then it reads all.                  *)

(* The numbers of the layout.                                               *)
LEMMA Layout ==
  /\ PayEnd = 86 /\ Lo = 2 /\ Hi = 94 /\ BarWidth = 23 /\ Module = 0 .. 95
  /\ FrameW = 2 /\ CalTop = 11 /\ HdrTop = 15 /\ HdrWid = 16 /\ PayTop = 17
BY DEF PayEnd, Lo, Hi, BarWidth, Module, FrameW, CalTop, HdrTop, HdrWid, PayTop, ColorMatrixSize, FinderOff, FinderSz

(* What the encoder writes where.                                           *)
FirstBitOnly(n, r, c) == Cell(n, r, c) = <<"header", 0>> => r = 15 /\ c = 2
HeaderCell(n, r, c) ==
  r \in 15 .. 16 /\ c \in 2 .. 17 => Cell(n, r, c) = <<"header", (r - 15) * 16 + c - 2>>
ColourCell(n, r, c) ==
  r \in 12 .. 13 /\ c \in 2 .. 93 => Cell(n, r, c) = <<"colour", (c - 2) \div 23>>
DataCell(n, r, c) ==
  r \in 17 .. 85 /\ c \in 2 .. 93 /\ (r - 17) * 92 + c - 2 < 4 * n
    => Cell(n, r, c) = <<"data", (r - 17) * 92 + c - 2>>

(* Each of the four holds everywhere.                                       *)
LEMMA Written ==
  ASSUME NEW n \in Nat, NEW r \in Int, NEW c \in Int
  PROVE  FirstBitOnly(n, r, c) /\ HeaderCell(n, r, c) /\ ColourCell(n, r, c) /\ DataCell(n, r, c)
<1> USE DEF FirstBitOnly, HeaderCell, ColourCell, DataCell
<1> DEFINE pay == r \in 17 .. 85 /\ c \in 2 .. 93
           hdr == r \in 15 .. 16 /\ c \in 2 .. 17
           col == r \in 11 .. 14 /\ c \in 2 .. 93
           i == (r - 17) * 92 + c - 2
           j == (r - 15) * 16 + c - 2
           e == (c - 2) \div 23
<1>1. /\ pay <=> r \in PayTop .. PayEnd - 1 /\ c \in Lo .. Hi - 1
      /\ hdr <=> r \in HdrTop .. HdrTop + 1 /\ c \in FrameW .. FrameW + HdrWid - 1
      /\ col <=> r \in CalTop .. HdrTop - 1 /\ c \in Lo .. Hi - 1
  BY Layout
<1>2. PayloadIndex(r, c) = i /\ HeaderIndex(r, c) = j /\ (c - Lo) \div BarWidth = e
  BY Layout DEF PayloadIndex, HeaderIndex
<1> HIDE DEF i, j, e
<1>3. Cell(n, r, c) =
        CASE pay -> IF i < 4 * n THEN <<"data", i>> ELSE <<"black">>
          [] hdr -> <<"header", j>>
          [] col -> <<"colour", e>>
          [] BlackInFinder(r, c) -> <<"black">>
          [] r < FrameW \/ r >= Hi \/ c < FrameW \/ c >= Hi -> <<"black">>
          [] OTHER -> <<"white">>
  BY <1>1, <1>2, ZenonT(60) DEF Cell
<1>4. /\ ~(pay /\ hdr) /\ ~(pay /\ col) /\ ~(hdr /\ col)
      /\ pay \/ hdr \/ col => ~BlackInFinder(r, c) /\ ~(r < FrameW \/ r >= Hi \/ c < FrameW \/ c >= Hi)
  <2>1. BlackInFinder(r, c) => r \in 3 .. 9 \/ r \in 86 .. 92
    BY Layout DEF BlackInFinder, FinderAt, FinderOff, FinderSz
  <2> QED
    BY <2>1, Layout
<1> HIDE DEF pay, hdr, col
<1>5. CASE pay
  <2>1. Cell(n, r, c) = IF i < 4 * n THEN <<"data", i>> ELSE <<"black">>
    BY <1>3, <1>4, <1>5
  <2> QED
    BY <1>4, <1>5, <2>1 DEF pay, hdr, col, i
<1>6. CASE hdr
  <2>1. Cell(n, r, c) = <<"header", j>>
    BY <1>3, <1>4, <1>6
  <2>2. j = 0 => r = 15 /\ c = 2
    BY <1>6 DEF hdr, j
  <2> QED
    BY <1>4, <1>6, <2>1, <2>2 DEF pay, hdr, col, j
<1>7. CASE col
  <2>1. Cell(n, r, c) = <<"colour", e>>
    BY <1>3, <1>4, <1>7
  <2> QED
    BY <1>4, <1>7, <2>1 DEF pay, hdr, col, e
<1>8. CASE ~pay /\ ~hdr /\ ~col
  <2>1. Cell(n, r, c) \in {<<"black">>, <<"white">>}
    BY <1>3, <1>8
  <2> QED
    BY <1>8, <2>1 DEF pay, hdr, col
<1> QED
  BY <1>5, <1>6, <1>7, <1>8

-----------------------------------------------------------------------------
(* The places of a decoder, by the pixel of a row or column.                *)
IsPicture(p) ==
  /\ p.length \in Nat /\ p.scale \in Nat \ {0} /\ p.before \in Nat /\ p.width \in Nat

At(p, z) == (z - p.before) \div p.scale

(* A pixel of the picture shows a module of the matrix.                     *)
LEMMA PixelShows ==
  ASSUME NEW p, IsPicture(p), NEW x \in Int, NEW y \in Int
  PROVE  /\ At(p, x) \in Int /\ At(p, y) \in Int
         /\ At(p, x) \in Module /\ At(p, y) \in Module => Shown(p, x, y) = Cell(p.length, At(p, y), At(p, x))
         /\ Shown(p, x, y) # <<"outside">> => Shown(p, x, y) = Cell(p.length, At(p, y), At(p, x))
<1> DEFINE s == p.scale
           b == p.before
           m == s * 96
           inside(z) == z - b \in 0 .. m - 1
<1>1. s \in Nat \ {0} /\ b \in Nat
  BY DEF IsPicture
<1>2. ASSUME NEW z \in Int PROVE At(p, z) \in Int /\ (At(p, z) \in Module => inside(z))
  <2> DEFINE q == (z - b) \div s
  <2>1. q \in Int /\ s * q <= z - b /\ z - b < s * q + s
    <3> DEFINE a == z - b
    <3>1. a \in Int /\ s \in Nat \ {0}
      BY <1>1
    <3> HIDE DEF a, s
    <3>2. a \div s \in Int /\ s * (a \div s) <= a /\ a < s * (a \div s) + s
      BY <3>1, Quotient
    <3> QED
      BY <3>2 DEF a
  <2> HIDE DEF q, s, b
  <2>2. ASSUME q \in 0 .. 95 PROVE z - b \in 0 .. s * 96 - 1
    <3>1. s * q >= 0
      BY <1>1, <2>1, <2>2
    <3>2. s * (q + 1) <= s * 96
      BY <1>1, <2>1, <2>2
    <3>3. s * (q + 1) = s * q + s
      BY <1>1, <2>1
    <3> DEFINE u == s * q
               v == s * 96
    <3>4. u \in Int /\ v \in Int /\ u + s <= v /\ u >= 0 /\ u <= z - b /\ z - b < u + s
      BY <1>1, <2>1, <3>1, <3>2, <3>3
    <3> HIDE DEF u, v
    <3>5. z - b \in 0 .. v - 1
      BY <1>1, <3>4
    <3> QED
      BY <3>5 DEF v
  <2> QED
    BY <2>1, <2>2, Layout DEF At, q, s, b
<1>3. Shown(p, x, y) = IF inside(x) /\ inside(y) THEN Cell(p.length, At(p, y), At(p, x)) ELSE <<"outside">>
  BY DEF Shown, ColorMatrixSize, At
<1> HIDE DEF inside
<1> QED
  BY <1>2, <1>3

(* A decoder whose modules are where they were written reads the picture.   *)
LEMMA AllRead ==
  ASSUME NEW p, IsPicture(p), NEW at, \A c \in Module : at[c] \in Int /\ At(p, at[c]) = c
  PROVE  HeaderRead(p, at) /\ ColoursRead(p, at) /\ PayloadRead(p, at)
<1>1. ASSUME NEW r \in Module, NEW c \in Module PROVE Shown(p, at[c], at[r]) = Cell(p.length, r, c)
  BY PixelShows
<1>2. p.length \in Nat
  BY DEF IsPicture
<1>3. HeaderRead(p, at)
  <2> SUFFICES ASSUME NEW r \in 15 .. 16, NEW c \in 2 .. 17
               PROVE  Shown(p, at[c], at[r]) = <<"header", (r - 15) * 16 + c - 2>>
    BY Layout DEF HeaderRead
  <2>1. r \in Module /\ c \in Module /\ r \in Int /\ c \in Int
    BY Layout
  <2>2. Cell(p.length, r, c) = <<"header", (r - 15) * 16 + c - 2>>
    BY <1>2, <2>1, Written DEF HeaderCell
  <2> QED
    BY <1>1, <2>1, <2>2
<1>4. ColoursRead(p, at)
  <2> SUFFICES ASSUME NEW r \in CalTop + 1 .. CalTop + 2, NEW i \in 0 .. 3, NEW dx \in 1 .. BarWidth - 2
               PROVE  Shown(p, at[Lo + i * BarWidth + dx], at[r]) = <<"colour", i>>
    BY Zenon DEF ColoursRead
  <2> DEFINE c == Lo + i * BarWidth + dx
  <2>1. r \in Module /\ c \in Module /\ r \in Int /\ r \in 12 .. 13 /\ c \in 2 .. 93
    BY Layout
  <2>2. (c - 2) \div 23 = i
    BY Layout
  <2> HIDE DEF c
  <2>3. Cell(p.length, r, c) = <<"colour", (c - 2) \div 23>>
    <3> DEFINE n == p.length
    <3>1. n \in Nat /\ r \in Int /\ c \in Int /\ r \in 12 .. 13 /\ c \in 2 .. 93
      BY <1>2, <2>1
    <3> HIDE DEF n
    <3>2. ColourCell(n, r, c)
      BY <3>1, Written
    <3>3. Cell(n, r, c) = <<"colour", (c - 2) \div 23>>
      BY <3>1, <3>2 DEF ColourCell
    <3> QED
      BY <3>3 DEF n
  <2>4. Shown(p, at[c], at[r]) = <<"colour", i>>
    BY <1>1, <2>1, <2>3, <2>2
  <2> QED
    BY <2>4 DEF c
<1>5. PayloadRead(p, at)
  <2> SUFFICES ASSUME NEW r \in PayTop .. PayEnd - 1, NEW c \in Lo .. Hi - 1
               PROVE  LET bit == (r - PayTop) * (Hi - Lo) + c - Lo
                      IN  bit < 4 * p.length => Shown(p, at[c], at[r]) = <<"data", bit>>
    BY DEF PayloadRead
  <2> DEFINE bit == (r - 17) * 92 + c - 2
  <2>1. r \in Module /\ c \in Module /\ r \in 17 .. 85 /\ c \in 2 .. 93 /\ r \in Int /\ c \in Int
    BY Layout
  <2>2. bit < 4 * p.length => Cell(p.length, r, c) = <<"data", bit>>
    <3> DEFINE n == p.length
    <3>1. n \in Nat /\ r \in Int /\ c \in Int /\ r \in 17 .. 85 /\ c \in 2 .. 93
      BY <1>2, <2>1
    <3> HIDE DEF n
    <3>2. DataCell(n, r, c)
      BY <3>1, Written
    <3>3. (r - 17) * 92 + c - 2 < 4 * n => Cell(n, r, c) = <<"data", (r - 17) * 92 + c - 2>>
      BY <3>1, <3>2 DEF DataCell
    <3> QED
      BY <3>3 DEF n
  <2>3. (r - PayTop) * (Hi - Lo) + c - Lo = bit
    BY Layout
  <2> HIDE DEF bit
  <2>4. bit < 4 * p.length => Shown(p, at[c], at[r]) = <<"data", bit>>
    BY <1>1, <2>1, <2>2
  <2> QED
    BY <2>3, <2>4
<1> QED
  BY <1>3, <1>4, <1>5

(* A decoder that reads the header has its first bit in row 15, column 2.   *)
LEMMA HeaderPlace ==
  ASSUME NEW p, IsPicture(p), NEW at, at[2] \in Int, at[15] \in Int, HeaderRead(p, at)
  PROVE  At(p, at[2]) = 2 /\ At(p, at[15]) = 15
<1>1. Shown(p, at[2], at[15]) = <<"header", 0>>
  <2>1. 15 \in HdrTop .. HdrTop + 1 /\ 2 \in FrameW .. FrameW + HdrWid - 1
    BY Layout
  <2>2. (15 - HdrTop) * HdrWid + 2 - FrameW = 0
    BY Layout
  <2> QED
    BY <2>1, <2>2 DEF HeaderRead
<1>2. Cell(p.length, At(p, at[15]), At(p, at[2])) = <<"header", 0>>
  BY <1>1, PixelShows
<1>3. At(p, at[15]) \in Int /\ At(p, at[2]) \in Int /\ p.length \in Nat
  BY PixelShows DEF IsPicture
<1> DEFINE r == At(p, at[15])
           c == At(p, at[2])
           n == p.length
<1>4. Cell(n, r, c) = <<"header", 0>> /\ n \in Nat /\ r \in Int /\ c \in Int
  BY <1>2, <1>3
<1> HIDE DEF r, c, n
<1>5. FirstBitOnly(n, r, c)
  BY <1>4, Written
<1>6. r = 15 /\ c = 2
  BY <1>4, <1>5 DEF FirstBitOnly
<1> QED
  BY <1>6 DEF r, c
(* The direct decoder: at the right scale it is wrong by as many modules as *)
(* the matrix begins late, everywhere.                                      *)
LEMMA DirectReads ==
  ASSUME NEW p, IsPicture(p), p.width \div ColorMatrixSize = p.scale
  PROVE  /\ HeaderRead(p, Direct(p)) => ColoursRead(p, Direct(p)) /\ PayloadRead(p, Direct(p))
         /\ p.before = 0 => HeaderRead(p, Direct(p))
<1> DEFINE s == p.scale
           b == p.before
           h == s \div 2
           d == (h - b) \div s
           at == Direct(p)
<1>1. s \in Nat \ {0} /\ b \in Nat
  BY DEF IsPicture
<1>2. h \in Nat /\ h < s
  <2> HIDE DEF s
  <2> QED
    BY <1>1
<1>3. at = [c \in Module |-> c * s + h]
  BY DEF Direct
<1> HIDE DEF s, b, h, at
<1>4. d \in Int /\ s * d <= h - b /\ h - b < s * d + s
  <2> DEFINE a == h - b
  <2>1. a \in Int
    BY <1>1, <1>2
  <2> HIDE DEF a
  <2>2. a \div s \in Int /\ s * (a \div s) <= a /\ a < s * (a \div s) + s
    BY <1>1, <2>1, Quotient
  <2> QED
    BY <2>2 DEF a
<1> HIDE DEF d
<1>5. ASSUME NEW c \in Module PROVE at[c] \in Int /\ At(p, at[c]) = c + d
  <2>1. c \in Nat
    BY Layout
  <2> DEFINE u == s * c
             v == s * d
             a == u + h - b
             q == c + d
  <2>2. u \in Int /\ v \in Int /\ a \in Int /\ q \in Int /\ at[c] = u + h
    BY <1>1, <1>2, <1>3, <1>4, <2>1
  <2>3. s * q = u + v
    BY <1>1, <1>4, <2>1
  <2>4. at[c] - b = a
    BY <1>1, <1>2, <2>2
  <2> HIDE DEF u
  <2>5. v <= h - b /\ h - b < v + s
    BY <1>4
  <2> HIDE DEF v
  <2>6. s * q <= a /\ a < s * q + s
    BY <1>1, <1>2, <2>2, <2>3, <2>5
  <2> HIDE DEF a, q
  <2>7. a \div s = q
    BY <1>1, <2>2, <2>6
  <2>8. At(p, at[c]) = q
    BY <2>4, <2>7 DEF At, s, b
  <2> QED
    BY <1>1, <1>2, <2>2, <2>8 DEF q, u
<1>6. ASSUME d = 0 PROVE HeaderRead(p, at) /\ ColoursRead(p, at) /\ PayloadRead(p, at)
  <2>1. \A c \in Module : at[c] \in Int /\ At(p, at[c]) = c
    BY <1>5, <1>6, Layout
  <2> QED
    BY <2>1, AllRead
<1>7. HeaderRead(p, at) => d = 0
  <2> SUFFICES ASSUME HeaderRead(p, at) PROVE d = 0
    OBVIOUS
  <2>1. at[2] \in Int /\ at[15] \in Int /\ At(p, at[2]) = 2 + d
    BY <1>5, Layout
  <2>2. At(p, at[2]) = 2
    BY <2>1, HeaderPlace
  <2> QED
    BY <1>4, <2>1, <2>2
<1>8. b = 0 => d = 0
  <2> SUFFICES ASSUME b = 0 PROVE d = 0
    OBVIOUS
  <2>1. s * d <= h /\ h < s * d + s
    BY <1>2, <1>4
  <2>2. d < 1
    <3> SUFFICES ASSUME d >= 1 PROVE FALSE
      BY <1>4
    <3>1. s * d >= s
      BY <1>1, <1>4
    <3> QED
      BY <1>1, <1>2, <1>4, <2>1, <3>1
  <2>3. d > -1
    <3> SUFFICES ASSUME d <= -1 PROVE FALSE
      BY <1>4
    <3>1. s * d <= -s
      BY <1>1, <1>4
    <3> QED
      BY <1>1, <1>2, <1>4, <2>1, <3>1
  <2> QED
    BY <1>4, <2>2, <2>3
<1> QED
  BY <1>6, <1>7, <1>8 DEF at, b

(* The decoder with the finders takes pixels for modules, so that it reads   *)
(* only what has one pixel to a module and no margin.                        *)
LEMMA FindersRead ==
  ASSUME NEW p, IsPicture(p), HeaderRead(p, ByFinders(p))
  PROVE  ColoursRead(p, ByFinders(p)) /\ PayloadRead(p, ByFinders(p))
<1> DEFINE s == p.scale
           b == p.before
           h == s \div 2
           at == ByFinders(p)
<1>1. s \in Nat \ {0} /\ b \in Nat
  BY DEF IsPicture
<1>2. h \in Nat /\ 2 * h <= s /\ (s = 1 => h = 0)
  <2> HIDE DEF s
  <2> QED
    BY <1>1
<1>3. at = [c \in Module |-> Round((c - (b + s * 6 + h)) * 83 + 6 * (83 * s), 83 * s)]
  <2>1. Centre(FinderOff) = 6 /\ Centre(PayEnd) = 89
    BY Layout DEF Centre, FinderOff, FinderSz
  <2>2. Found(p, FinderOff) = b + s * 6 + h /\ Found(p, PayEnd) = b + s * 89 + h
    BY <2>1 DEF Found
  <2>3. (b + s * 89 + h) - (b + s * 6 + h) = 83 * s
    <3> HIDE DEF s, b, h
    <3> QED
      BY <1>1, <1>2
  <2>4. 89 - 6 = 83
    OBVIOUS
  <2> HIDE DEF s, b, h
  <2> QED
    BY <2>1, <2>2, <2>3, <2>4 DEF ByFinders
<1> HIDE DEF s, b, h, at
<1>4. ASSUME NEW c \in Module
      PROVE  at[c] \in Int /\ 2 * (s * at[c]) <= 2 * (c - b - h) + s /\ 2 * (c - b - h) + s < 2 * (s * at[c]) + 2 * s
  <2>1. c \in Nat
    BY Layout
  <2> DEFINE n == 83 * (c - b - h)
             e == 83 * s
             a == 2 * n + e
             q == a \div (2 * e)
  <2>2. (c - (b + s * 6 + h)) * 83 + 6 * (83 * s) = n
    BY <1>1, <1>2, <2>1
  <2>3. at[c] = q
    BY <1>3, <2>2 DEF Round
  <2>4. a \in Int /\ 2 * e \in Nat \ {0}
    BY <1>1, <1>2, <2>1
  <2>5. q \in Int /\ (2 * e) * q <= a /\ a < (2 * e) * q + 2 * e
    <3> HIDE DEF a, e
    <3> QED
      BY <2>4, Quotient
  <2> HIDE DEF q
  <2>6. (2 * e) * q = 166 * (s * q)
    BY <1>1, <2>5
  <2> DEFINE u == s * q
  <2>7. u \in Int
    BY <1>1, <2>5
  <2>8. 166 * u <= a /\ a < 166 * u + 2 * e
    BY <2>5, <2>6
  <2> HIDE DEF u
  <2>9. 2 * u <= 2 * (c - b - h) + s /\ 2 * (c - b - h) + s < 2 * u + 2 * s
    BY <1>1, <1>2, <2>1, <2>7, <2>8
  <2> QED
    BY <2>3, <2>5, <2>9 DEF u
<1>5. at[2] \in Int /\ at[15] \in Int
  BY <1>4, Layout
<1>6. At(p, at[2]) = 2 /\ At(p, at[15]) = 15
  BY <1>5, HeaderPlace DEF at
<1> DEFINE x == at[2]
           y == at[15]
<1>7. /\ 2 * (s * x) <= 2 * (2 - b - h) + s /\ 2 * (2 - b - h) + s < 2 * (s * x) + 2 * s
      /\ 2 * (s * y) <= 2 * (15 - b - h) + s /\ 2 * (15 - b - h) + s < 2 * (s * y) + 2 * s
  BY <1>4, Layout
<1>8. s * 2 <= x - b /\ x - b < s * 2 + s /\ s * 15 <= y - b /\ y - b < s * 15 + s
  <2> DEFINE u == x - b
             v == y - b
  <2>1. u \in Int /\ v \in Int /\ u \div s = 2 /\ v \div s = 15
    BY <1>1, <1>5, <1>6 DEF At, s, b
  <2> HIDE DEF u, v
  <2>2. s * 2 <= u /\ u < s * 2 + s /\ s * 15 <= v /\ v < s * 15 + s
    BY <1>1, <2>1, Quotient
  <2> QED
    BY <2>2 DEF u, v
<1> HIDE DEF x, y
<1>9. x \in Int /\ y \in Int
  BY <1>5 DEF x, y
<1>10. s = 1
  <2>1. s * y - s * x < 13 + s
    <3> DEFINE u == s * x
               v == s * y
    <3>1. u \in Int /\ v \in Int
      BY <1>1, <1>9
    <3> HIDE DEF u, v
    <3>2. v - u < 13 + s
      BY <1>1, <1>2, <1>7, <3>1 DEF u, v
    <3> QED
      BY <3>2 DEF u, v
  <2>2. y - x >= 12 * s
    BY <1>1, <1>8, <1>9
  <2>3. s * (y - x) >= s * (12 * s)
    BY <1>1, <1>9, <2>2
  <2>4. s * (y - x) = s * y - s * x
    BY <1>1, <1>9
  <2>5. s * (12 * s) < 13 + s
    BY <1>1, <1>9, <2>1, <2>3, <2>4
  <2> QED
    BY <1>1, <2>5
<1>11. b = 0
  <2>1. h = 0 /\ 2 * x <= 2 * (2 - b) + 1 /\ 2 * (2 - b) + 1 < 2 * x + 2
    BY <1>1, <1>2, <1>7, <1>9, <1>10
  <2>2. x = 2 - b
    BY <1>1, <1>9, <2>1
  <2> QED
    BY <1>1, <1>8, <1>10, <2>2
<1>12. \A c \in Module : at[c] \in Int /\ At(p, at[c]) = c
  <2> SUFFICES ASSUME NEW c \in Module PROVE at[c] \in Int /\ At(p, at[c]) = c
    OBVIOUS
  <2> DEFINE z == at[c]
  <2>1. c \in Nat /\ z \in Int /\ 2 * z <= 2 * c + 1 /\ 2 * c + 1 < 2 * z + 2
    BY <1>2, <1>4, <1>10, <1>11, Layout
  <2> HIDE DEF z
  <2>2. z = c /\ (z - 0) \div 1 = c
    BY <2>1
  <2> QED
    BY <1>10, <1>11, <2>1, <2>2 DEF At, s, b, z
<1> QED
  BY <1>12, AllRead DEF at

\* What ColorMatrixDecode has made of the picture.
ColourInv ==
  /\ picture \in Pictures
  /\ \/ result = "none"
     \/ result = IF Decoded(picture, Direct(picture)) = "failed" THEN DecodedByFinders(picture)
                                                            ELSE Decoded(picture, Direct(picture))

(* At the right scale a picture is read or not, but never misread, and it   *)
(* is read when the matrix begins it: for every length of the payload, every *)
(* scale and every margin.                                                  *)
THEOREM ColoursAreRead == ColourSpec => []ColourReads
<1>1. ColourInit => ColourInv
  BY DEF ColourInit, ColourInv
<1>2. ColourInv /\ [ColourNext]_colourVars => ColourInv'
  BY DEF ColourInv, ColourNext, Decode, colourVars
<1>3. ColourInv => ColourReads
  <2> SUFFICES ASSUME ColourInv, picture.width \div ColorMatrixSize = picture.scale
               PROVE  result # "misread" /\ (picture.before = 0 => result \in {"none", "read"})
    BY DEF ColourReads
  <2>1. IsPicture(picture)
    <3>1. PICK n \in Length, l \in BOOLEAN, s \in Scale, b \in Before, e \in Behind :
            picture = [length |-> n, light |-> l, scale |-> s, before |-> b,
                       width |-> b + s * ColorMatrixSize + e]
      BY DEF ColourInv, Pictures
    <3>2. n \in Nat /\ s \in Nat \ {0} /\ b \in Nat /\ e \in Nat
      BY ColourAssumption
    <3>3. b + s * ColorMatrixSize + e \in Nat
      BY <3>2 DEF ColorMatrixSize
    <3> QED
      BY <3>1, <3>2, <3>3 DEF IsPicture
  <2>2. /\ Decoded(picture, Direct(picture)) \in {"failed", "read"}
        /\ picture.before = 0 => Decoded(picture, Direct(picture)) = "read"
    BY <2>1, DirectReads DEF Decoded
  <2>3. DecodedByFinders(picture) \in {"failed", "read"}
    BY <2>1, FindersRead DEF Decoded, DecodedByFinders
  <2> QED
    BY <2>2, <2>3 DEF ColourInv
<1> QED
  BY <1>1, <1>2, <1>3, PTL DEF ColourSpec
=============================================================================
