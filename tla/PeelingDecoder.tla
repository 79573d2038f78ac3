--------------------------- MODULE PeelingDecoder ---------------------------
(***************************************************************************)
(* decimen.LTDecoder: frames are XORs of source blocks; a frame with one   *)
(* unsolved block left solves it, and the solution is peeled off every     *)
(* frame still waiting for that block, which may solve the next.           *)
(*                                                                         *)
(* Contents are symbolic: the XOR of the blocks in a set is that set, and  *)
(* XOR itself the symmetric difference.  Word slices are shared by the     *)
(* code, so they are shared here: solved blocks and queue items refer to   *)
(* the buffer of the frame they came from.  A step of Resolve is one turn  *)
(* of resolve's loop; AddFrame is called again only when the loop is over. *)
(***************************************************************************)
EXTENDS Integers, FiniteSets

CONSTANTS
  Block,                     \* source blocks, K of them
  SeqNo,                     \* sequence numbers of frames
  Composition,               \* FrameComposition: the blocks of each frame
  None

ASSUME BlocksAssumption == IsFiniteSet(Block) /\ Block # {}
ASSUME CompositionAssumption == Composition \in [SeqNo -> (SUBSET Block) \ {{}}]
ASSUME NoneAssumption == None \notin SeqNo

K == Cardinality(Block)

VARIABLES
  seen,                      \* sequence numbers received
  buf,                       \* the word slice of each frame
  idx,                       \* PendingFrame.idx
  byBlock,                   \* the pending frames that wait for a block
  solved,                    \* the frame whose slice solved a block, or None
  solvedN,
  queue                      \* resolve's queue: a block, and the frame solving it

vars == <<seen, buf, idx, byBlock, solved, solvedN, queue>>

Solved == {b \in Block : solved[b] # None}
IsComplete == solvedN >= K

Xor(A, B) == (A \ B) \union (B \ A)
Odd(S) == Cardinality(S) % 2 = 1

\* The contents of a new frame after the solved blocks in it were XORed out.
Reduced(s) ==
  {e \in Block : e \in Composition[s]
     <=> ~Odd({b \in Composition[s] \intersect Solved : e \in buf[solved[b]]})}

Init ==
  /\ seen = {}
  /\ buf = [s \in SeqNo |-> {}]
  /\ idx = [s \in SeqNo |-> {}]
  /\ byBlock = [b \in Block |-> {}]
  /\ solved = [b \in Block |-> None]
  /\ solvedN = 0
  /\ queue = {}

-----------------------------------------------------------------------------
(* AddFrame.  A complete decoder, and a sequence number seen before, change *)
(* nothing.                                                                *)

Accepts(s) == queue = {} /\ ~IsComplete /\ s \notin seen

Unsolved(s) == Composition[s] \ Solved

\* Nothing new.
AddRedundant(s) ==
  /\ Accepts(s)
  /\ Unsolved(s) = {}
  /\ seen' = seen \union {s}
  /\ UNCHANGED <<buf, idx, byBlock, solved, solvedN, queue>>

\* One block is left: resolve starts.
AddSolving(s) ==
  /\ Accepts(s)
  /\ \E b \in Block : Unsolved(s) = {b} /\ queue' = {<<b, s>>}
  /\ seen' = seen \union {s}
  /\ buf' = [buf EXCEPT ![s] = Reduced(s)]
  /\ UNCHANGED <<idx, byBlock, solved, solvedN>>

\* A bug to be caught: the frame waits under the blocks it was sent with.
AddPendingUnreduced(s) ==
  /\ Accepts(s)
  /\ Unsolved(s) # {} /\ \A b \in Block : Unsolved(s) # {b}
  /\ seen' = seen \union {s}
  /\ buf' = [buf EXCEPT ![s] = Composition[s]]
  /\ idx' = [idx EXCEPT ![s] = Unsolved(s)]
  /\ byBlock' = [b \in Block |->
                   IF b \in Unsolved(s) THEN byBlock[b] \union {s} ELSE byBlock[b]]
  /\ UNCHANGED <<solved, solvedN, queue>>

\* Several are left: the frame waits for each of them.
AddPending(s) ==
  /\ Accepts(s)
  /\ Unsolved(s) # {} /\ \A b \in Block : Unsolved(s) # {b}
  /\ seen' = seen \union {s}
  /\ buf' = [buf EXCEPT ![s] = Reduced(s)]
  /\ idx' = [idx EXCEPT ![s] = Unsolved(s)]
  /\ byBlock' = [b \in Block |->
                   IF b \in Unsolved(s) THEN byBlock[b] \union {s} ELSE byBlock[b]]
  /\ UNCHANGED <<solved, solvedN, queue>>

-----------------------------------------------------------------------------
(* resolve.                                                                *)

\* A bug to be caught: the item is looked at again.
SkipKeeps(b, s) ==
  /\ <<b, s>> \in queue
  /\ solved[b] # None
  /\ UNCHANGED vars

\* The block was solved while this item was waiting.
Skip(b, s) ==
  /\ <<b, s>> \in queue
  /\ solved[b] # None
  /\ queue' = queue \ {<<b, s>>}
  /\ UNCHANGED <<seen, buf, idx, byBlock, solved, solvedN>>

\* The waiting frames that are left with block r alone once b is peeled off.
LeftWith(b, r) == {p \in byBlock[b] : idx[p] \ {b} = {r}}

Waiting(b, r) == IF r = b THEN {} ELSE byBlock[r] \ LeftWith(b, r)

\* A bug to be caught: a frame down to its last block is not queued.
NothingQueued(b) == {}
NewlyQueued(b) ==
  {i \in Block \X SeqNo : i[2] \in LeftWith(b, i[1]) /\ i[1] # b /\ solved[i[1]] = None}

\* A bug to be caught: a block that was queued twice is counted twice.
PeelAgain(b, s) ==
  /\ <<b, s>> \in queue
  /\ solved' = [solved EXCEPT ![b] = s]
  /\ solvedN' = solvedN + 1
  /\ buf' = [p \in SeqNo |-> IF p \in byBlock[b] THEN Xor(buf[p], buf[s]) ELSE buf[p]]
  /\ idx' = [p \in SeqNo |-> IF p \in byBlock[b] THEN idx[p] \ {b} ELSE idx[p]]
  /\ byBlock' = [r \in Block |-> Waiting(b, r)]
  /\ queue' = (queue \ {<<b, s>>}) \union NewlyQueued(b)
  /\ UNCHANGED seen

\* Block b is solved by the slice of frame s and peeled off.
Peel(b, s) ==
  /\ <<b, s>> \in queue
  /\ solved[b] = None
  /\ solved' = [solved EXCEPT ![b] = s]
  /\ solvedN' = solvedN + 1
  /\ buf' = [p \in SeqNo |-> IF p \in byBlock[b] THEN Xor(buf[p], buf[s]) ELSE buf[p]]
  /\ idx' = [p \in SeqNo |-> IF p \in byBlock[b] THEN idx[p] \ {b} ELSE idx[p]]
  /\ byBlock' = [r \in Block |-> Waiting(b, r)]
  /\ queue' = (queue \ {<<b, s>>}) \union NewlyQueued(b)
  /\ UNCHANGED seen

Resolve == \E b \in Block, s \in SeqNo : Skip(b, s) \/ Peel(b, s)

Next ==
  \/ \E s \in SeqNo : AddRedundant(s) \/ AddSolving(s) \/ AddPending(s)
  \/ Resolve

Spec == Init /\ [][Next]_vars

\* A loop that can go on does.
FairSpec == Spec /\ WF_vars(Resolve)

-----------------------------------------------------------------------------
(* Properties.                                                             *)

Pending == {s \in SeqNo : \E b \in Block : s \in byBlock[b]}

TypeOK ==
  /\ seen \subseteq SeqNo
  /\ buf \in [SeqNo -> SUBSET Block]
  /\ idx \in [SeqNo -> SUBSET Block]
  /\ byBlock \in [Block -> SUBSET SeqNo]
  /\ solved \in [Block -> SeqNo \union {None}]
  /\ solvedN \in 0 .. K
  /\ queue \subseteq Block \X SeqNo

(* Every solved block holds the sender's block, although the slice it      *)
(* refers to was XORed into before and waited in a list.                   *)
SolvedRight == \A b \in Solved : buf[solved[b]] = {b}

(* A decoder that says it is complete holds every block.                   *)
CompleteHoldsAll == IsComplete => \A b \in Block : solved[b] # None /\ buf[solved[b]] = {b}

(* Nothing solvable is left lying: when resolve is done, no frame that was *)
(* received misses exactly one block.                                      *)
PeelingExhausted ==
  queue = {} => \A s \in seen : \A b \in Block : Unsolved(s) # {b}

(* resolve returns.                                                        *)
ResolveReturns == [](queue # {} => <>(queue = {}))

-----------------------------------------------------------------------------
(* The inductive invariant.                                                *)

CountOK == solvedN = Cardinality(Solved)

\* A waiting frame is listed under exactly its unsolved blocks, two at least,
\* and its slice is their XOR.
PendingOK ==
  \A s \in Pending :
    /\ s \in seen
    /\ idx[s] = Unsolved(s) /\ buf[s] = idx[s]
    /\ \A b \in Block : s \in byBlock[b] <=> b \in idx[s]
    /\ \A b \in Block : idx[s] # {b}

\* A queued slice is the block it solves, and nothing writes to it any more.
QueueOK ==
  \A i \in queue : buf[i[2]] = {i[1]} /\ i[2] \notin Pending /\ i[2] \in seen

SolvedOK ==
  \A b \in Solved : buf[solved[b]] = {b} /\ solved[b] \notin Pending /\ solved[b] \in seen

\* A frame that waits no more is used up, or about to be.
SeenOK ==
  \A s \in seen : s \in Pending \/ \A b \in Unsolved(s) : <<b, s>> \in queue

PeelInv == TypeOK /\ CountOK /\ PendingOK /\ QueueOK /\ SolvedOK /\ SeenOK
=============================================================================
