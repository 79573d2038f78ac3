----------------------- MODULE SenderSessionsProofs -----------------------
(***************************************************************************)
(* SessionsInv is an inductive invariant of SenderSessions, whatever the   *)
(* limits, the number of handlers and the size of memory, and with it the  *)
(* sender keeps to its limits and to its word.                             *)
(***************************************************************************)
EXTENDS SenderSessions, TLAPS, FiniteSetTheorems, SequenceTheorems

-----------------------------------------------------------------------------
(* Buffers and the lists of PNGs.                                          *)

(* Parts of memory have sizes, which union adds up at most.                *)
LEMMA Sizes ==
  ASSUME NEW A \in SUBSET Byte, NEW B \in SUBSET Byte
  PROVE  /\ IsFiniteSet(A) /\ Cardinality(A) \in Nat
         /\ A \subseteq B => Cardinality(A) <= Cardinality(B)
         /\ Cardinality(A \union B) <= Cardinality(A) + Cardinality(B)
<1>1. IsFiniteSet(A) /\ IsFiniteSet(B)
  BY SessionsAssumption, FS_Subset
<1>2. Cardinality(A) \in Nat /\ Cardinality(B) \in Nat
  BY <1>1, FS_CardinalityType
<1>3. A \subseteq B => Cardinality(A) <= Cardinality(B)
  BY <1>1, FS_Subset
<1>4. IsFiniteSet(A \intersect B) /\ Cardinality(A \intersect B) \in Nat
  <2>1. A \intersect B \in SUBSET A
    OBVIOUS
  <2> QED
    BY <1>1, <2>1, FS_Subset, FS_CardinalityType
<1>5. Cardinality(A \union B)
        = Cardinality(A) + Cardinality(B) - Cardinality(A \intersect B)
  BY <1>1, FS_Union
<1> QED
  BY <1>1, <1>2, <1>3, <1>4, <1>5

(* Everything the sessions hold is memory.                                 *)
LEMMA Parts ==
  ASSUME TypeOK
  PROVE  /\ \A s \in Id : PNGs(s) \in SUBSET Byte /\ Buffers(s) \in SUBSET Byte
         /\ Held \in SUBSET Byte /\ RawHeld \in SUBSET Byte /\ RawHeld \subseteq Held
         /\ sessions \subseteq Id
BY DEF TypeOK, PNGs, Buffers, Held, RawHeld

(* Without its oldest entry, a list names the others, still once each.     *)
LEMMA Popped ==
  ASSUME NEW q \in Seq(Index), q # << >>, IsInjective(q)
  PROVE  /\ Head(q) \in Index /\ Tail(q) \in Seq(Index)
         /\ Range(Tail(q)) = Range(q) \ {Head(q)} /\ IsInjective(Tail(q))
<1>1. /\ Len(q) \in Nat \ {0} /\ DOMAIN q = 1 .. Len(q)
      /\ \A n \in 1 .. Len(q) : q[n] \in Index
  BY EmptySeq, LenProperties, ElementOfSeq
<1>2. /\ Head(q) = q[1] /\ Tail(q) \in Seq(Index) /\ Len(Tail(q)) = Len(q) - 1
      /\ DOMAIN Tail(q) = 1 .. Len(q) - 1
      /\ \A n \in 1 .. Len(q) - 1 : Tail(q)[n] = q[n + 1]
  BY <1>1, HeadTailProperties, LenProperties
<1>3. \A m, n \in 1 .. Len(q) : q[m] = q[n] => m = n
  BY <1>1 DEF IsInjective
<1>4. \A n \in 1 .. Len(q) - 1 : n + 1 \in 1 .. Len(q) /\ n + 1 # 1
  BY <1>1
<1>5. IsInjective(Tail(q))
  BY <1>2, <1>3, <1>4 DEF IsInjective
<1>6. ASSUME NEW i \in Range(q) \ {Head(q)}
      PROVE  i \in Range(Tail(q))
  <2>1. PICK n \in 1 .. Len(q) : q[n] = i
    BY <1>1, <1>6 DEF Range
  <2>2. n - 1 \in 1 .. Len(q) - 1 /\ n = (n - 1) + 1
    BY <1>1, <1>2, <1>6, <2>1
  <2> QED
    BY <1>2, <2>1, <2>2 DEF Range
<1>7. ASSUME NEW i \in Range(Tail(q))
      PROVE  i \in Range(q) \ {Head(q)}
  <2>1. PICK n \in 1 .. Len(q) - 1 : q[n + 1] = i
    BY <1>2, <1>7 DEF Range
  <2> QED
    BY <1>1, <1>2, <1>3, <1>4, <2>1 DEF Range
<1> QED
  BY <1>1, <1>2, <1>5, <1>6, <1>7

(* A new entry at the end of a list keeps it free of repetitions.          *)
LEMMA Appended ==
  ASSUME NEW q \in Seq(Index), IsInjective(q), NEW i \in Index \ Range(q)
  PROVE  /\ Append(q, i) \in Seq(Index)
         /\ Range(Append(q, i)) = Range(q) \union {i} /\ IsInjective(Append(q, i))
<1>1. Len(q) \in Nat /\ DOMAIN q = 1 .. Len(q)
  BY LenProperties
<1>2. /\ Append(q, i) \in Seq(Index) /\ DOMAIN Append(q, i) = 1 .. Len(q) + 1
      /\ Append(q, i)[Len(q) + 1] = i
      /\ \A n \in 1 .. Len(q) : Append(q, i)[n] = q[n]
  BY <1>1, AppendProperties, LenProperties
<1>3. \A n \in 1 .. Len(q) + 1 : n \in 1 .. Len(q) \/ n = Len(q) + 1
  BY <1>1
<1>4. Range(Append(q, i)) = Range(q) \union {i}
  BY <1>1, <1>2, <1>3 DEF Range
<1>5. IsInjective(Append(q, i))
  BY <1>1, <1>2, <1>3 DEF IsInjective, Range
<1> QED
  BY <1>2, <1>4, <1>5

(* initCache's list.                                                       *)
LEMMA Initial ==
  ASSUME NEW n \in Nat, n <= FrameCount
  PROVE  /\ InitOrder(n) \in Seq(Index)
         /\ Range(InitOrder(n)) = 1 .. n /\ IsInjective(InitOrder(n))
<1>1. InitOrder(n) \in [1 .. n -> Index]
  BY SessionsAssumption DEF InitOrder, Index
<1>2. InitOrder(n) \in Seq(Index)
  BY <1>1, SeqDef
<1> QED
  BY <1>2 DEF InitOrder, Range, IsInjective

-----------------------------------------------------------------------------
(* The server starts with no session and nothing in memory.                *)
LEMMA InitInv == Init => SessionsInv
<1> SUFFICES ASSUME Init PROVE SessionsInv
  OBVIOUS
<1> USE DEF Init
<1>1. \A s \in Id : PNGs(s) = {} /\ Buffers(s) = {}
  BY DEF PNGs, Buffers, NoPNG
<1>2. Held = {} /\ RawHeld = {} /\ Retained = 0
  BY FS_EmptySet DEF Held, RawHeld, Retained
<1>3. TypeOK
  BY SessionsAssumption, EmptySeq DEF TypeOK, Free, NoPNG
<1>4. SlotOK /\ PromiseOK /\ MuOK /\ PendingOK /\ FreshOK
  BY <1>1, SessionsAssumption DEF SlotOK, PromiseOK, MuOK, PendingOK, FreshOK, Free
<1>5. ListedOK
  <2>1. Range(<< >>) = {} /\ IsInjective(<< >>)
    BY DEF Range, IsInjective
  <2> QED
    BY <2>1 DEF ListedOK, ListedOnce, NoPNG
<1>6. SessionsBounded /\ MemoryBounded
  BY <1>2, FS_EmptySet, SessionsAssumption DEF SessionsBounded, MemoryBounded
<1> QED
  BY <1>3, <1>4, <1>5, <1>6 DEF SessionsInv

(* A step that leaves sessions and their memory alone leaves alone what is *)
(* computed from them.                                                     *)
LEMMA SameMemory ==
  ASSUME UNCHANGED memory
  PROVE  /\ Held' = Held /\ RawHeld' = RawHeld /\ Retained' = Retained
         /\ \A s \in Id : PNGs(s)' = PNGs(s) /\ Buffers(s)' = Buffers(s)
         /\ ListedOK => ListedOK'
         /\ SessionsBounded => SessionsBounded'
         /\ MemoryBounded => MemoryBounded'
<1> USE DEF memory
<1>1. \A s : PNGs(s)' = PNGs(s) /\ Buffers(s)' = Buffers(s)
  BY DEF PNGs, Buffers
<1>2. Held' = Held /\ RawHeld' = RawHeld
  BY <1>1 DEF Held, RawHeld
<1>3. Retained' = Retained
  BY <1>2 DEF Retained
<1> QED
  BY <1>1, <1>2, <1>3 DEF ListedOK, ListedOnce, SessionsBounded, MemoryBounded

-----------------------------------------------------------------------------
(* Handlers.                                                               *)

(* Admission to the slot: the promise holds when it is made.               *)
LEMMA EncodeInv ==
  ASSUME SessionsInv, NEW h \in Handler, Encode(h)
  PROVE  SessionsInv'
<1> USE DEF SessionsInv, Encode
<1>1. Retained \in Nat /\ Cardinality(RawHeld) \in Nat /\ Cardinality(RawHeld) <= Retained
  BY Parts, Sizes DEF Retained
<1>2. Budget \in 1 .. MaxSessionBytes
      /\ Cardinality(RawHeld) + Budget <= MaxSessionBytes
  BY <1>1, SessionsAssumption DEF Budget, Room
<1>3. UNCHANGED memory /\ RawHeld' = RawHeld
  BY SameMemory
<1>4. TypeOK'
  BY <1>2 DEF TypeOK, memory
<1>5. SlotOK'
  BY SessionsAssumption DEF SlotOK, SlotFree, TypeOK
<1>6. PromiseOK'
  <2>1. \A g \in Handler : handler'[g].pc = "encoding" => g = h
    BY SessionsAssumption DEF SlotOK, SlotFree, TypeOK
  <2>2. handler'[h].budget = Budget
    BY DEF TypeOK
  <2> QED
    BY <1>2, <1>3, <2>1, <2>2 DEF PromiseOK, Room, memory
<1>7. MuOK' /\ PendingOK' /\ FreshOK'
  BY <1>3, SameMemory DEF MuOK, PendingOK, FreshOK, Free, memory
<1> QED
  BY <1>3, <1>4, <1>5, <1>6, <1>7, SameMemory

(* /md5 takes the slot and touches no session.                             *)
LEMMA MD5Inv ==
  ASSUME SessionsInv, NEW h \in Handler, MD5(h)
  PROVE  SessionsInv'
<1> USE DEF SessionsInv, MD5
<1>1. UNCHANGED memory /\ RawHeld' = RawHeld
  BY SameMemory
<1>2. TypeOK'
  BY DEF TypeOK, memory
<1>3. SlotOK'
  BY SessionsAssumption DEF SlotOK, SlotFree, TypeOK
<1>4. PromiseOK'
  BY <1>1 DEF PromiseOK, TypeOK, memory
<1>5. MuOK' /\ PendingOK' /\ FreshOK'
  <2>1. \A g \in Handler : handler[g].pc = "encoding" => handler'[g] = handler[g]
    BY DEF TypeOK
  <2>2. \A s \in Id : PNGs(s)' = PNGs(s) /\ Buffers(s)' = Buffers(s)
    BY <1>1, SameMemory
  <2>3. mu.op = "admit" => mu.id \in Id
    BY DEF MuOK, TypeOK
  <2> QED
    BY <1>1, <2>1, <2>2, <2>3 DEF MuOK, PendingOK, FreshOK, memory
<1> QED
  BY <1>1, <1>2, <1>3, <1>4, <1>5, SameMemory

(* However handleEncode or handleMD5 ends, it gives the slot back.         *)
LEMMA ReturnInv ==
  ASSUME SessionsInv, NEW h \in Handler, Return(h)
  PROVE  SessionsInv'
<1> USE DEF SessionsInv, Return
<1>1. UNCHANGED memory /\ RawHeld' = RawHeld
  BY SameMemory
<1>2. TypeOK'
  BY SessionsAssumption DEF TypeOK, memory
<1>3. SlotOK'
  BY SessionsAssumption DEF SlotOK, TypeOK
<1>4. PromiseOK'
  BY <1>1 DEF PromiseOK, TypeOK, memory
<1>5. MuOK' /\ PendingOK' /\ FreshOK'
  <2>1. mu.op = "admit" => handler'[mu.by] = handler[mu.by]
    BY DEF TypeOK, MuOK
  <2>2. \A s \in Id : PNGs(s)' = PNGs(s) /\ Buffers(s)' = Buffers(s)
    BY <1>1, SameMemory
  <2>3. mu.op = "admit" => mu.id \in Id
    BY DEF MuOK, TypeOK
  <2> QED
    BY <1>1, <2>1, <2>2, <2>3 DEF MuOK, PendingOK, FreshOK, memory
<1> QED
  BY <1>1, <1>2, <1>3, <1>4, <1>5, SameMemory

(* Writing the buffers of an id that is in no session changes nothing that *)
(* is computed from the sessions.                                          *)
LEMMA Elsewhere ==
  ASSUME TypeOK, sessions' = sessions, NEW id \in Id \ sessions,
         \A s \in Id \ {id} : raw'[s] = raw[s] /\ pngs'[s] = pngs[s] /\ order'[s] = order[s]
  PROVE  /\ Held' = Held /\ RawHeld' = RawHeld /\ Retained' = Retained
         /\ \A s \in Id \ {id} : PNGs(s)' = PNGs(s) /\ Buffers(s)' = Buffers(s)
         /\ SessionsBounded => SessionsBounded'
         /\ MemoryBounded => MemoryBounded'
<1>1. sessions \subseteq Id \ {id}
  BY DEF TypeOK
<1>2. \A s \in Id \ {id} : PNGs(s)' = PNGs(s) /\ Buffers(s)' = Buffers(s)
  BY DEF PNGs, Buffers
<1>3. Held' = Held /\ RawHeld' = RawHeld
  BY <1>1, <1>2 DEF Held, RawHeld
<1>4. Retained' = Retained
  BY <1>3 DEF Retained
<1> QED
  BY <1>1, <1>2, <1>3, <1>4 DEF SessionsBounded, MemoryBounded

(* The worker's session fits in what was promised to its handler.          *)
LEMMA WorkerDoneInv ==
  ASSUME SessionsInv, NEW h \in Handler, WorkerDone(h)
  PROVE  SessionsInv'
<1> USE DEF SessionsInv
<1>1. PICK id \in Id \ used, warm \in {InitialFrames, FrameCount}, all \in Alloc(Unused) :
        \E part \in [all -> 0 .. warm] :
          LET Part(k) == {b \in all : part[b] = k}
          IN  /\ all \subseteq Unused /\ Cardinality(all) <= handler[h].budget
              /\ Cardinality(all \ Part(0)) <= MaxPNGCacheBytes
              /\ \A k \in 0 .. warm : Part(k) # {}
              /\ used' = used \union {id}
              /\ raw' = [raw EXCEPT ![id] = Part(0)]
              /\ pngs' = [pngs EXCEPT ![id] = [i \in Index |-> IF i <= warm THEN Part(i) ELSE {}]]
              /\ order' = [order EXCEPT ![id] = InitOrder(warm)]
              /\ mu' = [Free EXCEPT !.op = "admit", !.by = h, !.id = id]
  BY DEF WorkerDone
<1>2. PICK part \in [all -> 0 .. warm] :
        LET Part(k) == {b \in all : part[b] = k}
        IN  /\ all \subseteq Unused /\ Cardinality(all) <= handler[h].budget
            /\ Cardinality(all \ Part(0)) <= MaxPNGCacheBytes
            /\ \A k \in 0 .. warm : Part(k) # {}
            /\ used' = used \union {id}
            /\ raw' = [raw EXCEPT ![id] = Part(0)]
            /\ pngs' = [pngs EXCEPT ![id] = [i \in Index |-> IF i <= warm THEN Part(i) ELSE {}]]
            /\ order' = [order EXCEPT ![id] = InitOrder(warm)]
            /\ mu' = [Free EXCEPT !.op = "admit", !.by = h, !.id = id]
  BY <1>1
<1> DEFINE Part(k) == {b \in all : part[b] = k}
<1>3. /\ all \subseteq Byte /\ Cardinality(all) <= handler[h].budget
      /\ Cardinality(all \ Part(0)) <= MaxPNGCacheBytes
      /\ \A k \in 0 .. warm : Part(k) # {}
      /\ used' = used \union {id}
      /\ raw' = [raw EXCEPT ![id] = Part(0)]
      /\ pngs' = [pngs EXCEPT ![id] = [i \in Index |-> IF i <= warm THEN Part(i) ELSE {}]]
      /\ order' = [order EXCEPT ![id] = InitOrder(warm)]
      /\ mu' = [Free EXCEPT !.op = "admit", !.by = h, !.id = id]
  BY <1>2 DEF Unused
<1>4. /\ mu' = [op |-> "admit", by |-> h, id |-> id, index |-> 0, png |-> {}]
      /\ mu = Free /\ handler[h].pc = "encoding"
      /\ UNCHANGED <<slot, handler, sessions, pending>>
  BY <1>3 DEF WorkerDone, Free
<1>5. warm \in Nat /\ warm <= FrameCount
  BY SessionsAssumption
<1>6. id \in Id \ sessions /\ sessions' = sessions
      /\ \A s \in Id \ {id} : raw'[s] = raw[s] /\ pngs'[s] = pngs[s] /\ order'[s] = order[s]
  BY <1>3, <1>4 DEF TypeOK
<1> HIDE DEF Part
<1>7. /\ raw'[id] = Part(0)
      /\ pngs'[id] = [i \in Index |-> IF i <= warm THEN Part(i) ELSE {}]
      /\ order'[id] = InitOrder(warm)
  BY <1>3 DEF TypeOK
<1>8. \A k : Part(k) \in SUBSET Byte
  BY <1>3 DEF Part
<1>9. /\ PNGs(id)' \subseteq all \ Part(0) /\ Buffers(id)' \subseteq all
  BY <1>7 DEF PNGs, Buffers, Index, Part
<1>10. /\ Cardinality(PNGs(id)') <= MaxPNGCacheBytes
       /\ Cardinality(Buffers(id)') <= handler[h].budget
  <2>1. PNGs(id)' \in SUBSET Byte /\ Buffers(id)' \in SUBSET Byte
        /\ all \in SUBSET Byte /\ all \ Part(0) \in SUBSET Byte
    BY <1>3, <1>9
  <2>2. /\ Cardinality(PNGs(id)') <= Cardinality(all \ Part(0))
        /\ Cardinality(Buffers(id)') <= Cardinality(all)
    BY <1>9, <2>1, Sizes
  <2>3. /\ Cardinality(PNGs(id)') \in Nat /\ Cardinality(all \ Part(0)) \in Nat
        /\ Cardinality(Buffers(id)') \in Nat /\ Cardinality(all) \in Nat
    BY <2>1, Sizes
  <2> QED
    BY <1>3, <2>2, <2>3, SessionsAssumption DEF TypeOK
<1>11. TypeOK'
  <2>1. InitOrder(warm) \in Seq(Index)
    BY <1>5, Initial
  <2>2. [i \in Index |-> IF i <= warm THEN Part(i) ELSE {}] \in [Index -> SUBSET Byte]
    BY <1>8
  <2>3. raw' \in [Id -> SUBSET Byte] /\ pngs' \in [Id -> [Index -> SUBSET Byte]]
        /\ order' \in [Id -> Seq(Index)]
    BY <1>3, <1>8, <2>1, <2>2 DEF TypeOK
  <2>4. mu' \in [op : {"free", "admit", "store"}, by : Handler \union {None},
                 id : Id \union {None}, index : 0 .. FrameCount, png : SUBSET Byte]
    BY <1>4, SessionsAssumption
  <2>5. used' \subseteq Id /\ sessions' \subseteq used'
    BY <1>3, <1>4 DEF TypeOK
  <2> QED
    BY <1>4, <2>3, <2>4, <2>5 DEF TypeOK
<1>12. SlotOK' /\ PromiseOK'
  BY <1>4, <1>6, Elsewhere DEF SlotOK, PromiseOK
<1>13. MuOK'
  <2>1. id \in used' \ sessions'
    BY <1>1, <1>3, <1>4 DEF TypeOK
  <2>2. mu'.op = "admit" /\ mu'.by = h /\ mu'.id = id /\ mu'.png = {}
    BY <1>4
  <2>3. /\ Cardinality(Buffers(mu.id)') = Cardinality(Buffers(id)')
        /\ Cardinality(PNGs(mu.id)') = Cardinality(PNGs(id)')
    BY <2>2 DEF Buffers, PNGs
  <2> QED
    BY <1>4, <1>10, <2>1, <2>2, <2>3 DEF MuOK
<1>14. PendingOK'
  <2>1. \A s \in Id : \A i \in pending'[s] : s # id /\ s \in used /\ pngs[s][i] = {}
    BY <1>4 DEF PendingOK
  <2> QED
    BY <1>3, <1>6, <2>1 DEF PendingOK
<1>15. ListedOK'
  <2>1. ASSUME NEW s \in Id \ {id} PROVE ListedOnce(s)'
    BY <1>6 DEF ListedOK, ListedOnce
  <2>2. Range(order'[id]) = 1 .. warm /\ IsInjective(order'[id])
    BY <1>5, <1>7, Initial
  <2>3. {i \in Index : pngs'[id][i] # {}} = 1 .. warm
    <3>1. \A i \in 1 .. warm : Part(i) # {}
      <4>1. \A i \in 1 .. warm : i \in 0 .. warm
        OBVIOUS
      <4> QED
        BY <1>3, <4>1
    <3>2. 1 .. warm \subseteq Index
      BY <1>5, SessionsAssumption DEF Index
    <3>3. \A i \in Index : i <= warm <=> i \in 1 .. warm
      BY <1>5, SessionsAssumption DEF Index
    <3> QED
      BY <1>7, <3>1, <3>2, <3>3
  <2> QED
    BY <2>1, <2>2, <2>3 DEF ListedOK, ListedOnce
<1>16. FreshOK'
  BY <1>3, <1>6, Elsewhere DEF FreshOK
<1> QED
  BY <1>6, <1>11, <1>12, <1>13, <1>14, <1>15, <1>16, Elsewhere

-----------------------------------------------------------------------------
(* Evictions and deletions.                                                *)

(* A step after which the sessions are fewer or hold less keeps them within *)
(* the limits, and the promises good.                                       *)
LEMMA Shrunk ==
  ASSUME TypeOK, TypeOK', sessions' \subseteq sessions,
         \A s \in sessions' : raw'[s] \subseteq raw[s],
         \A s \in sessions' : \A i \in Index : pngs'[s][i] \subseteq pngs[s][i]
  PROVE  /\ SessionsBounded => SessionsBounded'
         /\ MemoryBounded => MemoryBounded'
         /\ handler' = handler /\ PromiseOK => PromiseOK'
<1>1. \A s \in sessions' : PNGs(s)' \subseteq PNGs(s) /\ Buffers(s)' \subseteq Buffers(s)
  BY DEF PNGs, Buffers
<1>2. Held' \subseteq Held /\ RawHeld' \subseteq RawHeld
  BY <1>1 DEF Held, RawHeld
<1>3. Held' \in SUBSET Byte /\ RawHeld' \in SUBSET Byte
      /\ \A s \in sessions' : PNGs(s)' \in SUBSET Byte
  BY <1>1, <1>2, Parts
<1>4. Cardinality(Held') <= Cardinality(Held) /\ Cardinality(Held') \in Nat
      /\ Cardinality(Held) \in Nat
  BY <1>2, <1>3, Sizes, Parts
<1>5. Cardinality(RawHeld') <= Cardinality(RawHeld) /\ Cardinality(RawHeld') \in Nat
      /\ Cardinality(RawHeld) \in Nat
  BY <1>2, <1>3, Sizes, Parts
<1>6. \A s \in sessions' : /\ Cardinality(PNGs(s)') <= Cardinality(PNGs(s))
                           /\ Cardinality(PNGs(s)') \in Nat /\ Cardinality(PNGs(s)) \in Nat
  BY <1>1, <1>3, Sizes, Parts
<1>7. /\ Cardinality(sessions') <= Cardinality(sessions)
      /\ Cardinality(sessions') \in Nat /\ Cardinality(sessions) \in Nat
  <2>1. IsFiniteSet(sessions) /\ IsFiniteSet(sessions')
    BY SessionsAssumption, FS_Subset DEF TypeOK
  <2> QED
    BY <2>1, FS_Subset, FS_CardinalityType
<1>8. SessionsBounded => SessionsBounded'
  BY <1>7, SessionsAssumption DEF SessionsBounded
<1>9. MemoryBounded => MemoryBounded'
  <2>1. Held' = (Held)' /\ Retained' = Cardinality(Held') /\ Retained = Cardinality(Held)
    BY DEF Retained
  <2>2. Retained <= MaxSessionBytes => Retained' <= MaxSessionBytes
    BY <1>4, <2>1, SessionsAssumption
  <2>3. \A s \in sessions' : Cardinality(PNGs(s)) <= MaxPNGCacheBytes
                              => Cardinality(PNGs(s)') <= MaxPNGCacheBytes
    BY <1>6, SessionsAssumption
  <2> QED
    BY <2>2, <2>3 DEF MemoryBounded
<1>10. handler' = handler /\ PromiseOK => PromiseOK'
  <2> SUFFICES ASSUME handler' = handler, PromiseOK,
                      NEW h \in Handler, handler[h].pc = "encoding"
               PROVE  /\ Cardinality(sessions') < MaxActiveSessions
                      /\ Cardinality(RawHeld') + handler[h].budget <= MaxSessionBytes
    BY DEF PromiseOK
  <2>1. /\ Cardinality(sessions) < MaxActiveSessions
        /\ Cardinality(RawHeld) + handler[h].budget <= MaxSessionBytes
    BY DEF PromiseOK
  <2>2. handler[h].budget \in Nat
    BY SessionsAssumption DEF TypeOK
  <2> QED
    BY <1>5, <1>7, <2>1, <2>2, SessionsAssumption
<1> QED
  BY <1>8, <1>9, <1>10

(* evictPNG drops a PNG and its entry together.                            *)
LEMMA EvictInv ==
  ASSUME SessionsInv, NEW s \in sessions, Evict(s)
  PROVE  SessionsInv'
<1> USE DEF SessionsInv
<1> DEFINE i == Head(order[s])
<1>1. /\ s \in Id /\ order[s] \in Seq(Index) /\ order[s] # << >> /\ IsInjective(order[s])
      /\ Range(order[s]) = {j \in Index : pngs[s][j] # {}}
  BY DEF Evict, TypeOK, ListedOK, ListedOnce
<1>2. /\ i \in Index /\ Tail(order[s]) \in Seq(Index)
      /\ Range(Tail(order[s])) = Range(order[s]) \ {i} /\ IsInjective(Tail(order[s]))
  BY <1>1, Popped
<1> HIDE DEF i
<1>3. /\ pngs' = [pngs EXCEPT ![s][i] = {}]
      /\ order' = [order EXCEPT ![s] = Tail(order[s])]
      /\ UNCHANGED <<slot, handler, used, sessions, raw, pending, mu>>
  BY DEF Evict, i
<1>4. /\ pngs'[s] = [pngs[s] EXCEPT ![i] = {}] /\ order'[s] = Tail(order[s])
      /\ \A t \in Id \ {s} : pngs'[t] = pngs[t] /\ order'[t] = order[t]
      /\ \A t \in Id, j \in Index : pngs'[t][j] \subseteq pngs[t][j]
  BY <1>1, <1>2, <1>3 DEF TypeOK
<1>5. TypeOK'
  <2>1. pngs' \in [Id -> [Index -> SUBSET Byte]] /\ order' \in [Id -> Seq(Index)]
    BY <1>1, <1>2, <1>3 DEF TypeOK
  <2> QED
    BY <1>3, <2>1 DEF TypeOK
<1>6. SlotOK' /\ PromiseOK' /\ SessionsBounded' /\ MemoryBounded'
  <2>1. \A t \in sessions' : raw'[t] \subseteq raw[t]
    BY <1>3
  <2>2. \A t \in sessions' : \A j \in Index : pngs'[t][j] \subseteq pngs[t][j]
    BY <1>3, <1>4 DEF TypeOK
  <2>3. SlotOK'
    BY <1>3 DEF SlotOK
  <2> QED
    BY <1>3, <1>5, <2>1, <2>2, <2>3, Shrunk
<1>7. MuOK'
  <2>1. ASSUME mu.op = "admit"
        PROVE  PNGs(mu.id)' = PNGs(mu.id) /\ Buffers(mu.id)' = Buffers(mu.id)
    <3>1. mu.id \in Id \ {s} /\ mu' = mu
      BY <1>3, <2>1 DEF MuOK, TypeOK
    <3> QED
      BY <1>3, <1>4, <3>1 DEF PNGs, Buffers
  <2> QED
    BY <1>3, <2>1 DEF MuOK
<1>8. PendingOK'
  <2>1. \A t \in Id : \A j \in pending[t] : j \in Index
    BY DEF TypeOK
  <2> QED
    BY <1>3, <1>4, <2>1 DEF PendingOK
<1>9. ListedOK'
  <2>1. ASSUME NEW t \in Id \ {s} PROVE ListedOnce(t)'
    BY <1>4 DEF ListedOK, ListedOnce
  <2>2. {j \in Index : pngs'[s][j] # {}} = {j \in Index : pngs[s][j] # {}} \ {i}
    BY <1>1, <1>2, <1>4 DEF TypeOK
  <2>3. ListedOnce(s)'
    <3>1. Range(order'[s]) = {j \in Index : pngs'[s][j] # {}}
      BY <1>1, <1>2, <1>4, <2>2
    <3> QED
      BY <1>2, <1>4, <3>1 DEF ListedOnce
  <2> QED
    BY <2>1, <2>3 DEF ListedOK
<1>10. FreshOK'
  <2>1. \A t \in Id \ used : t # s
    BY DEF TypeOK
  <2>2. \A t \in Id \ {s} : Buffers(t)' = Buffers(t)
    BY <1>3, <1>4 DEF Buffers, PNGs
  <2> QED
    BY <1>3, <2>1, <2>2 DEF FreshOK
<1> QED
  BY <1>5, <1>6, <1>7, <1>8, <1>9, <1>10

(* handleCancel and cleanup drop all a session holds.                      *)
LEMMA DeleteInv ==
  ASSUME SessionsInv, NEW s \in Id, Delete(s)
  PROVE  SessionsInv'
<1> USE DEF SessionsInv
<1>1. /\ mu = Free /\ s \in sessions /\ sessions' = sessions \ {s}
      /\ raw'[s] = {} /\ pngs'[s] = NoPNG /\ order'[s] = << >>
      /\ \A t \in Id \ {s} : raw'[t] = raw[t] /\ pngs'[t] = pngs[t] /\ order'[t] = order[t]
      /\ UNCHANGED <<slot, handler, used, pending, mu>>
  BY DEF Delete, TypeOK
<1>2. TypeOK'
  <2>1. NoPNG \in [Index -> SUBSET Byte] /\ << >> \in Seq(Index)
    BY EmptySeq DEF NoPNG
  <2>2. raw' \in [Id -> SUBSET Byte] /\ pngs' \in [Id -> [Index -> SUBSET Byte]]
        /\ order' \in [Id -> Seq(Index)]
    BY <2>1 DEF Delete, TypeOK
  <2> QED
    BY <1>1, <2>2 DEF TypeOK
<1>3. SlotOK' /\ PromiseOK' /\ SessionsBounded' /\ MemoryBounded'
  <2>1. \A t \in sessions' : t \in Id \ {s}
    BY <1>1 DEF TypeOK
  <2>2. SlotOK'
    BY <1>1 DEF SlotOK
  <2> QED
    BY <1>1, <1>2, <2>1, <2>2, Shrunk
<1>4. MuOK'
  BY <1>1 DEF MuOK, Free
<1>5. PendingOK'
  <2>1. \A i \in Index : NoPNG[i] = {}
    BY DEF NoPNG
  <2>2. \A t \in Id : \A i \in pending[t] : i \in Index
    BY DEF TypeOK
  <2> QED
    BY <1>1, <2>1, <2>2 DEF PendingOK
<1>6. ListedOK'
  <2>1. ASSUME NEW t \in Id \ {s} PROVE ListedOnce(t)'
    BY <1>1 DEF ListedOK, ListedOnce
  <2>2. Range(<< >>) = {} /\ IsInjective(<< >>)
    BY DEF Range, IsInjective
  <2>3. {i \in Index : pngs'[s][i] # {}} = {}
    BY <1>1 DEF NoPNG
  <2> QED
    BY <1>1, <2>1, <2>2, <2>3 DEF ListedOK, ListedOnce
<1>7. FreshOK'
  <2>1. \A t \in Id \ used : t # s
    BY <1>1 DEF TypeOK
  <2>2. \A t \in Id \ {s} : Buffers(t)' = Buffers(t)
    BY <1>1 DEF Buffers, PNGs
  <2> QED
    BY <1>1, <2>1, <2>2 DEF FreshOK
<1> QED
  BY <1>2, <1>3, <1>4, <1>5, <1>6, <1>7

-----------------------------------------------------------------------------
(* admitLocked's verdict.                                                  *)

(* With every list empty nothing is cached: what is left are raw frames.   *)
LEMMA OnlyRaw ==
  ASSUME TypeOK, ListedOK, NothingToEvict
  PROVE  Held = RawHeld
<1>1. ASSUME NEW s \in sessions PROVE Buffers(s) = raw[s]
  <2>1. s \in Id /\ order[s] = << >>
    BY DEF TypeOK, NothingToEvict
  <2>2. {i \in Index : pngs[s][i] # {}} = {}
    BY <2>1 DEF ListedOK, ListedOnce, Range
  <2> QED
    BY <2>2 DEF Buffers, PNGs
<1> QED
  BY <1>1 DEF Held, RawHeld

(* The memory was promised: evictions always make the room.                *)
LEMMA AdmitFits ==
  ASSUME SessionsInv, mu.op = "admit", LoopsDone
  PROVE  Fits
<1> USE DEF SessionsInv
<1>1. CASE Fits
  BY <1>1
<1>2. CASE NothingToEvict
  <2>1. /\ Cardinality(RawHeld) + handler[mu.by].budget <= MaxSessionBytes
        /\ Cardinality(Buffers(mu.id)) <= handler[mu.by].budget
        /\ mu.by \in Handler /\ mu.id \in Id
    BY DEF MuOK, PromiseOK, TypeOK
  <2>2. Retained = Cardinality(RawHeld) /\ Incoming = Buffers(mu.id)
    BY <1>2, OnlyRaw DEF Retained, Incoming
  <2>3. Cardinality(RawHeld) \in Nat /\ Cardinality(Buffers(mu.id)) \in Nat
    BY <2>1, Parts, Sizes
  <2>4. handler[mu.by].budget \in Nat
    BY <2>1, SessionsAssumption DEF TypeOK
  <2> QED
    BY <2>1, <2>2, <2>3, <2>4, SessionsAssumption DEF Fits
<1> QED
  BY <1>1, <1>2 DEF LoopsDone

(* admitLocked adds the session, which it always has the room for.         *)
LEMMA AdmitInv ==
  ASSUME SessionsInv, Admit
  PROVE  SessionsInv' /\ mu.id \in sessions'
<1> USE DEF SessionsInv
<1>1. /\ mu.op = "admit" /\ mu.by \in Handler /\ handler[mu.by].pc = "encoding"
      /\ mu.id \in used \ sessions /\ mu.id \in Id
      /\ Cardinality(PNGs(mu.id)) <= MaxPNGCacheBytes
  BY DEF Admit, MuOK, TypeOK
<1>2. Fits
  BY AdmitFits DEF Admit
<1> DEFINE id == mu.id
           h == mu.by
<1>3. /\ sessions' = sessions \union {id} /\ mu' = Free
      /\ handler' = [handler EXCEPT ![h] = [pc |-> "answering", budget |-> 0]]
      /\ UNCHANGED <<slot, used, raw, pngs, order, pending>>
  BY <1>2 DEF Admit
<1>4. id \in Id /\ h \in Handler /\ id \in used \ sessions
      /\ Cardinality(PNGs(id)) <= MaxPNGCacheBytes
  BY <1>1
<1>5. \A g \in Handler : handler'[g].pc # "encoding"
  <2>1. slot = h
    BY <1>1 DEF SlotOK
  <2>2. \A g \in Handler \ {h} : handler[g].pc = "idle" /\ handler'[g] = handler[g]
    BY <1>3, <1>4, <2>1 DEF SlotOK, TypeOK
  <2> QED
    BY <1>3, <1>4, <2>2 DEF TypeOK
<1>6. TypeOK'
  <2>1. handler' \in [Handler -> [pc : {"idle", "encoding", "hashing", "answering"},
                                  budget : 0 .. MaxSessionBytes]]
    <3>1. [pc |-> "answering", budget |-> 0]
            \in [pc : {"idle", "encoding", "hashing", "answering"}, budget : 0 .. MaxSessionBytes]
      BY SessionsAssumption
    <3> QED
      BY <1>3, <3>1 DEF TypeOK
  <2>2. mu' \in [op : {"free", "admit", "store"}, by : Handler \union {None},
                 id : Id \union {None}, index : 0 .. FrameCount, png : SUBSET Byte]
    BY <1>3, SessionsAssumption DEF Free
  <2> QED
    BY <1>3, <1>4, <1>5, <2>1, <2>2 DEF TypeOK
<1>7. SlotOK'
  BY <1>1, <1>3, <1>4 DEF SlotOK, TypeOK
<1>8. PromiseOK' /\ MuOK'
  BY <1>3, <1>5 DEF PromiseOK, MuOK, Free
<1>9. /\ PendingOK' /\ ListedOK'
  BY <1>3 DEF PendingOK, ListedOK, ListedOnce
<1>10. FreshOK'
  BY <1>3 DEF FreshOK, Buffers, PNGs
<1>11. SessionsBounded'
  <2>1. Cardinality(sessions) < MaxActiveSessions
    BY <1>1 DEF PromiseOK
  <2>2. IsFiniteSet(sessions) /\ Cardinality(sessions) \in Nat
    BY SessionsAssumption, FS_Subset, FS_CardinalityType DEF TypeOK
  <2>3. Cardinality(sessions \union {id}) = Cardinality(sessions) + 1
    BY <1>4, <2>2, FS_AddElement
  <2> QED
    BY <1>3, <2>1, <2>2, <2>3, SessionsAssumption DEF SessionsBounded
<1>12. MemoryBounded'
  <2>1. \A s \in Id : Buffers(s)' = Buffers(s) /\ PNGs(s)' = PNGs(s)
    BY <1>3 DEF Buffers, PNGs
  <2>2. Held' = Held \union Buffers(id)
    BY <1>3, <1>4, <2>1 DEF Held, TypeOK
  <2>3. Cardinality(Held \union Buffers(id)) <= Cardinality(Held) + Cardinality(Buffers(id))
        /\ Cardinality(Held \union Buffers(id)) \in Nat
        /\ Cardinality(Held) \in Nat /\ Cardinality(Buffers(id)) \in Nat
    <3>1. Held \in SUBSET Byte /\ Buffers(id) \in SUBSET Byte
          /\ (Held \union Buffers(id)) \in SUBSET Byte
      BY <1>4, Parts
    <3> QED
      BY <3>1, Sizes
  <2>4. Cardinality(Held) + Cardinality(Buffers(id)) <= MaxSessionBytes
    BY <1>1, <1>2 DEF Fits, Retained, Incoming
  <2>5. Retained' <= MaxSessionBytes
    BY <2>2, <2>3, <2>4, SessionsAssumption DEF Retained
  <2>6. \A s \in sessions' : Cardinality(PNGs(s)') <= MaxPNGCacheBytes
    <3>1. \A s \in sessions : s \in Id
      BY DEF TypeOK
    <3> QED
      BY <1>3, <1>4, <2>1, <3>1 DEF MemoryBounded
  <2> QED
    BY <2>5, <2>6 DEF MemoryBounded
<1> QED
  BY <1>3, <1>6, <1>7, <1>8, <1>9, <1>10, <1>11, <1>12

-----------------------------------------------------------------------------
(* framePNG.                                                               *)

(* A render begins for a frame that is neither cached nor being rendered.  *)
LEMMA RenderInv ==
  ASSUME SessionsInv, NEW s \in Id, NEW i \in Index, Render(s, i)
  PROVE  SessionsInv'
<1> USE DEF SessionsInv, Render
<1>1. UNCHANGED memory /\ RawHeld' = RawHeld /\ \A t \in Id : Buffers(t)' = Buffers(t)
  BY SameMemory
<1>2. TypeOK'
  BY DEF TypeOK, memory
<1>3. SlotOK' /\ PromiseOK' /\ MuOK' /\ FreshOK'
  BY <1>1 DEF SlotOK, PromiseOK, MuOK, FreshOK, Free, memory
<1>4. PendingOK'
  BY DEF PendingOK, TypeOK, memory
<1> QED
  BY <1>1, <1>2, <1>3, <1>4, SameMemory

(* A render that comes to nothing is taken off the pending ones.           *)
LEMMA RenderLostInv ==
  ASSUME SessionsInv, NEW s \in Id, NEW i \in Index, RenderLost(s, i)
  PROVE  SessionsInv'
<1> USE DEF SessionsInv, RenderLost
<1>1. UNCHANGED memory /\ RawHeld' = RawHeld /\ \A t \in Id : Buffers(t)' = Buffers(t)
  BY SameMemory
<1>2. TypeOK'
  BY DEF TypeOK, memory
<1>3. SlotOK' /\ PromiseOK' /\ MuOK' /\ FreshOK'
  BY <1>1 DEF SlotOK, PromiseOK, MuOK, FreshOK, Free, memory
<1>4. PendingOK'
  BY DEF PendingOK, TypeOK, memory
<1> QED
  BY <1>1, <1>2, <1>3, <1>4, SameMemory

(* A rendered PNG is a buffer of its own until it is stored.               *)
LEMMA RenderedInv ==
  ASSUME SessionsInv, NEW s \in Id, NEW i \in Index, Rendered(s, i)
  PROVE  SessionsInv'
<1> USE DEF SessionsInv
<1>1. PICK png \in Alloc(Unused) :
        /\ png \subseteq Unused /\ png # {}
        /\ mu' = [op |-> "store", by |-> None, id |-> s, index |-> i, png |-> png]
  BY DEF Rendered
<1>2. /\ mu = Free /\ i \in pending[s] /\ s \in sessions
      /\ UNCHANGED <<slot, handler, used, memory, pending>>
  BY DEF Rendered
<1>3. /\ UNCHANGED memory /\ RawHeld' = RawHeld /\ \A t \in Id : Buffers(t)' = Buffers(t)
  BY <1>2, SameMemory
<1>4. TypeOK'
  <2>1. png \in SUBSET Byte /\ i \in 0 .. FrameCount
    BY <1>1, SessionsAssumption DEF Unused, Index
  <2>2. mu' \in [op : {"free", "admit", "store"}, by : Handler \union {None},
                 id : Id \union {None}, index : 0 .. FrameCount, png : SUBSET Byte]
    BY <1>1, <2>1
  <2> QED
    BY <1>2, <2>2 DEF TypeOK, memory
<1>5. SlotOK' /\ PromiseOK' /\ FreshOK' /\ PendingOK'
  BY <1>2, <1>3 DEF SlotOK, PromiseOK, FreshOK, PendingOK, memory
<1>6. MuOK'
  BY <1>1, <1>2 DEF MuOK, memory
<1> QED
  BY <1>3, <1>4, <1>5, <1>6, SameMemory

(* A store keeps the limits, which it looks at, and the list, because a    *)
(* frame that is being rendered is not cached.                             *)
LEMMA StoreInv ==
  ASSUME SessionsInv, Store
  PROVE  SessionsInv'
<1> USE DEF SessionsInv
<1>0. PICK s \in Id, i \in Index, png \in SUBSET Byte : s = mu.id /\ i = mu.index /\ png = mu.png
  BY DEF Store, MuOK, TypeOK
<1>1. /\ s \in sessions /\ i \in pending[s] /\ png # {} /\ pngs[s][i] = {} /\ mu.op = "store"
  BY <1>0 DEF Store, MuOK, PendingOK
<1>2. /\ pending' = [pending EXCEPT ![s] = @ \ {i}] /\ mu' = Free
      /\ UNCHANGED <<slot, handler, used, sessions, raw>>
  BY <1>0 DEF Store
<1>3. /\ pending' \in [Id -> SUBSET Index]
      /\ \A t \in Id : pending'[t] \subseteq pending[t]
      /\ i \notin pending'[s]
  BY <1>1, <1>2 DEF TypeOK
<1>4. mu' \in [op : {"free", "admit", "store"}, by : Handler \union {None},
               id : Id \union {None}, index : 0 .. FrameCount, png : SUBSET Byte]
  BY <1>2, SessionsAssumption DEF Free
<1>5. SlotOK' /\ MuOK'
  BY <1>2 DEF SlotOK, MuOK, Free
<1>6. CASE ~Storable
  <2>1. UNCHANGED memory
    BY <1>2, <1>6 DEF Store, memory
  <2>2. RawHeld' = RawHeld /\ \A t \in Id : Buffers(t)' = Buffers(t)
    BY <2>1, SameMemory
  <2>3. TypeOK'
    BY <1>2, <1>3, <1>4, <2>1 DEF TypeOK, memory
  <2>4. PromiseOK' /\ FreshOK' /\ PendingOK'
    BY <1>2, <1>3, <2>1, <2>2 DEF PromiseOK, FreshOK, PendingOK, memory
  <2> QED
    BY <1>5, <2>1, <2>3, <2>4, SameMemory
<1>7. CASE Storable
  <2>1. /\ pngs' = [pngs EXCEPT ![s][i] = png]
        /\ order' = [order EXCEPT ![s] = Append(@, i)]
    BY <1>0, <1>7 DEF Store
  <2>2. /\ pngs'[s] = [pngs[s] EXCEPT ![i] = png] /\ order'[s] = Append(order[s], i)
        /\ \A t \in Id \ {s} : pngs'[t] = pngs[t] /\ order'[t] = order[t]
    BY <1>1, <2>1 DEF TypeOK
  <2>3. order[s] \in Seq(Index) /\ IsInjective(order[s]) /\ i \in Index \ Range(order[s])
    BY <1>1 DEF TypeOK, ListedOK, ListedOnce
  <2>4. /\ Append(order[s], i) \in Seq(Index) /\ IsInjective(Append(order[s], i))
        /\ Range(Append(order[s], i)) = Range(order[s]) \union {i}
    BY <2>3, Appended
  <2>5. TypeOK'
    <3>1. pngs' \in [Id -> [Index -> SUBSET Byte]] /\ order' \in [Id -> Seq(Index)]
      BY <1>1, <2>1, <2>4 DEF TypeOK
    <3> QED
      BY <1>2, <1>3, <1>4, <3>1 DEF TypeOK
  <2>6. PendingOK'
    <3>1. \A t \in Id : \A j \in pending'[t] : j \in Index /\ <<t, j>> # <<s, i>>
      BY <1>3 DEF TypeOK
    <3>2. \A t \in Id : \A j \in Index : <<t, j>> # <<s, i>> => pngs'[t][j] = pngs[t][j]
      BY <1>1, <2>2 DEF TypeOK
    <3> QED
      BY <1>2, <1>3, <3>1, <3>2 DEF PendingOK
  <2>7. ListedOK'
    <3>1. ASSUME NEW t \in Id \ {s} PROVE ListedOnce(t)'
      BY <2>2 DEF ListedOK, ListedOnce
    <3>2. {j \in Index : pngs'[s][j] # {}} = {j \in Index : pngs[s][j] # {}} \union {i}
      BY <1>1, <2>2 DEF TypeOK
    <3>3. Range(order'[s]) = {j \in Index : pngs'[s][j] # {}} /\ IsInjective(order'[s])
      BY <1>1, <2>2, <2>4, <3>2 DEF ListedOK, ListedOnce
    <3> QED
      BY <3>1, <3>3 DEF ListedOK, ListedOnce
  <2>8. /\ \A t \in Id \ {s} : PNGs(t)' = PNGs(t) /\ Buffers(t)' = Buffers(t)
        /\ PNGs(s)' = PNGs(s) \union png /\ Buffers(s)' = Buffers(s) \union png
    <3>1. \A t \in Id \ {s} : PNGs(t)' = PNGs(t) /\ Buffers(t)' = Buffers(t)
      BY <1>2, <2>2 DEF PNGs, Buffers
    <3>2. PNGs(s)' = PNGs(s) \union png
      <4>1. pngs'[s][i] = png /\ \A j \in Index \ {i} : pngs'[s][j] = pngs[s][j]
        BY <2>2 DEF TypeOK
      <4> QED
        BY <1>1, <4>1 DEF PNGs
    <3> QED
      BY <1>2, <3>1, <3>2 DEF Buffers
  <2>9. RawHeld' = RawHeld /\ Held' = Held \union png
    <3>1. sessions \subseteq Id /\ sessions' = sessions /\ raw' = raw
      BY <1>2 DEF TypeOK
    <3>2. \A t \in sessions \ {s} : Buffers(t)' = Buffers(t)
      BY <2>8, <3>1
    <3>3. Held = (UNION {Buffers(t) : t \in sessions \ {s}}) \union Buffers(s)
      BY <1>1 DEF Held
    <3>4. Held' = (UNION {Buffers(t)' : t \in sessions \ {s}}) \union Buffers(s)'
      BY <1>1, <3>1 DEF Held
    <3> QED
      BY <2>8, <3>1, <3>2, <3>3, <3>4 DEF RawHeld
  <2>10. PromiseOK' /\ FreshOK'
    <3>1. \A t \in Id \ used : t # s
      BY <1>1 DEF TypeOK
    <3> QED
      BY <1>2, <2>8, <2>9, <3>1 DEF PromiseOK, FreshOK
  <2>11. SessionsBounded'
    BY <1>2 DEF SessionsBounded
  <2>12. MemoryBounded'
    <3>1. /\ Cardinality(Held) + Cardinality(png) <= MaxSessionBytes
          /\ Cardinality(PNGs(s)) + Cardinality(png) <= MaxPNGCacheBytes
      BY <1>0, <1>1, <1>7 DEF Storable, Fits, FitsInSession, Retained, Incoming
    <3>2. /\ Held \in SUBSET Byte /\ PNGs(s) \in SUBSET Byte
          /\ (Held \union png) \in SUBSET Byte /\ (PNGs(s) \union png) \in SUBSET Byte
      BY <1>1, Parts
    <3>3. /\ Cardinality(Held \union png) <= Cardinality(Held) + Cardinality(png)
          /\ Cardinality(PNGs(s) \union png) <= Cardinality(PNGs(s)) + Cardinality(png)
          /\ {Cardinality(Held), Cardinality(png), Cardinality(PNGs(s)),
              Cardinality(Held \union png), Cardinality(PNGs(s) \union png)} \subseteq Nat
      BY <1>1, <3>2, Sizes
    <3>4. Retained' <= MaxSessionBytes
      BY <2>9, <3>1, <3>3, SessionsAssumption DEF Retained
    <3>5. Cardinality(PNGs(s)') <= MaxPNGCacheBytes
      BY <2>8, <3>1, <3>3, SessionsAssumption
    <3>6. \A t \in sessions' : t # s => Cardinality(PNGs(t)') <= MaxPNGCacheBytes
      BY <1>2, <2>8 DEF MemoryBounded, TypeOK
    <3> QED
      BY <3>4, <3>5, <3>6 DEF MemoryBounded
  <2> QED
    BY <1>5, <2>5, <2>6, <2>7, <2>10, <2>11, <2>12
<1> QED
  BY <1>6, <1>7

-----------------------------------------------------------------------------
(* The theorems.                                                           *)

(* Every step of the server keeps the invariant.                           *)
LEMMA NextInv ==
  ASSUME SessionsInv, [Next]_vars
  PROVE  SessionsInv'
<1>1. ASSUME NEW h \in Handler, Encode(h) \/ MD5(h) \/ Return(h) \/ WorkerDone(h)
      PROVE  SessionsInv'
  BY <1>1, EncodeInv, MD5Inv, ReturnInv, WorkerDoneInv
<1>2. CASE EvictOwn
  <2>1. mu.id \in sessions
    BY <1>2 DEF EvictOwn, SessionsInv, MuOK
  <2> QED
    BY <1>2, <2>1, EvictInv DEF EvictOwn
<1>3. CASE EvictAny
  BY <1>3, EvictInv DEF EvictAny
<1>4. CASE Admit
  BY <1>4, AdmitInv
<1>5. CASE Store
  BY <1>5, StoreInv
<1>6. ASSUME NEW s \in Id, NEW i \in Index, Render(s, i) \/ RenderLost(s, i) \/ Rendered(s, i)
      PROVE  SessionsInv'
  BY <1>6, RenderInv, RenderLostInv, RenderedInv
<1>7. ASSUME NEW s \in Id, Delete(s)
      PROVE  SessionsInv'
  BY <1>7, DeleteInv
<1>8. CASE UNCHANGED vars
  <2>1. UNCHANGED memory /\ RawHeld' = RawHeld /\ \A t \in Id : Buffers(t)' = Buffers(t)
    BY <1>8, SameMemory DEF vars
  <2>2. UNCHANGED vars
    BY <1>8
  <2>3. TypeOK' /\ SlotOK' /\ PromiseOK' /\ PendingOK' /\ FreshOK'
    BY <2>1, <2>2 DEF SessionsInv, vars, memory, TypeOK, SlotOK, PromiseOK, PendingOK, FreshOK
  <2>4. MuOK'
    <3>1. UNCHANGED <<mu, handler, used, sessions, pending>> /\ MuOK
      BY <2>2 DEF vars, memory, SessionsInv
    <3>2. PNGs(mu.id)' = PNGs(mu.id) /\ Buffers(mu.id)' = Buffers(mu.id)
      BY <2>2 DEF vars, memory, PNGs, Buffers
    <3> QED
      BY <3>1, <3>2 DEF MuOK
  <2> QED
    BY <2>1, <2>3, <2>4, SameMemory DEF SessionsInv
<1> QED
  BY <1>1, <1>2, <1>3, <1>4, <1>5, <1>6, <1>7, <1>8 DEF Next

(* The invariant holds of every behaviour of the sender's sessions.        *)
THEOREM Invariant == Spec => []SessionsInv
BY InitInv, NextInv, PTL DEF Spec

(* Every component keeps to its type: no list names a frame there is not,  *)
(* no budget is negative, and no session in the map has an id not given    *)
(* out by newID.                                                           *)
THEOREM TypeCorrect == Spec => []TypeOK
<1>1. SessionsInv => TypeOK
  BY DEF SessionsInv
<1> QED
  BY <1>1, Invariant, PTL

(* However encodes, browsers and deletions interleave, the sender keeps to *)
(* MaxActiveSessions: the check in handleEncode, made minutes before the   *)
(* session is added by admitLocked, still holds then.                      *)
(* And raw frames and cached PNGs of all sessions never exceed the limits  *)
(* that framePNG and admitLocked keep to.                                  *)
THEOREM WithinLimits == Spec => []LimitsKept
<1>1. SessionsInv => LimitsKept
  BY DEF SessionsInv, LimitsKept
<1> QED
  BY <1>1, Invariant, PTL

(* Every cached PNG is named once by pngOrder, so that evictPNG finds it:  *)
(* memory is not lost to PNGs nobody can drop.                             *)
THEOREM NothingStranded == Spec => []EveryPNGEvictable
<1>1. SessionsInv => EveryPNGEvictable
  BY DEF SessionsInv, ListedOK, EveryPNGEvictable, TypeOK
<1> QED
  BY <1>1, Invariant, PTL

(* handleEncode's budget is a promise admitLocked keeps: a finished encode *)
(* is never thrown away for want of memory.                                *)
THEOREM PromiseKept == Spec => AdmissionKept
<1>1. ASSUME SessionsInv, [Next]_vars
      PROVE  [mu.op = "admit" /\ mu'.op = "free" => mu.id \in sessions']_vars
  <2> SUFFICES ASSUME Next, mu.op = "admit", mu'.op = "free"
               PROVE  mu.id \in sessions'
    BY <1>1
  <2>1. CASE Admit
    BY <1>1, <2>1, AdmitInv
  <2>2. ASSUME NEW h \in Handler, Encode(h) \/ MD5(h) \/ Return(h) \/ WorkerDone(h)
        PROVE  FALSE
    BY <2>2 DEF Encode, MD5, Return, WorkerDone, Free
  <2>3. ASSUME NEW s, Evict(s) PROVE FALSE
    BY <2>3 DEF Evict
  <2>4. ASSUME NEW s \in Id, NEW i \in Index, Render(s, i) \/ RenderLost(s, i) \/ Rendered(s, i)
        PROVE  FALSE
    BY <2>4 DEF Render, RenderLost, Rendered, Free
  <2>5. ASSUME NEW s \in Id, Delete(s) PROVE FALSE
    BY <2>5 DEF Delete, Free
  <2>6. ~Store
    BY DEF Store
  <2> QED
    BY <2>1, <2>2, <2>3, <2>4, <2>5, <2>6 DEF Next, EvictOwn, EvictAny
<1> QED
  BY <1>1, Invariant, PTL DEF Spec, AdmissionKept

(* framePNG's two loops of evictions make the room for any PNG that can be *)
(* kept at all.                                                            *)
LEMMA StoreFits ==
  ASSUME SessionsInv, mu.op = "store", LoopsDone,
         Cardinality(mu.png) <= MaxPNGCacheBytes,
         Cardinality(RawHeld) + Cardinality(mu.png) <= MaxSessionBytes
  PROVE  Storable
<1> USE DEF SessionsInv
<1>1. mu.id \in Id /\ mu.png \in SUBSET Byte /\ Incoming = mu.png
  BY DEF MuOK, TypeOK, Incoming
<1>2. FitsInSession
  <2>1. CASE FitsInSession
    BY <2>1
  <2>2. CASE order[mu.id] = << >>
    <3>1. {i \in Index : pngs[mu.id][i] # {}} = {}
      BY <1>1, <2>2 DEF ListedOK, ListedOnce, Range
    <3>2. PNGs(mu.id) = {}
      BY <3>1 DEF PNGs
    <3>3. Cardinality(mu.png) \in Nat
      BY <1>1, Sizes
    <3> QED
      BY <3>2, <3>3, FS_EmptySet DEF FitsInSession
  <2> QED
    BY <2>1, <2>2 DEF LoopsDone, OwnLoopDone
<1>3. Fits
  <2>1. NothingToEvict => Retained = Cardinality(RawHeld)
    BY OnlyRaw DEF Retained
  <2> QED
    BY <1>1, <2>1 DEF LoopsDone, Fits
<1> QED
  BY <1>2, <1>3 DEF Storable

(* A PNG that fits in its session's cache, and in memory beside the raw    *)
(* frames alone, is cached when framePNG has rendered it.                  *)
THEOREM RoomIsMade == Spec => StoreKept
<1>1. ASSUME SessionsInv, [Next]_vars
      PROVE  [mu.op = "store" /\ mu'.op = "free"
                /\ Cardinality(mu.png) <= MaxPNGCacheBytes
                /\ Cardinality(RawHeld) + Cardinality(mu.png) <= MaxSessionBytes
              => pngs'[mu.id][mu.index] = mu.png]_vars
  <2> SUFFICES ASSUME Next, mu.op = "store", mu'.op = "free",
                      Cardinality(mu.png) <= MaxPNGCacheBytes,
                      Cardinality(RawHeld) + Cardinality(mu.png) <= MaxSessionBytes
               PROVE  pngs'[mu.id][mu.index] = mu.png
    BY <1>1
  <2>1. CASE Store
    <3>1. Storable
      BY <1>1, <2>1, StoreFits DEF Store
    <3>2. mu.id \in Id /\ mu.index \in Index
      BY <1>1 DEF SessionsInv, MuOK, TypeOK
    <3> QED
      BY <1>1, <2>1, <3>1, <3>2 DEF Store, SessionsInv, TypeOK
  <2>2. ASSUME NEW h \in Handler, Encode(h) \/ MD5(h) \/ Return(h) \/ WorkerDone(h)
        PROVE  FALSE
    BY <2>2 DEF Encode, MD5, Return, WorkerDone, Free
  <2>3. ASSUME NEW s, Evict(s) PROVE FALSE
    BY <2>3 DEF Evict
  <2>4. ASSUME NEW s \in Id, NEW i \in Index, Render(s, i) \/ RenderLost(s, i) \/ Rendered(s, i)
        PROVE  FALSE
    BY <2>4 DEF Render, RenderLost, Rendered, Free
  <2>5. ASSUME NEW s \in Id, Delete(s) PROVE FALSE
    BY <2>5 DEF Delete, Free
  <2>6. ~Admit
    BY DEF Admit
  <2> QED
    BY <2>1, <2>2, <2>3, <2>4, <2>5, <2>6 DEF Next, EvictOwn, EvictAny
<1> QED
  BY <1>1, Invariant, PTL DEF Spec, StoreKept
=============================================================================
