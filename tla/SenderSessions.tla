--------------------------- MODULE SenderSessions ---------------------------
(***************************************************************************)
(* The sessions of the sender (internal/sender): admission of an encoded   *)
(* file, and the memory its frames and rendered PNGs take up.  One encode  *)
(* at a time may run, and it runs for minutes with a memory budget that    *)
(* was computed before it started; meanwhile browsers fill and evict the   *)
(* PNG caches of the other sessions, and sessions are deleted.             *)
(*                                                                         *)
(* A buffer is the set of its bytes, so that a sum of lengths is a         *)
(* cardinality.  A critical section of Server.mu that loops over evictions *)
(* is several steps, during which mu is held; any other is one step.       *)
(***************************************************************************)
EXTENDS Naturals, Sequences, FiniteSets, Functions

CONSTANTS
  Id,                        \* what newID returns, never the same twice
  FrameCount,                \* frames of a session
  InitialFrames,             \* initialFrames: how many the worker renders
  Byte,                      \* the memory
  Alloc(_),                  \* buffers the allocator may take from a free part
  Handler,                   \* requests for /encode and /md5
  MaxActiveSessions,
  MaxSessionBytes,           \* raw frames and PNGs of all sessions
  MaxPNGCacheBytes,          \* PNGs of one session
  None

ASSUME SessionsAssumption ==
  /\ FrameCount \in Nat /\ InitialFrames \in 1 .. FrameCount
  /\ IsFiniteSet(Byte) /\ IsFiniteSet(Id)
  /\ {MaxActiveSessions, MaxSessionBytes, MaxPNGCacheBytes} \subseteq Nat \ {0}
  /\ None \notin Handler \union Id

Index == 1 .. FrameCount
NoPNG == [i \in Index |-> {}]

VARIABLES
  slot,                      \* the handler that holds encodeSlot, or None
  handler,                   \* what each handler does, and its CacheBytes
  sessions, used,            \* the keys of Server.sessions; ids given out
  raw, pngs, order,          \* session.frames, pngs, and pngOrder[pngHead:]
  pending,                   \* session.pending: renders under way
  mu                         \* Server.mu: what its holder is in the middle of

memory == <<sessions, raw, pngs, order>>
vars == <<slot, handler, used, memory, pending, mu>>

Free == [op |-> "free", by |-> None, id |-> None, index |-> 0, png |-> {}]

PNGs(s) == UNION {pngs[s][i] : i \in Index}
Buffers(s) == raw[s] \union PNGs(s)
Held == UNION {Buffers(s) : s \in sessions}
RawHeld == UNION {raw[s] : s \in sessions}
Retained == Cardinality(Held)                                  \* retainedLocked

Unused == Byte \ (UNION {Buffers(s) : s \in Id} \union mu.png)

Init ==
  /\ slot = None
  /\ handler = [h \in Handler |-> [pc |-> "idle", budget |-> 0]]
  /\ sessions = {} /\ used = {}
  /\ raw = [s \in Id |-> {}]
  /\ pngs = [s \in Id |-> NoPNG]
  /\ order = [s \in Id |-> << >>]
  /\ pending = [s \in Id |-> {}]
  /\ mu = Free

-----------------------------------------------------------------------------
(* handleEncode and handleMD5.  A request that does not get the slot, or    *)
(* that finds the server full, is refused and changes nothing.              *)

\* A bug to be caught: two encodes may run at the same time.
SlotAlwaysFree == TRUE
SlotFree == slot = None

Room == Cardinality(sessions) < MaxActiveSessions /\ Retained < MaxSessionBytes

\* Bugs to be caught: the PNGs of other sessions, or everything they hold, is
\* left out of the budget.
BudgetOfAll == MaxSessionBytes
Budget == MaxSessionBytes - Retained

Encode(h) ==
  /\ handler[h].pc = "idle" /\ SlotFree
  /\ mu = Free /\ Room
  /\ slot' = h
  /\ handler' = [handler EXCEPT ![h] = [pc |-> "encoding", budget |-> Budget]]
  /\ UNCHANGED <<used, memory, pending, mu>>

MD5(h) ==
  /\ handler[h].pc = "idle" /\ SlotFree
  /\ slot' = h
  /\ handler' = [handler EXCEPT ![h].pc = "hashing"]
  /\ UNCHANGED <<used, memory, pending, mu>>

\* The handler returns: it has answered, or the client, the body or the worker
\* has failed it.
Return(h) ==
  /\ handler[h].pc # "idle" /\ mu.by # h
  /\ slot' = None
  /\ handler' = [handler EXCEPT ![h] = [pc |-> "idle", budget |-> 0]]
  /\ UNCHANGED <<used, memory, pending, mu>>

\* What initCache puts in pngOrder: the PNGs that came with the session.
\* (A bug to be caught: they are not listed.)
NothingListed(warm) == << >>
InitOrder(warm) == [n \in 1 .. warm |-> n]

\* encodeIsolated: the worker's frames, and the PNGs of the first of them or of
\* all, fit in the budget, and the PNGs in the cache of one session; admitLocked
\* begins.
WorkerDone(h) ==
  /\ handler[h].pc = "encoding" /\ mu = Free
  /\ \E id \in Id \ used, warm \in {InitialFrames, FrameCount}, all \in Alloc(Unused) :
     \E part \in [all -> 0 .. warm] :
       LET Part(k) == {b \in all : part[b] = k}
       IN  /\ all \subseteq Unused /\ Cardinality(all) <= handler[h].budget
           /\ Cardinality(all \ Part(0)) <= MaxPNGCacheBytes
           /\ \A k \in 0 .. warm : Part(k) # {}
           /\ used' = used \union {id}
           /\ raw' = [raw EXCEPT ![id] = Part(0)]
           /\ pngs' = [pngs EXCEPT ![id] = [i \in Index |-> IF i <= warm THEN Part(i) ELSE {}]]
           /\ order' = [order EXCEPT ![id] = InitOrder(warm)]
           /\ mu' = [Free EXCEPT !.op = "admit", !.by = h, !.id = id]
  /\ UNCHANGED <<slot, handler, sessions, pending>>

-----------------------------------------------------------------------------
(* Evictions, by the holder of mu.                                         *)

\* evictPNG drops the oldest PNG of a session.
Evict(s) ==
  /\ order[s] # << >>
  /\ pngs' = [pngs EXCEPT ![s][Head(order[s])] = {}]
  /\ order' = [order EXCEPT ![s] = Tail(order[s])]
  /\ UNCHANGED <<slot, handler, used, sessions, raw, pending, mu>>

\* A bug to be caught: only the session itself is asked for room.
NothingOfItsOwn == order[mu.id] = << >>
NothingToEvict == \A s \in sessions : order[s] = << >>

\* What is to be added to the sessions' memory.
Incoming == IF mu.op = "admit" THEN Buffers(mu.id) ELSE mu.png

Fits == Retained + Cardinality(Incoming) <= MaxSessionBytes

FitsInSession ==
  \/ mu.op = "admit"
  \/ Cardinality(PNGs(mu.id)) + Cardinality(mu.png) <= MaxPNGCacheBytes

\* A store makes room in its own session first.
OwnLoopDone == FitsInSession \/ order[mu.id] = << >>

EvictOwn ==
  /\ mu.op = "store" /\ ~OwnLoopDone
  /\ Evict(mu.id)

\* evictAnyLocked: the map gives the sessions in any order.
EvictAny ==
  /\ mu.op # "free" /\ OwnLoopDone /\ ~Fits
  /\ \E s \in sessions : Evict(s)

LoopsDone == OwnLoopDone /\ (Fits \/ NothingToEvict)

\* admitLocked's verdict; a refused session is garbage.
Admit ==
  /\ mu.op = "admit" /\ LoopsDone
  /\ IF Fits
       THEN /\ sessions' = sessions \union {mu.id}
            /\ UNCHANGED <<raw, pngs, order>>
       ELSE /\ raw' = [raw EXCEPT ![mu.id] = {}]
            /\ pngs' = [pngs EXCEPT ![mu.id] = NoPNG]
            /\ order' = [order EXCEPT ![mu.id] = << >>]
            /\ UNCHANGED sessions
  /\ handler' = [handler EXCEPT ![mu.by] = [pc |-> "answering", budget |-> 0]]
  /\ mu' = Free
  /\ UNCHANGED <<slot, used, pending>>

-----------------------------------------------------------------------------
(* framePNG.  A cached PNG, and a render that is under way, are shared.     *)

Render(s, i) ==
  /\ mu = Free /\ s \in sessions
  /\ pngs[s][i] = {} /\ i \notin pending[s]
  /\ pending' = [pending EXCEPT ![s] = @ \union {i}]
  /\ UNCHANGED <<slot, handler, used, memory, mu>>

\* The render failed, was cancelled, or its session is gone.
RenderLost(s, i) ==
  /\ mu = Free /\ i \in pending[s]
  /\ pending' = [pending EXCEPT ![s] = @ \ {i}]
  /\ UNCHANGED <<slot, handler, used, memory, mu>>

Rendered(s, i) ==
  /\ mu = Free /\ i \in pending[s] /\ s \in sessions
  /\ \E png \in Alloc(Unused) :
       /\ png \subseteq Unused /\ png # {}
       /\ mu' = [op |-> "store", by |-> None, id |-> s, index |-> i, png |-> png]
  /\ UNCHANGED <<slot, handler, used, memory, pending>>

\* A bug to be caught: one of the two limits is not looked at.
StorableGlobally == Fits
Storable == Fits /\ FitsInSession

\* The PNG is cached if there is room now; it is handed out either way.
Store ==
  /\ mu.op = "store" /\ LoopsDone
  /\ IF Storable
       THEN /\ pngs' = [pngs EXCEPT ![mu.id][mu.index] = mu.png]
            /\ order' = [order EXCEPT ![mu.id] = Append(@, mu.index)]
       ELSE UNCHANGED <<pngs, order>>
  /\ pending' = [pending EXCEPT ![mu.id] = @ \ {mu.index}]
  /\ mu' = Free
  /\ UNCHANGED <<slot, handler, used, sessions, raw>>

-----------------------------------------------------------------------------
\* handleCancel, and cleanup of a session nobody asked for in a long time.
Delete(s) ==
  /\ mu = Free /\ s \in sessions
  /\ sessions' = sessions \ {s}
  /\ raw' = [raw EXCEPT ![s] = {}]
  /\ pngs' = [pngs EXCEPT ![s] = NoPNG]
  /\ order' = [order EXCEPT ![s] = << >>]
  /\ UNCHANGED <<slot, handler, used, pending, mu>>

Next ==
  \/ \E h \in Handler : Encode(h) \/ MD5(h) \/ Return(h) \/ WorkerDone(h)
  \/ EvictOwn \/ EvictAny \/ Admit \/ Store
  \/ \E s \in Id, i \in Index : Render(s, i) \/ RenderLost(s, i) \/ Rendered(s, i)
  \/ \E s \in Id : Delete(s)

Spec == Init /\ [][Next]_vars

-----------------------------------------------------------------------------
(* Properties.                                                             *)

TypeOK ==
  /\ slot \in Handler \union {None}
  /\ handler \in [Handler -> [pc : {"idle", "encoding", "hashing", "answering"},
                              budget : 0 .. MaxSessionBytes]]
  /\ \A h \in Handler : handler[h].pc = "encoding" => handler[h].budget > 0
  /\ sessions \subseteq used /\ used \subseteq Id
  /\ raw \in [Id -> SUBSET Byte]
  /\ pngs \in [Id -> [Index -> SUBSET Byte]]
  /\ order \in [Id -> Seq(Index)]
  /\ pending \in [Id -> SUBSET Index]
  /\ mu \in [op : {"free", "admit", "store"}, by : Handler \union {None},
             id : Id \union {None}, index : 0 .. FrameCount, png : SUBSET Byte]

(* At most MaxActiveSessions sessions exist, although an encode looks at   *)
(* their number minutes before it adds one.                                *)
SessionsBounded == Cardinality(sessions) <= MaxActiveSessions

(* The memory of all sessions, and the PNG cache of each, keep to their    *)
(* limits at every moment.                                                 *)
MemoryBounded ==
  /\ Retained <= MaxSessionBytes
  /\ \A s \in sessions : Cardinality(PNGs(s)) <= MaxPNGCacheBytes

(* Both, as one property.                                                 *)
LimitsKept == SessionsBounded /\ MemoryBounded

(* Every cached PNG is listed once, where the eviction will find it.       *)
ListedOnce(s) ==
  /\ Range(order[s]) = {i \in Index : pngs[s][i] # {}}
  /\ IsInjective(order[s])

EveryPNGEvictable == \A s \in sessions : ListedOnce(s)

(* An encode that was let in and came to its end is never refused for want *)
(* of memory, whatever browsers did to the caches meanwhile.               *)
AdmissionKept ==
  [][mu.op = "admit" /\ mu'.op = "free" => mu.id \in sessions']_vars

(* A rendered PNG that can be kept at all - after evicting every other - is *)
(* kept.                                                                   *)
StoreKept ==
  [][mu.op = "store" /\ mu'.op = "free"
       /\ Cardinality(mu.png) <= MaxPNGCacheBytes
       /\ Cardinality(RawHeld) + Cardinality(mu.png) <= MaxSessionBytes
     => pngs'[mu.id][mu.index] = mu.png]_vars

-----------------------------------------------------------------------------
(* The inductive invariant.                                                *)

SlotOK == \A h \in Handler : handler[h].pc # "idle" <=> slot = h

\* What an encode was promised stays true while it runs.
PromiseOK ==
  \A h \in Handler : handler[h].pc = "encoding" =>
    /\ Cardinality(sessions) < MaxActiveSessions
    /\ Cardinality(RawHeld) + handler[h].budget <= MaxSessionBytes

MuOK ==
  /\ mu.op = "free" => mu = Free
  /\ mu.op = "admit" =>
       /\ mu.by \in Handler /\ handler[mu.by].pc = "encoding"
       /\ mu.id \in used \ sessions /\ mu.png = {}
       /\ Cardinality(Buffers(mu.id)) <= handler[mu.by].budget
       /\ Cardinality(PNGs(mu.id)) <= MaxPNGCacheBytes
  /\ mu.op = "store" =>
       mu.by = None /\ mu.id \in sessions /\ mu.index \in pending[mu.id] /\ mu.png # {}

\* A frame is not rendered twice: what is being rendered is not cached.
PendingOK ==
  \A s \in Id : \A i \in pending[s] : s \in used /\ pngs[s][i] = {}

\* Also of the sessions that are not yet, or no longer, in the map.
ListedOK == \A s \in Id : ListedOnce(s)
FreshOK == \A s \in Id \ used : Buffers(s) = {}

SessionsInv ==
  /\ TypeOK /\ SlotOK /\ PromiseOK /\ MuOK /\ PendingOK /\ ListedOK /\ FreshOK
  /\ SessionsBounded /\ MemoryBounded
=============================================================================
