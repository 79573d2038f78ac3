------------------------- MODULE EncodeWorkerProofs -------------------------
(***************************************************************************)
(* A session that encodeIsolated returns is whole, and no library call     *)
(* runs without a limit, for any number of frames, renderers and bytes.    *)
(* The two processes share nothing but pipes: the invariant says what is   *)
(* in the child's output at any moment (StreamOK), and that what is on its *)
(* way fits into the budget the parent counts down (Checked, GotOK).       *)
(***************************************************************************)
EXTENDS EncodeWorker, TLAPS, FiniteSetTheorems, SequenceTheorems

Asleep == {"none", "line", "body", "writeAck"}
Early == Asleep \union {"encode", "render", "report"}
Ended == {"exited", "failed"}
Child == Early \union {"header", "parts"} \union Ended
Before == {"start", "configure", "send", "body", "ack", "header"}
Active == Before \union {"parts", "eof"}
Place == Active \union {"wait", "kill", "returned", "dead"}
Token == {<<"ack">>, <<"error">>} \union ({"header"} \X Nat) \union ({"part"} \X Nat)
Error == {"configure", "send", "child", "eof"}

WorkerTypeOK ==
  /\ platform \in {"linux", "windows", "other"} /\ req \in Requests
  /\ parent \in Place /\ err \in Error \union {Nothing}
  /\ result \in {Nothing, "session", "failed"}
  /\ got \in Seq(Nat) /\ IsFiniteSet(Units(got)) /\ left \in Int
  /\ child \in Child /\ limited \in BOOLEAN
  /\ frames \in Nat /\ budget \in Int /\ bytes \in Nat /\ exceeded \in BOOLEAN
  /\ frames > 0 => pngs \in [1 .. frames -> Nat] /\ IsFiniteSet(Units(pngs))
  /\ out \in Nat /\ stdout \in Seq(Token)

\* Memory is limited before the library is called: the child has no input before the
\* job object is there, or limits itself.
LimitOK ==
  /\ stdin # << >> \/ parent \in {"send", "body"} => platform = "linux" \/ limited
  /\ child \in Writing \union {"body"} => limited

\* Where the parent is, and what it returns.
ParentOK ==
  /\ parent \in Active => err = Nothing
  /\ parent = "kill" => err # Nothing
  /\ result # Nothing => parent = "returned"
  /\ result = "session" => child = "exited"
  /\ parent = "start" => child = "none"
  /\ parent = "returned" => ~Alive

\* While PNGs are rendered, those that are kept are within what is counted, and that is
\* within the budget until it is exceeded.
RenderOK ==
  /\ child \in Early \union {"header"} => out = 0
  /\ child \in Asleep \union {"encode"} => bytes = 0 /\ ~exceeded
  /\ child = "render" =>
       /\ frames > 0 /\ 0 < budget /\ budget <= Available(frames)
       /\ ~exceeded => Cardinality(Units(pngs)) <= bytes /\ bytes <= budget

\* The parent has all parts, and no error.
HasAll == (parent = "wait" /\ err = Nothing) \/ result = "session"

\* The session is on its way, or there.
UnderWay ==
  \/ child \in {"header", "parts"} \/ parent \in {"parts", "eof"} \/ HasAll
  \/ \E i \in DOMAIN stdout : stdout[i][1] \in {"header", "part"}

\* What may be written is within the budget, with the PNGs of the warm-up.
Checked ==
  /\ child \notin Early
  /\ ~exceeded /\ frames > 0 /\ \A i \in 1 .. Warmup : pngs[i] # 0
  /\ Cardinality(Units(pngs)) <= budget /\ budget <= Available(frames)

\* The places in the child's output: the last that the parent has read is Taken.
Taken == IF parent = "header" THEN 1 ELSE IF parent \in {"parts", "eof"} THEN 2 + Len(got) ELSE 0
Stream(k) == IF k = 1 THEN <<"ack">> ELSE IF k = 2 THEN <<"header", Warmup>> ELSE <<"part", PartOf(k - 2)>>
StreamOK ==
  parent \in Active =>
    /\ \A i \in DOMAIN stdout :
         stdout[i] = Stream(Taken + i) \/ (stdout[i] = <<"error">> /\ Taken + i = 2)
    /\ child \in Asleep => Taken + Len(stdout) = 0
    /\ child \in {"encode", "render", "report", "header"} => Taken + Len(stdout) = 1
    /\ child = "parts" => Taken + Len(stdout) = 2 + out

\* What the parent has read is the beginning of the session, or all of it, and counted.
GotOK ==
  /\ parent \in Active \/ HasAll => left = req.cache - Cardinality(Units(got))
  /\ parent \in Before => got = << >>
  /\ parent \in {"parts", "eof"} \/ HasAll =>
       /\ \A n \in 1 .. Len(got) : got[n] = PartOf(n)
       /\ Len(got) <= 2 * frames
       /\ parent # "parts" => Len(got) = 2 * frames
       /\ parent = "parts" => Len(got) < 2 * frames

WorkerInv ==
  /\ WorkerTypeOK /\ LimitOK /\ ParentOK /\ RenderOK /\ (UnderWay => Checked) /\ StreamOK /\ GotOK

-----------------------------------------------------------------------------
(* The processes, apart from what they exchange.                            *)

(* What the program is given.                                               *)
LEMMA Given ==
  ASSUME req \in Requests
  PROVE  req.cache \in Nat /\ req.all \in BOOLEAN /\ FrameSize \in Nat \ {0} /\ InitialFrames \in Nat \ {0}
BY WorkerAssumption DEF Requests

(* The smaller of two numbers.                                              *)
LEMMA MinTwo ==
  ASSUME NEW a \in Int, NEW b \in Int
  PROVE  Min({a, b}) \in {a, b} /\ Min({a, b}) <= a /\ Min({a, b}) <= b
<1>1. \E x \in {a, b} : \A y \in {a, b} : x <= y
  BY DEF Min
<1>2. PICK x \in {a, b} : x = Min({a, b}) /\ \A y \in {a, b} : x <= y
  BY <1>1 DEF Min
<1> QED
  BY <1>2

(* configureWorker, limitWorkerData and the order of the pipes.             *)
LEMMA LimitKept == WorkerTypeOK /\ LimitOK /\ [WorkerNext]_workerVars => LimitOK'
<1> SUFFICES ASSUME WorkerTypeOK, LimitOK, [WorkerNext]_workerVars PROVE LimitOK'
  OBVIOUS
<1> USE DEF LimitOK, Writing, Goes, Fails, WorkerTypeOK, parentVars
<1>1. CASE StartChild
  BY <1>1 DEF StartChild
<1>2. CASE Configure
  BY <1>2 DEF Configure
<1>3. CASE Send
  BY <1>3 DEF Send, Alive
<1>4. CASE Receive
  BY <1>4 DEF Receive, ReadAck, ReadHeader, ReadPart, ReadEnd
<1>5. CASE Kill
  BY <1>5 DEF Kill, Killed, Alive
<1>6. CASE Wait
  BY <1>6 DEF Wait
<1>7. CASE ContextKills \/ OrphanKilled \/ ChildDies
  BY <1>7 DEF ContextKills, OrphanKilled, ChildDies, Killed, Alive
<1>8. CASE ContextEnds \/ ParentDies
  BY <1>8 DEF ContextEnds, ParentDies
<1>9. CASE ReadRequest
  BY <1>9 DEF ReadRequest, LimitedByItself, Ends
<1>10. CASE ReadBody
  BY <1>10 DEF ReadBody, Ends
<1>11. CASE Encode
  BY <1>11 DEF Encode
<1>12. CASE Render
  BY <1>12 DEF Render, TakeJob, Rendered
<1>13. CASE RenderEnds
  BY <1>13 DEF RenderEnds
<1>14. CASE Write
  BY <1>14 DEF Write, Put, Ends
<1>15. CASE ChildExits
  BY <1>15 DEF ChildExits, Ends
<1>16. CASE UNCHANGED workerVars
  BY <1>16 DEF workerVars
<1> QED
  BY <1>1, <1>2, <1>3, <1>4, <1>5, <1>6, <1>7, <1>8, <1>9, <1>10, <1>11, <1>12, <1>13, <1>14, <1>15, <1>16
     DEF WorkerNext, EncodeIsolated, WorkerMain, System

(* What encodeIsolated returns, and that it waits for the child.            *)
LEMMA ParentKept == WorkerTypeOK /\ ParentOK /\ [WorkerNext]_workerVars => ParentOK'
<1> SUFFICES ASSUME WorkerTypeOK, ParentOK, [WorkerNext]_workerVars PROVE ParentOK'
  OBVIOUS
<1>0. Nothing \notin {"session", "failed", "configure", "send", "child", "header", "budget", "eof"}
  BY WorkerAssumption
<1> USE <1>0 DEF ParentOK, Goes, Fails, parentVars, Before, Active, Alive, Writing
<1>1. CASE StartChild
  BY <1>1 DEF StartChild
<1>2. CASE Configure
  BY <1>2 DEF Configure
<1>3. CASE Send
  BY <1>3 DEF Send
<1>4. CASE Receive
  BY <1>4 DEF Receive, ReadAck, ReadHeader, ReadPart, ReadEnd, Reading
<1>5. CASE Kill
  BY <1>5 DEF Kill, Killed
<1>6. CASE Wait
  BY <1>6 DEF Wait, Accepted
<1>7. CASE ContextKills \/ OrphanKilled \/ ChildDies
  BY <1>7 DEF ContextKills, OrphanKilled, ChildDies, Killed
<1>8. CASE ContextEnds \/ ParentDies
  BY <1>8 DEF ContextEnds, ParentDies
<1>9. CASE ReadRequest
  BY <1>9 DEF ReadRequest, Ends
<1>10. CASE ReadBody
  BY <1>10 DEF ReadBody, Ends
<1>11. CASE Encode
  BY <1>11 DEF Encode
<1>12. CASE Render
  BY <1>12 DEF Render, TakeJob, Rendered
<1>13. CASE RenderEnds
  BY <1>13 DEF RenderEnds
<1>14. CASE Write
  BY <1>14 DEF Write, Put, Ends
<1>15. CASE ChildExits
  BY <1>15 DEF ChildExits, Ends
<1>16. CASE UNCHANGED workerVars
  BY <1>16 DEF workerVars
<1> QED
  BY <1>1, <1>2, <1>3, <1>4, <1>5, <1>6, <1>7, <1>8, <1>9, <1>10, <1>11, <1>12, <1>13, <1>14, <1>15, <1>16
     DEF WorkerNext, EncodeIsolated, WorkerMain, System

-----------------------------------------------------------------------------
(* Units: the length of parts, added up.                                    *)

(* Nothing has been read, nothing has been rendered.                        *)
LEMMA NoUnits == /\ Units(<< >>) = {} /\ \A n \in Nat : Units([i \in 1 .. n |-> 0]) = {}
                 /\ IsFiniteSet({}) /\ Cardinality({}) = 0
<1>1. Units(<< >>) = {}
  BY DEF Units
<1>2. \A n \in Nat : Units([i \in 1 .. n |-> 0]) = {}
  BY DEF Units
<1> QED
  BY <1>1, <1>2, FS_EmptySet

(* One part of n units.                                                     *)
LEMMA PartUnits ==
  ASSUME NEW k, NEW n \in Nat
  PROVE  IsFiniteSet({k} \X (1 .. n)) /\ Cardinality({k} \X (1 .. n)) = n
<1>1. IsFiniteSet({k}) /\ Cardinality({k}) = 1
  BY FS_Singleton
<1>2. IsFiniteSet(1 .. n) /\ Cardinality(1 .. n) = n
  BY FS_Interval
<1>3. /\ IsFiniteSet({k} \X (1 .. n))
      /\ Cardinality({k} \X (1 .. n)) = Cardinality({k}) * Cardinality(1 .. n)
  BY <1>1, <1>2, FS_Product, Zenon
<1>4. 1 * n = n
  OBVIOUS
<1> QED
  BY <1>1, <1>2, <1>3, <1>4, Zenon

(* The next part is read.                                                   *)
LEMMA UnitsAppended ==
  ASSUME NEW q \in Seq(Nat), IsFiniteSet(Units(q)), NEW n \in Nat
  PROVE  /\ IsFiniteSet(Units(Append(q, n)))
         /\ Cardinality(Units(Append(q, n))) = Cardinality(Units(q)) + n
<1> DEFINE k == Len(q) + 1
           P == {k} \X (1 .. n)
           z == Append(q, n)
<1>1. /\ DOMAIN q = 1 .. Len(q) /\ Len(q) \in Nat /\ DOMAIN z = 1 .. k /\ z[k] = n
      /\ \A i \in 1 .. Len(q) : z[i] = q[i]
  BY AppendProperties, LenProperties
<1>2. Units(z) = Units(q) \union P
  <2>1. 1 .. k = (1 .. Len(q)) \union {k}
    BY <1>1
  <2> HIDE DEF z, k
  <2> QED
    BY <1>1, <2>1 DEF Units
<1>3. Units(q) \intersect P = {}
  <2>1. \A x \in P : x[1] = k
    OBVIOUS
  <2>2. \A x \in Units(q) : x[1] \in 1 .. Len(q)
    BY <1>1 DEF Units
  <2> HIDE DEF P
  <2> QED
    BY <1>1, <2>1, <2>2
<1>4. IsFiniteSet(P) /\ Cardinality(P) = n
  BY PartUnits
<1> HIDE DEF P, z
<1>5. /\ IsFiniteSet(Units(z))
      /\ Cardinality(Units(z)) = Cardinality(Units(q)) + Cardinality(P) - Cardinality({})
  BY <1>2, <1>3, <1>4, FS_Union
<1>6. Cardinality(Units(q)) \in Nat
  BY FS_CardinalityType
<1> QED
  BY <1>4, <1>5, <1>6, FS_EmptySet DEF z

(* A PNG is kept, in place of none or of another.                           *)
LEMMA UnitsKept ==
  ASSUME NEW m \in Nat, NEW F \in [1 .. m -> Nat], IsFiniteSet(Units(F)), NEW k, NEW n \in Nat
  PROVE  /\ [F EXCEPT ![k] = n] \in [1 .. m -> Nat] /\ IsFiniteSet(Units([F EXCEPT ![k] = n]))
         /\ Cardinality(Units([F EXCEPT ![k] = n])) <= Cardinality(Units(F)) + n
<1> DEFINE P == {k} \X (1 .. n)
           z == [F EXCEPT ![k] = n]
           U == Units(F) \union P
<1>1. z \in [1 .. m -> Nat] /\ \A i \in 1 .. m : z[i] = IF i = k THEN n ELSE F[i]
  OBVIOUS
<1> HIDE DEF z
<1>2. Units(z) \subseteq U
  BY <1>1 DEF Units
<1>3. IsFiniteSet(P) /\ Cardinality(P) = n
  BY PartUnits
<1> HIDE DEF P
<1>4. IsFiniteSet(U) /\ Cardinality(U) = Cardinality(Units(F)) + Cardinality(P) - Cardinality(Units(F) \intersect P)
  BY <1>3, FS_Union
<1>5. IsFiniteSet(Units(F) \intersect P)
  BY <1>3, FS_Intersection
<1>6. Cardinality(Units(F)) \in Nat /\ Cardinality(Units(F) \intersect P) \in Nat /\ Cardinality(U) \in Nat
  BY <1>4, <1>5, FS_CardinalityType
<1>7. IsFiniteSet(Units(z)) /\ Cardinality(Units(z)) <= Cardinality(U) /\ Cardinality(Units(z)) \in Nat
  BY <1>2, <1>4, FS_Subset, FS_CardinalityType
<1> QED
  BY <1>1, <1>3, <1>4, <1>6, <1>7 DEF z

(* A rectangle of units.                                                    *)
LEMMA Rectangle ==
  ASSUME NEW m \in Nat, NEW n \in Nat
  PROVE  /\ IsFiniteSet((1 .. m) \X (1 .. n))
         /\ Cardinality((1 .. m) \X (1 .. n)) = m * n
<1>1. IsFiniteSet(1 .. m) /\ Cardinality(1 .. m) = m /\ IsFiniteSet(1 .. n) /\ Cardinality(1 .. n) = n
  BY FS_Interval
<1>2. /\ IsFiniteSet((1 .. m) \X (1 .. n))
      /\ Cardinality((1 .. m) \X (1 .. n)) = Cardinality(1 .. m) * Cardinality(1 .. n)
  BY <1>1, FS_Product
<1> QED
  BY <1>1, <1>2, Zenon

(* What is read of a session are its frames, all of one length, and PNGs.   *)
LEMMA UnitsBound ==
  ASSUME NEW q \in Seq(Nat), IsFiniteSet(Units(q)), frames \in Nat, Len(q) <= 2 * frames,
         \A n \in 1 .. Len(q) : q[n] = PartOf(n),
         pngs \in [1 .. frames -> Nat], IsFiniteSet(Units(pngs))
  PROVE  Cardinality(Units(q)) <= frames * FrameSize + Cardinality(Units(pngs))
<1> DEFINE T == Units(q)
           A == {x \in T : x[1] % 2 = 1}
           B == {x \in T : x[1] % 2 # 1}
           F == (1 .. frames) \X (1 .. FrameSize)
           f == [x \in A |-> <<(x[1] + 1) \div 2, x[2]>>]
           g == [x \in B |-> <<x[1] \div 2, x[2]>>]
<1>1. FrameSize \in Nat /\ Len(q) \in Nat /\ DOMAIN q = 1 .. Len(q)
  BY WorkerAssumption, LenProperties
<1>2. \A x \in T : /\ x = <<x[1], x[2]>> /\ x[1] \in 1 .. 2 * frames /\ x[2] \in 1 .. PartOf(x[1])
                   /\ x[1] \in Nat
  BY <1>1 DEF Units
<1>3. f \in [A -> F]
  <2>1. \A n \in 1 .. 2 * frames : n % 2 = 1 => (n + 1) \div 2 \in 1 .. frames
    OBVIOUS
  <2>2. ASSUME NEW x \in A PROVE (x[1] + 1) \div 2 \in 1 .. frames /\ x[2] \in 1 .. FrameSize
    BY <1>2, <2>1 DEF PartOf
  <2> HIDE DEF A
  <2> QED
    BY <2>2
<1>4. g \in [B -> Units(pngs)]
  <2>1. \A n \in 1 .. 2 * frames : n % 2 # 1 => n \div 2 \in 1 .. frames
    OBVIOUS
  <2>2. ASSUME NEW x \in B PROVE <<x[1] \div 2, x[2]>> \in Units(pngs)
    <3>1. x[1] \div 2 \in 1 .. frames /\ x[2] \in 1 .. pngs[x[1] \div 2]
      BY <1>2, <2>1 DEF PartOf
    <3> DEFINE i == x[1] \div 2
               j == x[2]
    <3>2. i \in DOMAIN pngs /\ j \in 1 .. pngs[i]
      BY <3>1
    <3> HIDE DEF i, j
    <3>3. <<i, j>> \in Units(pngs)
      <4>1. <<i, j>> \in {i} \X (1 .. pngs[i])
        BY <3>2
      <4> QED
        BY <3>2, <4>1, SMTT(30) DEF Units
    <3> QED
      BY <3>3 DEF i, j
  <2> HIDE DEF B
  <2> QED
    BY <2>2
<1>5. f \in Injection(A, F)
  <2>1. \A n, m \in Nat : n % 2 = 1 /\ m % 2 = 1 /\ (n + 1) \div 2 = (m + 1) \div 2 => n = m
    BY SMTT(60)
  <2>2. SUFFICES ASSUME NEW x \in A, NEW y \in A, f[x] = f[y] PROVE x = y
    BY <1>3 DEF Injection, IsInjective
  <2>3. (x[1] + 1) \div 2 = (y[1] + 1) \div 2 /\ x[2] = y[2]
    BY <2>2
  <2>4. x[1] = y[1]
    BY <1>2, <2>1, <2>3
  <2> QED
    BY <1>2, <2>3, <2>4
<1>6. g \in Injection(B, Units(pngs))
  <2>1. \A n, m \in Nat : n % 2 # 1 /\ m % 2 # 1 /\ n \div 2 = m \div 2 => n = m
    BY SMTT(60)
  <2>2. SUFFICES ASSUME NEW x \in B, NEW y \in B, g[x] = g[y] PROVE x = y
    BY <1>4 DEF Injection, IsInjective
  <2>3. x[1] \div 2 = y[1] \div 2 /\ x[2] = y[2]
    BY <2>2
  <2>4. x[1] = y[1]
    BY <1>2, <2>1, <2>3
  <2> QED
    BY <1>2, <2>3, <2>4
<1>7. IsFiniteSet(F) /\ Cardinality(F) = frames * FrameSize
  BY <1>1, Rectangle
<1>8. T = A \union B
  OBVIOUS
<1> HIDE DEF T, A, B, F, f, g
<1>9. IsFiniteSet(A) /\ Cardinality(A) <= Cardinality(F)
  BY <1>5, <1>7, FS_Injection
<1>10. IsFiniteSet(B) /\ Cardinality(B) <= Cardinality(Units(pngs))
  BY <1>6, FS_Injection
<1>11. Cardinality(T) = Cardinality(A) + Cardinality(B) - Cardinality(A \intersect B)
  BY <1>8, <1>9, <1>10, FS_Union
<1>12. IsFiniteSet(A \intersect B)
  BY <1>9, FS_Intersection
<1>13. /\ Cardinality(A) \in Nat /\ Cardinality(B) \in Nat /\ Cardinality(A \intersect B) \in Nat
       /\ Cardinality(Units(pngs)) \in Nat /\ Cardinality(F) \in Nat
  BY <1>7, <1>9, <1>10, <1>12, FS_CardinalityType
<1>14. Cardinality(T) <= Cardinality(F) + Cardinality(Units(pngs))
  BY <1>9, <1>10, <1>11, <1>13
<1> QED
  BY <1>7, <1>14 DEF T

-----------------------------------------------------------------------------
(* Steps that leave the exchange alone.                                     *)

(* Starting, waiting, killing and dying: the child goes on sleeping or      *)
(* ends, and the parent asks, ends, or has all there is.                    *)
LEMMA Elsewhere ==
  ASSUME WorkerInv, UNCHANGED <<platform, req, got, left, encoding, rendering, stdout>>,
         out' = out \/ (out' \in Nat /\ child' \in Ended),
         child' = child \/ child' \in Ended \/ (child \in Asleep /\ child' \in Asleep),
         parent' \in Place, err' \in Error \union {Nothing}, result' \in {Nothing, "session", "failed"},
         limited' \in BOOLEAN,
         parent' \in Before => parent \in Before /\ Taken' = Taken,
         parent' \in {"parts", "eof"} => parent' = parent,
         HasAll' => HasAll \/ parent = "eof"
  PROVE  WorkerTypeOK' /\ RenderOK' /\ (UnderWay' => Checked') /\ StreamOK' /\ GotOK'
<1>1. /\ UNCHANGED <<frames, budget, pngs, bytes, exceeded>>
      /\ WorkerTypeOK /\ ParentOK /\ RenderOK /\ (UnderWay => Checked) /\ StreamOK /\ GotOK
  BY DEF WorkerInv, encoding, rendering
<1>2. /\ Warmup' = Warmup /\ Available(frames)' = Available(frames)
      /\ \A n : PartOf(n)' = PartOf(n)
      /\ \A k : Stream(k)' = Stream(k)
      /\ Units(pngs)' = Units(pngs) /\ Units(got)' = Units(got)
  BY <1>1 DEF Warmup, Available, PartOf, Stream, Units
<1>3. WorkerTypeOK'
  BY <1>1, <1>2 DEF WorkerTypeOK, Child, Early, Ended
<1>4. RenderOK'
  BY <1>1, <1>2 DEF RenderOK, Early, Asleep, Ended
<1>5. UnderWay' => Checked'
  <2>1. UnderWay' => UnderWay
    BY <1>1 DEF UnderWay, Asleep, Ended
  <2> QED
    BY <1>1, <1>2, <2>1 DEF Checked, Early, Asleep, Ended
<1>6. StreamOK'
  <2>1. parent' \in Active => parent \in Active /\ Taken' = Taken
    BY DEF Active, Taken, Before
  <2> QED
    BY <1>1, <1>2, <2>1 DEF StreamOK, Asleep, Ended
<1>7. GotOK'
  <2>1. parent' \in Active \/ HasAll' => parent \in Active \/ HasAll
    BY DEF Active
  <2>2. HasAll => parent # "parts" /\ parent # "eof"
    BY <1>1, WorkerAssumption DEF HasAll, ParentOK
  <2>3. HasAll' => parent' # "parts" \/ parent = "parts"
    OBVIOUS
  <2> QED
    BY <1>1, <1>2, <2>1, <2>2, <2>3 DEF GotOK
<1> QED
  BY <1>3, <1>4, <1>5, <1>6, <1>7

(* The steps that do so.                                                    *)
LEMMA ElsewhereKept ==
  ASSUME WorkerInv, \/ StartChild \/ Configure \/ Send \/ Kill \/ Wait
                    \/ ContextEnds \/ ParentDies \/ ContextKills \/ OrphanKilled \/ ChildDies
                    \/ ReadRequest \/ ReadBody \/ ChildExits \/ (Receive /\ ReadEnd) \/ UNCHANGED workerVars
  PROVE  WorkerTypeOK' /\ RenderOK' /\ (UnderWay' => Checked') /\ StreamOK' /\ GotOK'
<1>1. /\ WorkerTypeOK /\ ParentOK
      /\ Nothing \notin {"session", "failed", "configure", "send", "child", "header", "budget", "eof"}
  BY WorkerAssumption DEF WorkerInv
<1> USE <1>1 DEF Goes, Fails, parentVars, Active, Before, Place, Error, Ended, Asleep, Taken, HasAll, WorkerTypeOK
<1>2. CASE StartChild
  <2> USE <1>2 DEF StartChild
  <2>1. child = "none"
    BY DEF ParentOK
  <2> QED
    BY <2>1, Elsewhere
<1>3. CASE Configure
  BY <1>3, Elsewhere DEF Configure
<1>4. CASE Send
  BY <1>4, Elsewhere DEF Send
<1>5. CASE Kill
  BY <1>5, Elsewhere DEF Kill, Killed, ParentOK
<1>6. CASE Wait
  BY <1>6, Elsewhere DEF Wait, Accepted
<1>7. CASE ContextEnds
  BY <1>7, Elsewhere DEF ContextEnds
<1>8. CASE ParentDies
  BY <1>8, Elsewhere DEF ParentDies, ParentOK
<1>9. CASE ContextKills \/ OrphanKilled \/ ChildDies
  BY <1>9, Elsewhere DEF ContextKills, OrphanKilled, ChildDies, Killed
<1>10. CASE ReadRequest
  <2>1. UNCHANGED <<platform, req, parent, err, result, got, left, encoding, rendering, out, stdout>>
    BY <1>10 DEF ReadRequest
  <2>3. child' \in Ended \/ (child \in Asleep /\ child' \in Asleep)
    BY <1>10 DEF ReadRequest, Ends
  <2>4. limited' \in BOOLEAN
    BY <1>10 DEF ReadRequest, LimitedByItself
  <2>2. Taken' = Taken /\ (HasAll' => HasAll)
    BY <2>1
  <2> QED
    BY <2>1, <2>2, <2>3, <2>4, Elsewhere
<1>11. CASE ReadBody
  BY <1>11, Elsewhere DEF ReadBody, Ends
<1>12. CASE ChildExits
  BY <1>12, Elsewhere DEF ChildExits, Ends
<1>13. CASE Receive /\ ReadEnd
  BY <1>13, Elsewhere DEF Receive, ReadEnd, ParentOK
<1>14. CASE UNCHANGED workerVars
  BY <1>14, Elsewhere DEF workerVars
<1> QED
  BY <1>2, <1>3, <1>4, <1>5, <1>6, <1>7, <1>8, <1>9, <1>10, <1>11, <1>12, <1>13, <1>14

-----------------------------------------------------------------------------
(* The parent reads.                                                        *)

(* What is behind the first write in the pipe.                              *)
LEMMA Behind ==
  ASSUME stdout \in Seq(Token), stdout # << >>
  PROVE  /\ Len(stdout) \in Nat \ {0} /\ DOMAIN stdout = 1 .. Len(stdout) /\ Head(stdout) = stdout[1]
         /\ Tail(stdout) \in Seq(Token) /\ Len(Tail(stdout)) = Len(stdout) - 1
         /\ DOMAIN Tail(stdout) = 1 .. (Len(stdout) - 1)
         /\ \A i \in DOMAIN Tail(stdout) : i + 1 \in DOMAIN stdout /\ Tail(stdout)[i] = stdout[i + 1]
<1>1. Len(stdout) \in Nat /\ DOMAIN stdout = 1 .. Len(stdout) /\ Len(stdout) # 0
  BY LenProperties, EmptySeq
<1>2. /\ Tail(stdout) \in Seq(Token) /\ Len(Tail(stdout)) = Len(stdout) - 1 /\ Head(stdout) = stdout[1]
      /\ \A i \in 1 .. Len(Tail(stdout)) : Tail(stdout)[i] = stdout[i + 1]
  BY HeadTailProperties
<1>3. DOMAIN Tail(stdout) = 1 .. (Len(stdout) - 1)
  BY <1>2, LenProperties
<1> QED
  BY <1>1, <1>2, <1>3

(* The parent takes the first write and goes on, or gives up.               *)
LEMMA ReadOn ==
  ASSUME WorkerInv, parent \in Active, stdout # << >>, stdout' = Tail(stdout),
         UNCHANGED <<platform, req, child, limited, encoding, rendering, out>>,
         parent' \in Place, parent' \in Active => Taken' = Taken + 1,
         err' \in Error \union {Nothing}, result' = result,
         got' \in Seq(Nat), IsFiniteSet(Units(got')), left' \in Int,
         parent' # "wait", parent' \in {"parts", "eof"} => UnderWay
  PROVE  WorkerTypeOK' /\ RenderOK' /\ StreamOK' /\ (UnderWay' => Checked')
<1>1. /\ UNCHANGED <<frames, budget, pngs, bytes, exceeded>>
      /\ WorkerTypeOK /\ ParentOK /\ RenderOK /\ (UnderWay => Checked) /\ StreamOK
  BY DEF WorkerInv, encoding, rendering
<1>2. /\ Len(stdout) \in Nat \ {0} /\ stdout' \in Seq(Token) /\ Len(stdout') = Len(stdout) - 1
      /\ \A i \in DOMAIN stdout' : i \in Nat /\ i + 1 \in DOMAIN stdout /\ stdout'[i] = stdout[i + 1]
  BY <1>1, Behind DEF WorkerTypeOK
<1>3. /\ Warmup' = Warmup /\ Available(frames)' = Available(frames)
      /\ \A n : PartOf(n)' = PartOf(n)
      /\ \A k : Stream(k)' = Stream(k)
      /\ Units(pngs)' = Units(pngs)
  BY <1>1 DEF Warmup, Available, PartOf, Stream, Units
<1>4. WorkerTypeOK'
  BY <1>1, <1>2, <1>3 DEF WorkerTypeOK
<1>5. RenderOK'
  BY <1>1, <1>3 DEF RenderOK
<1>6. StreamOK'
  <2>1. Taken \in Nat
    BY <1>1, LenProperties DEF Taken, WorkerTypeOK
  <2>2. ASSUME parent' \in Active, NEW i \in DOMAIN stdout'
        PROVE  stdout'[i] = Stream(Taken' + i) \/ (stdout'[i] = <<"error">> /\ Taken' + i = 2)
    <3>1. Taken' + i = Taken + (i + 1)
      BY <1>2, <2>1, <2>2
    <3> QED
      BY <1>1, <1>2, <2>2, <3>1 DEF StreamOK
  <2>3. parent' \in Active => Taken' + Len(stdout') = Taken + Len(stdout)
    BY <1>2, <2>1
  <2> QED
    BY <1>1, <1>3, <2>2, <2>3 DEF StreamOK
<1>7. ASSUME UnderWay' PROVE Checked'
  <2>1. HasAll' => HasAll
    BY DEF HasAll
  <2>2. UnderWay
    BY <1>2, <1>7, <2>1 DEF UnderWay
  <2> QED
    BY <1>1, <1>3, <2>2 DEF Checked
<1> QED
  BY <1>4, <1>5, <1>6, <1>7

(* The acknowledgement, and the header: nobody doubts the child's warm-up.  *)
LEMMA AckKept ==
  ASSUME WorkerInv, Receive, ReadAck
  PROVE  WorkerTypeOK' /\ RenderOK' /\ (UnderWay' => Checked') /\ StreamOK' /\ GotOK'
<1>1. /\ parent = "ack" /\ stdout # << >> /\ stdout' = Tail(stdout) /\ parent' = "header"
      /\ UNCHANGED <<err, result, got, left>>
      /\ UNCHANGED <<platform, req, child, limited, encoding, rendering, out>>
      /\ WorkerTypeOK /\ GotOK /\ ParentOK
  BY DEF Receive, ReadAck, Read, Goes, WorkerInv
<1>2. Taken' = Taken + 1 /\ Units(got)' = Units(got)
  BY <1>1 DEF Taken, Units
<1>3. WorkerTypeOK' /\ RenderOK' /\ StreamOK' /\ (UnderWay' => Checked')
  BY <1>1, <1>2, ReadOn DEF Active, Before, Place, WorkerTypeOK
<1>4. GotOK'
  <2>1. ~HasAll'
    BY <1>1, WorkerAssumption DEF HasAll, ParentOK
  <2> QED
    BY <1>1, <1>2, <2>1 DEF GotOK, Active, Before
<1> QED
  BY <1>3, <1>4

(* A header is believed, an error ends the exchange.                        *)
LEMMA HeaderKept ==
  ASSUME WorkerInv, Receive, ReadHeader
  PROVE  WorkerTypeOK' /\ RenderOK' /\ (UnderWay' => Checked') /\ StreamOK' /\ GotOK'
<1>1. /\ parent = "header" /\ stdout # << >> /\ stdout' = Tail(stdout)
      /\ UNCHANGED <<result, got, left>>
      /\ UNCHANGED <<platform, req, child, limited, encoding, rendering, out>>
      /\ WorkerTypeOK /\ GotOK /\ ParentOK /\ StreamOK
  BY DEF Receive, ReadHeader, Read, Goes, Fails, WorkerInv
<1>2. Len(stdout) \in Nat \ {0} /\ DOMAIN stdout = 1 .. Len(stdout) /\ Head(stdout) = stdout[1]
  BY <1>1, Behind DEF WorkerTypeOK
<1>3. stdout[1] = Stream(2) \/ stdout[1] = <<"error">>
  <2>1. 1 \in DOMAIN stdout /\ Taken + 1 = 2
    BY <1>1, <1>2 DEF Taken
  <2> QED
    BY <1>1, <2>1 DEF StreamOK, Active, Before
<1>4. Stream(2) = <<"header", Warmup>> /\ Warmup \in {Min({InitialFrames, frames}), frames}
  BY DEF Stream, Warmup
<1>5. Units(got)' = Units(got) /\ got = << >> /\ Len(got) = 0 /\ left = req.cache - Cardinality(Units(got))
  <2>1. got = << >> /\ left = req.cache - Cardinality(Units(got))
    BY <1>1 DEF GotOK, Active, Before
  <2> QED
    BY <1>1, <2>1, EmptySeq DEF Units
<1>6. CASE Read("error") /\ Fails("child")
  <2>1. WorkerTypeOK' /\ RenderOK' /\ StreamOK' /\ (UnderWay' => Checked')
    BY <1>1, <1>5, <1>6, ReadOn DEF Active, Before, Place, WorkerTypeOK, Fails, Error
  <2>2. ~HasAll' /\ parent' \notin Active
    BY <1>1, <1>6, WorkerAssumption DEF HasAll, ParentOK, Fails, Active, Before
  <2> QED
    BY <2>1, <2>2 DEF GotOK, Active
<1>7. CASE Read("header")
  <2>1. stdout[1] = <<"header", Warmup>> /\ Head(stdout)[2] = Warmup /\ stdout[1][1] = "header"
    BY <1>2, <1>3, <1>4, <1>7 DEF Read
  <2>2. parent' = "parts" /\ err' = err
    BY <1>1, <1>4, <1>7, <2>1 DEF Receive, ReadHeader, Read, Goes
  <2>3. UnderWay /\ Checked
    BY <1>2, <2>1 DEF UnderWay, WorkerInv
  <2>4. Taken' = Taken + 1
    BY <1>1, <1>5, <2>2 DEF Taken
  <2>5. WorkerTypeOK' /\ RenderOK' /\ StreamOK' /\ (UnderWay' => Checked')
    BY <1>1, <1>5, <2>2, <2>3, <2>4, ReadOn DEF Active, Before, Place, WorkerTypeOK
  <2>6. GotOK'
    <3>1. frames' = frames /\ frames > 0 /\ frames \in Nat /\ got' = << >> /\ Len(got') = 0
      BY <1>1, <1>5, <2>3 DEF Checked, encoding, WorkerTypeOK
    <3>2. \A n \in 1 .. Len(got') : FALSE
      BY <3>1
    <3> QED
      BY <1>1, <1>5, <2>2, <3>1, <3>2 DEF GotOK, Active, Before
  <2> QED
    BY <2>5, <2>6
<1> QED
  BY <1>6, <1>7 DEF Receive, ReadHeader

(* A part is as long as the parent has left for it, and empty only where it *)
(* may be.                                                                  *)
LEMMA PartFits ==
  ASSUME WorkerTypeOK, Checked, GotOK, parent = "parts"
  PROVE  LET n == Len(got) + 1
         IN  /\ n \in 1 .. 2 * frames /\ PartOf(n) \in Nat /\ left \in Int
             /\ PartOf(n) <= left /\ ~(PartOf(n) = 0 /\ ~MayBeEmpty(n))
             /\ Append(got, PartOf(n)) \in Seq(Nat) /\ IsFiniteSet(Units(Append(got, PartOf(n))))
             /\ Cardinality(Units(Append(got, PartOf(n)))) = Cardinality(Units(got)) + PartOf(n)
             /\ left - PartOf(n) = req.cache - Cardinality(Units(Append(got, PartOf(n))))
             /\ Len(Append(got, PartOf(n))) = n
             /\ \A i \in 1 .. n : Append(got, PartOf(n))[i] = PartOf(i)
<1> DEFINE n == Len(got) + 1
           length == PartOf(n)
           q == Append(got, length)
<1>1. /\ got \in Seq(Nat) /\ Len(got) \in Nat /\ IsFiniteSet(Units(got)) /\ left \in Int
      /\ frames \in Nat /\ frames > 0 /\ pngs \in [1 .. frames -> Nat] /\ IsFiniteSet(Units(pngs))
      /\ left = req.cache - Cardinality(Units(got)) /\ Len(got) < 2 * frames
      /\ \A i \in 1 .. Len(got) : got[i] = PartOf(i)
  BY LenProperties DEF WorkerTypeOK, Checked, GotOK, Active
<1>2. n \in 1 .. 2 * frames /\ n \in Nat
  BY <1>1
<1>3. req.cache \in Nat /\ FrameSize \in Nat \ {0} /\ Warmup \in Int
  <2>1. Warmup \in {Min({InitialFrames, frames}), frames}
    BY DEF Warmup
  <2>2. InitialFrames \in Int /\ frames \in Int
    BY <1>1, Given DEF WorkerTypeOK
  <2>3. Min({InitialFrames, frames}) \in {InitialFrames, frames}
    BY <2>2, MinTwo
  <2> QED
    BY <2>1, <2>2, <2>3, Given DEF WorkerTypeOK
<1> HIDE DEF n
<1>4. length \in Nat /\ ~(length = 0 /\ ~MayBeEmpty(n))
  <2>1. n % 2 = 1 \/ (n % 2 = 0 /\ n \div 2 \in 1 .. frames)
    BY <1>1, <1>2
  <2>2. CASE n % 2 = 1
    BY <1>3, <2>2 DEF PartOf
  <2>3. CASE n % 2 = 0 /\ n \div 2 \in 1 .. frames
    <3> DEFINE i == n \div 2
    <3>1. length = pngs[i] /\ i \in 1 .. frames
      BY <2>3 DEF PartOf
    <3> HIDE DEF i
    <3>2. length \in Nat
      BY <1>1, <3>1
    <3>3. length = 0 => ~(i \in 1 .. Warmup)
      BY <3>1 DEF Checked
    <3>4. length = 0 => i > Warmup
      BY <1>1, <1>3, <3>1, <3>3
    <3> QED
      BY <2>3, <3>2, <3>4 DEF MayBeEmpty, i
  <2> QED
    BY <2>1, <2>2, <2>3
<1> HIDE DEF length
<1>5. /\ q \in Seq(Nat) /\ Len(q) = Len(got) + 1 /\ q[Len(got) + 1] = length
      /\ \A i \in 1 .. Len(got) : q[i] = got[i]
  BY <1>1, <1>4, AppendProperties
<1>6. IsFiniteSet(Units(q)) /\ Cardinality(Units(q)) = Cardinality(Units(got)) + length
  BY <1>1, <1>4, UnitsAppended
<1> HIDE DEF q
<1>7. \A i \in 1 .. n : q[i] = PartOf(i)
  <2>1. \A i \in 1 .. n : i \in 1 .. Len(got) \/ i = Len(got) + 1
    BY <1>1 DEF n
  <2> QED
    BY <1>1, <1>5, <2>1 DEF length, n
<1>8. Cardinality(Units(q)) <= frames * FrameSize + Cardinality(Units(pngs))
  <2>1. Len(q) = n /\ Len(q) <= 2 * frames
    BY <1>2, <1>5 DEF n
  <2> QED
    BY <1>1, <1>5, <1>6, <1>7, <2>1, UnitsBound
<1>9. Cardinality(Units(pngs)) <= budget /\ budget <= req.cache - frames * FrameSize /\ budget \in Int
  BY DEF Checked, Available, WorkerTypeOK
<1>10. Cardinality(Units(q)) <= req.cache
  <2> DEFINE m == frames * FrameSize
  <2>1. m \in Nat
    BY <1>1, <1>3
  <2>2. Cardinality(Units(pngs)) \in Nat /\ Cardinality(Units(q)) \in Nat
    BY <1>1, <1>6, FS_CardinalityType
  <2>3. Cardinality(Units(q)) <= m + Cardinality(Units(pngs)) /\ budget <= req.cache - m
    BY <1>8, <1>9
  <2> HIDE DEF m
  <2> QED
    BY <1>3, <1>9, <2>1, <2>2, <2>3
<1>11. Cardinality(Units(got)) \in Nat /\ Cardinality(Units(q)) \in Nat
  BY <1>1, <1>6, FS_CardinalityType
<1>12. length <= left /\ left - length = req.cache - Cardinality(Units(q))
  BY <1>1, <1>3, <1>4, <1>6, <1>10, <1>11
<1>13. Len(q) = n
  BY <1>5 DEF n
<1> QED
  BY <1>1, <1>2, <1>4, <1>5, <1>6, <1>7, <1>12, <1>13 DEF n, length, q

(* The next part is the next of the session: it is never refused.           *)
LEMMA PartKept ==
  ASSUME WorkerInv, Receive, ReadPart
  PROVE  WorkerTypeOK' /\ RenderOK' /\ (UnderWay' => Checked') /\ StreamOK' /\ GotOK'
<1> DEFINE n == Len(got) + 1
           length == PartOf(n)
           q == Append(got, length)
<1>1. /\ parent = "parts" /\ stdout # << >> /\ stdout' = Tail(stdout)
      /\ UNCHANGED <<platform, req, child, limited, encoding, rendering, out>>
      /\ WorkerTypeOK /\ GotOK /\ ParentOK /\ StreamOK
  BY DEF Receive, ReadPart, WorkerInv
<1>2. UnderWay /\ Checked
  BY <1>1 DEF UnderWay, WorkerInv
<1>3. Head(stdout)[2] = length
  <2>1. Len(stdout) \in Nat \ {0} /\ DOMAIN stdout = 1 .. Len(stdout) /\ Head(stdout) = stdout[1]
    BY <1>1, Behind DEF WorkerTypeOK
  <2>2. Len(got) \in Nat
    BY <1>1, LenProperties DEF WorkerTypeOK
  <2>3. Taken = 2 + Len(got) /\ 1 \in DOMAIN stdout
    BY <1>1, <2>1 DEF Taken
  <2>4. stdout[1] = Stream(Taken + 1)
    BY <1>1, <2>2, <2>3 DEF StreamOK, Active
  <2>5. Taken + 1 # 1 /\ Taken + 1 # 2 /\ (Taken + 1) - 2 = n
    BY <2>2, <2>3
  <2>6. Stream(Taken + 1) = <<"part", length>>
    BY <2>5 DEF Stream
  <2> QED
    BY <2>1, <2>4, <2>6
<1>4. /\ n \in 1 .. 2 * frames /\ length \in Nat /\ left \in Int
      /\ length <= left /\ ~(length = 0 /\ ~MayBeEmpty(n))
      /\ q \in Seq(Nat) /\ IsFiniteSet(Units(q))
      /\ left - length = req.cache - Cardinality(Units(q))
      /\ Len(q) = n /\ \A i \in 1 .. n : q[i] = PartOf(i)
  BY <1>1, <1>2, PartFits
<1>5. /\ got' = q /\ left' = left - length
      /\ parent' = (IF n = 2 * frames THEN "eof" ELSE "parts")
      /\ UNCHANGED <<err, result>>
  <2>1. ~((length = 0 /\ ~MayBeEmpty(n)) \/ length > left)
    BY <1>4
  <2> QED
    BY <1>3, <2>1 DEF ReadPart
<1>6. frames \in Nat /\ Len(got) \in Nat
  BY <1>1, LenProperties DEF WorkerTypeOK
<1> HIDE DEF q, length
<1>7. Taken' = Taken + 1
  BY <1>1, <1>4, <1>5, <1>6 DEF Taken
<1>8. WorkerTypeOK' /\ RenderOK' /\ StreamOK' /\ (UnderWay' => Checked')
  <2>1. parent' \in Place /\ parent' # "wait" /\ left' \in Int
    BY <1>4, <1>5 DEF Place, Active
  <2> QED
    BY <1>1, <1>2, <1>4, <1>5, <1>7, <2>1, ReadOn DEF Active, WorkerTypeOK
<1>9. GotOK'
  <2>1. UNCHANGED <<req, frames, pngs>> /\ \A i : PartOf(i)' = PartOf(i)
    BY <1>1 DEF encoding, rendering, PartOf
  <2>2. ~HasAll'
    BY <1>1, <1>5, WorkerAssumption DEF HasAll, ParentOK
  <2>3. parent' \notin Before /\ left' = req'.cache - Cardinality(Units(got'))
    BY <1>4, <1>5, <2>1 DEF Before
  <2>4. /\ \A i \in 1 .. Len(got') : got'[i] = PartOf(i)
        /\ Len(got') <= 2 * frames
        /\ parent' # "parts" => Len(got') = 2 * frames
        /\ parent' = "parts" => Len(got') < 2 * frames
    BY <1>4, <1>5, <1>6
  <2> QED
    BY <2>1, <2>2, <2>3, <2>4 DEF GotOK
<1> QED
  BY <1>8, <1>9

-----------------------------------------------------------------------------
(* The child encodes, renders and writes.                                   *)

(* While the child is early nothing of the session is on its way.           *)
LEMMA NotYet == ASSUME WorkerInv, child \in Early PROVE ~UnderWay
BY DEF WorkerInv, Checked

(* The encoder may fail, or find that frames leave no room for PNGs; PNGs   *)
(* begin with none.                                                         *)
LEMMA EncodeKept ==
  ASSUME WorkerInv, Encode
  PROVE  WorkerTypeOK' /\ RenderOK' /\ (UnderWay' => Checked') /\ StreamOK' /\ GotOK'
<1>1. /\ child = "encode" /\ child' \in {"render", "report"} /\ pngs' = [i \in 1 .. frames' |-> 0]
      /\ UNCHANGED <<platform, req, parent, err, result, got, left, ctx, limited, next, job, bytes, exceeded, out, stdin, stdout>>
      /\ WorkerTypeOK /\ RenderOK /\ StreamOK /\ GotOK
  BY DEF WorkerInv, Encode, parentVars
<1>2. /\ frames' \in Nat /\ budget' \in Int
      /\ child' = "render" => frames' > 0 /\ 0 < budget' /\ budget' <= Available(frames)'
  <2>1. CASE UNCHANGED encoding /\ child' = "report"
    BY <1>1, <2>1 DEF encoding, WorkerTypeOK
  <2>2. ASSUME NEW n \in 1 .. MaxFrames, frames' = n,
               IF Available(n) > 0
               THEN child' = "render" /\ budget' = Min({MaxPNGCacheBytes, Available(n)})
               ELSE child' = "report" /\ UNCHANGED budget
        PROVE  /\ frames' \in Nat /\ budget' \in Int
               /\ child' = "render" => frames' > 0 /\ 0 < budget' /\ budget' <= Available(frames)'
    <3>1. MaxPNGCacheBytes \in Nat \ {0} /\ MaxFrames \in Nat
      BY WorkerAssumption
    <3>2. Available(n) \in Int
      <4>1. req.cache \in Nat /\ n * FrameSize \in Int
        BY <1>1, <3>1, Given DEF WorkerTypeOK
      <4> QED
        BY <4>1 DEF Available
    <3>3. /\ Min({MaxPNGCacheBytes, Available(n)}) \in {MaxPNGCacheBytes, Available(n)}
          /\ Min({MaxPNGCacheBytes, Available(n)}) <= Available(n)
      BY <3>1, <3>2, MinTwo
    <3>4. Available(frames)' = Available(n)
      BY <1>1, <2>2 DEF Available
    <3> DEFINE b == Min({MaxPNGCacheBytes, Available(n)})
               v == Available(n)
    <3> HIDE DEF b, v
    <3>5. budget \in Int /\ n \in Nat /\ n > 0
      BY <1>1, <3>1 DEF WorkerTypeOK
    <3>6. IF v > 0 THEN child' = "render" /\ budget' = b ELSE child' = "report" /\ budget' = budget
      BY <2>2 DEF b, v
    <3>7. b \in {MaxPNGCacheBytes, v} /\ b <= v /\ v \in Int /\ Available(frames)' = v
      BY <3>2, <3>3, <3>4 DEF b, v
    <3> QED
      BY <2>2, <3>1, <3>5, <3>6, <3>7
  <2> QED
    BY <2>1, <2>2 DEF Encode
<1>3. Units(pngs') = {} /\ IsFiniteSet(Units(pngs')) /\ Cardinality(Units(pngs')) = 0 /\ pngs' \in [1 .. frames' -> Nat]
  BY <1>1, <1>2, NoUnits
<1>4. WorkerTypeOK'
  BY <1>1, <1>2, <1>3 DEF WorkerTypeOK, Child, Early
<1>5. RenderOK'
  <2>1. bytes' = 0 /\ ~exceeded' /\ out' = 0
    BY <1>1 DEF RenderOK, Early
  <2> QED
    BY <1>1, <1>2, <1>3, <2>1 DEF RenderOK, Asleep
<1>6. ~UnderWay /\ ~UnderWay' /\ parent \notin {"parts", "eof"} /\ ~HasAll /\ ~HasAll'
  <2>1. ~UnderWay
    BY <1>1, NotYet DEF Early
  <2> QED
    BY <1>1, <2>1 DEF UnderWay, HasAll
<1>7. StreamOK'
  <2>1. ASSUME parent \in Active, NEW i \in DOMAIN stdout
        PROVE  stdout[i] = Stream(Taken + i)' \/ (stdout[i] = <<"error">> /\ Taken + i = 2)
    <3>1. Taken + Len(stdout) = 1 /\ Taken \in Nat /\ i \in 1 .. Len(stdout) /\ Len(stdout) \in Nat
      BY <1>1, <1>6, <2>1, LenProperties DEF StreamOK, Taken, WorkerTypeOK
    <3>2. Taken + i = 1
      BY <3>1
    <3>3. Stream(Taken + i)' = Stream(Taken + i)
      BY <1>1, <1>6, <3>2 DEF Stream, Taken
    <3> QED
      BY <1>1, <2>1, <3>3 DEF StreamOK
  <2>2. Taken' = Taken
    BY <1>1 DEF Taken
  <2> QED
    BY <1>1, <2>1, <2>2 DEF StreamOK, Asleep, Stream
<1>8. GotOK'
  BY <1>1, <1>6 DEF GotOK, Units
<1> QED
  BY <1>4, <1>5, <1>6, <1>7, <1>8

(* While PNGs are rendered only the acknowledgement has been written.       *)
LEMMA RenderingKept ==
  ASSUME WorkerInv, child = "render", child' = "render",
         UNCHANGED <<platform, req, parentVars, limited, encoding, out, stdout>>,
         WorkerTypeOK', RenderOK'
  PROVE  (UnderWay' => Checked') /\ StreamOK' /\ GotOK'
<1>1. UNCHANGED <<req, parent, err, result, got, left, frames, budget>> /\ StreamOK /\ GotOK /\ WorkerTypeOK
  BY DEF parentVars, encoding, WorkerInv
<1>2. ~UnderWay /\ ~UnderWay' /\ parent \notin {"parts", "eof"} /\ ~HasAll /\ ~HasAll'
  <2>1. ~UnderWay
    BY NotYet DEF Early
  <2> QED
    BY <1>1, <2>1 DEF UnderWay, HasAll
<1>3. StreamOK'
  <2>1. ASSUME parent \in Active, NEW i \in DOMAIN stdout
        PROVE  stdout[i] = Stream(Taken + i)' \/ (stdout[i] = <<"error">> /\ Taken + i = 2)
    <3>1. Taken + Len(stdout) = 1 /\ Taken \in Nat /\ i \in 1 .. Len(stdout) /\ Len(stdout) \in Nat
      BY <1>1, <1>2, <2>1, LenProperties DEF StreamOK, Taken, WorkerTypeOK
    <3>2. Taken + i = 1
      BY <3>1
    <3>3. Stream(Taken + i)' = Stream(Taken + i)
      BY <1>1, <1>2, <3>2 DEF Stream, Taken
    <3> QED
      BY <1>1, <2>1, <3>3 DEF StreamOK
  <2>2. Taken' = Taken
    BY <1>1 DEF Taken
  <2> QED
    BY <1>1, <2>1, <2>2 DEF StreamOK, Asleep, Stream
<1>4. GotOK'
  BY <1>1, <1>2 DEF GotOK, Units
<1> QED
  BY <1>2, <1>3, <1>4

(* A renderer takes a frame.                                                *)
LEMMA TakeJobKept ==
  ASSUME WorkerInv, NEW r \in Renderer, TakeJob(r)
  PROVE  WorkerTypeOK' /\ RenderOK' /\ (UnderWay' => Checked') /\ StreamOK' /\ GotOK'
<1>1. /\ child = "render" /\ WorkerTypeOK /\ RenderOK
      /\ UNCHANGED <<platform, req, parentVars, child, limited, encoding, pngs, bytes, exceeded, out, stdout>>
  BY DEF TakeJob, WorkerInv
<1>2. WorkerTypeOK' /\ RenderOK'
  BY <1>1 DEF WorkerTypeOK, RenderOK, parentVars, encoding, Available, Units
<1> QED
  BY <1>1, <1>2, RenderingKept

(* A renderer counts its PNG, and keeps it unless the budget is exceeded.   *)
LEMMA RenderedKept ==
  ASSUME WorkerInv, NEW r \in Renderer, Rendered(r)
  PROVE  WorkerTypeOK' /\ RenderOK' /\ (UnderWay' => Checked') /\ StreamOK' /\ GotOK'
<1>1. /\ child = "render" /\ WorkerTypeOK /\ RenderOK
      /\ UNCHANGED <<platform, req, parentVars, child, limited, encoding, out, stdout>>
  BY DEF Rendered, WorkerInv
<1>2. /\ UNCHANGED <<req, parent, err, result, got, left, frames, budget>> /\ Available(frames)' = Available(frames)
      /\ Units(got)' = Units(got)
  BY <1>1 DEF parentVars, encoding, Available, Units
<1>3. PICK size \in Nat :
        /\ bytes' = bytes + size
        /\ IF Over(bytes + size)
           THEN exceeded' = TRUE /\ UNCHANGED pngs
           ELSE pngs' = [pngs EXCEPT ![job[r]] = size] /\ UNCHANGED exceeded
  BY WorkerAssumption DEF Rendered
<1>4. /\ frames > 0 /\ 0 < budget /\ budget <= Available(frames) /\ budget \in Int /\ bytes \in Nat /\ frames \in Nat
      /\ pngs \in [1 .. frames -> Nat] /\ IsFiniteSet(Units(pngs)) /\ Cardinality(Units(pngs)) \in Nat
  BY <1>1, FS_CardinalityType DEF RenderOK, WorkerTypeOK
<1>5. CASE Over(bytes + size)
  <2>1. exceeded' = TRUE /\ pngs' = pngs
    BY <1>3, <1>5
  <2>2. WorkerTypeOK'
    BY <1>1, <1>2, <1>3, <1>4, <2>1 DEF WorkerTypeOK, Units
  <2>3. RenderOK'
    BY <1>1, <1>2, <1>4, <2>1 DEF RenderOK, Asleep
  <2> QED
    BY <1>1, <2>2, <2>3, RenderingKept
<1>6. CASE ~Over(bytes + size)
  <2>1. pngs' = [pngs EXCEPT ![job[r]] = size] /\ exceeded' = exceeded
    BY <1>3, <1>6
  <2>2. /\ pngs' \in [1 .. frames -> Nat] /\ IsFiniteSet(Units(pngs'))
        /\ Cardinality(Units(pngs')) <= Cardinality(Units(pngs)) + size
    BY <1>4, <2>1, UnitsKept
  <2>3. bytes' <= budget
    BY <1>3, <1>4, <1>6 DEF Over
  <2>4. Cardinality(Units(pngs')) \in Nat
    BY <2>2, FS_CardinalityType
  <2>5. WorkerTypeOK'
    BY <1>1, <1>2, <1>3, <1>4, <2>1, <2>2 DEF WorkerTypeOK
  <2>6. ~exceeded => Cardinality(Units(pngs')) <= bytes'
    BY <1>1, <1>3, <1>4, <2>2, <2>4 DEF RenderOK
  <2>7. RenderOK'
    BY <1>1, <1>2, <1>4, <2>1, <2>3, <2>6 DEF RenderOK, Asleep
  <2> QED
    BY <1>1, <2>5, <2>7, RenderingKept
<1> QED
  BY <1>5, <1>6

(* The rendering is over: all PNGs of the warm-up are there, or an error is *)
(* reported.                                                                *)
LEMMA RenderEndsKept ==
  ASSUME WorkerInv, RenderEnds
  PROVE  WorkerTypeOK' /\ RenderOK' /\ (UnderWay' => Checked') /\ StreamOK' /\ GotOK'
<1>1. /\ child = "render" /\ WorkerTypeOK /\ RenderOK /\ StreamOK /\ GotOK
      /\ UNCHANGED <<platform, req, parentVars, limited, encoding, rendering, out, stdout>>
      /\ child' = (IF exceeded \/ \E i \in 1 .. Warmup : pngs[i] = 0 THEN "report" ELSE "header")
  BY DEF RenderEnds, WorkerInv
<1>2. UNCHANGED <<req, parent, err, result, got, left, frames, budget, pngs, bytes, exceeded>>
  BY <1>1 DEF parentVars, encoding, rendering
<1>3. /\ Warmup' = Warmup /\ Available(frames)' = Available(frames)
      /\ \A n : PartOf(n)' = PartOf(n)
      /\ \A k : Stream(k)' = Stream(k)
      /\ Units(pngs)' = Units(pngs) /\ Units(got)' = Units(got) /\ Taken' = Taken
  BY <1>1, <1>2 DEF Warmup, Available, PartOf, Stream, Units, Taken
<1>4. WorkerTypeOK'
  BY <1>1, <1>2, <1>3 DEF WorkerTypeOK, Child, Early
<1>5. RenderOK'
  BY <1>1 DEF RenderOK, Early, Asleep
<1>6. ASSUME UnderWay' PROVE Checked'
  <2>1. child' = "header"
    <3>1. ~UnderWay
      BY <1>1, NotYet DEF Early
    <3> QED
      BY <1>1, <1>2, <1>6, <3>1 DEF UnderWay, HasAll
  <2>2. ~exceeded /\ \A i \in 1 .. Warmup : pngs[i] # 0
    BY <1>1, <2>1
  <2>3. Cardinality(Units(pngs)) <= budget
    <3>1. Cardinality(Units(pngs)) \in Nat
      BY <1>1, FS_CardinalityType DEF RenderOK, WorkerTypeOK
    <3> QED
      BY <1>1, <2>2, <3>1 DEF RenderOK, WorkerTypeOK
  <2> QED
    BY <1>1, <1>2, <1>3, <2>1, <2>2, <2>3 DEF Checked, Early, Asleep, RenderOK
<1>7. StreamOK'
  BY <1>1, <1>2, <1>3 DEF StreamOK, Asleep
<1>8. GotOK'
  BY <1>2, <1>3, <1>1 DEF GotOK, HasAll
<1> QED
  BY <1>4, <1>5, <1>6, <1>7, <1>8

(* A write goes to the end of the output.                                   *)
LEMMA Written ==
  ASSUME WorkerInv, NEW token \in Token, stdout' = Append(stdout, token),
         UNCHANGED <<platform, req, parentVars, limited, encoding, rendering>>,
         child' \in Child, out' \in Nat, RenderOK',
         child' \notin Asleep \union {"render", "report", "header"},
         UnderWay => child' \notin Early,
         UnderWay \/ (child' \notin {"header", "parts"} /\ token \in {<<"ack">>, <<"error">>}),
         parent \in Active =>
           /\ \/ token = Stream(Taken + Len(stdout) + 1)
              \/ token = <<"error">> /\ Taken + Len(stdout) = 1
           /\ child' = "encode" => Taken + Len(stdout) = 0
           /\ child' = "parts" => Taken + Len(stdout) = 1 + out'
  PROVE  WorkerTypeOK' /\ (UnderWay' => Checked') /\ StreamOK' /\ GotOK'
<1>1. /\ WorkerTypeOK /\ (UnderWay => Checked) /\ StreamOK /\ GotOK
      /\ UNCHANGED <<req, parent, err, result, got, left, frames, budget, pngs, bytes, exceeded>>
  BY DEF WorkerInv, parentVars, encoding, rendering
<1>2. /\ Warmup' = Warmup /\ Available(frames)' = Available(frames)
      /\ \A n : PartOf(n)' = PartOf(n)
      /\ \A k : Stream(k)' = Stream(k)
      /\ Units(pngs)' = Units(pngs) /\ Units(got)' = Units(got) /\ Taken' = Taken
  BY <1>1 DEF Warmup, Available, PartOf, Stream, Units, Taken
<1>3. /\ stdout' \in Seq(Token) /\ Len(stdout) \in Nat /\ Len(stdout') = Len(stdout) + 1
      /\ DOMAIN stdout = 1 .. Len(stdout) /\ DOMAIN stdout' = 1 .. (Len(stdout) + 1)
      /\ stdout'[Len(stdout) + 1] = token
      /\ \A i \in DOMAIN stdout : stdout'[i] = stdout[i]
  BY <1>1, AppendProperties, LenProperties DEF WorkerTypeOK
<1>4. WorkerTypeOK'
  BY <1>1, <1>2, <1>3 DEF WorkerTypeOK
<1>5. UnderWay' => Checked'
  <2>1. ASSUME ~UnderWay PROVE ~UnderWay'
    <3>1. token[1] \notin {"header", "part"}
      BY <2>1
    <3>2. \A i \in DOMAIN stdout' : i \in DOMAIN stdout \/ i = Len(stdout) + 1
      BY <1>3
    <3>3. \A i \in DOMAIN stdout' : stdout'[i][1] \notin {"header", "part"}
      BY <1>3, <2>1, <3>1, <3>2 DEF UnderWay
    <3> QED
      BY <1>1, <2>1, <3>3 DEF UnderWay, HasAll
  <2> QED
    BY <1>1, <1>2, <2>1 DEF Checked
<1>6. StreamOK'
  <2>1. Taken \in Nat
    BY <1>1, LenProperties DEF Taken, WorkerTypeOK
  <2>2. ASSUME parent \in Active, NEW i \in DOMAIN stdout'
        PROVE  stdout'[i] = Stream(Taken + i) \/ (stdout'[i] = <<"error">> /\ Taken + i = 2)
    <3>1. CASE i \in DOMAIN stdout
      BY <1>1, <1>3, <2>2, <3>1 DEF StreamOK
    <3>2. CASE i = Len(stdout) + 1
      <4>1. stdout'[i] = token /\ Taken + i = Taken + Len(stdout) + 1
        BY <1>3, <2>1, <3>2
      <4>2. Taken + Len(stdout) = 1 => Taken + i = 2
        BY <1>3, <2>1, <3>2
      <4> QED
        BY <2>2, <4>1, <4>2
    <3> QED
      BY <1>3, <3>1, <3>2
  <2>3. /\ child' = "encode" /\ parent \in Active => Taken + Len(stdout') = 1
        /\ child' = "parts" /\ parent \in Active => Taken + Len(stdout') = 2 + out'
    BY <1>3, <2>1
  <2> QED
    BY <1>1, <1>2, <2>2, <2>3 DEF StreamOK
<1>7. GotOK'
  BY <1>1, <1>2 DEF GotOK, HasAll
<1> QED
  BY <1>4, <1>5, <1>6, <1>7

(* The child acknowledges, reports an error, or sends the header and the    *)
(* parts in their order; without a reader it fails.                         *)
LEMMA WriteKept ==
  ASSUME WorkerInv, Write
  PROVE  WorkerTypeOK' /\ RenderOK' /\ (UnderWay' => Checked') /\ StreamOK' /\ GotOK'
<1>1. /\ WorkerTypeOK /\ RenderOK /\ StreamOK /\ (UnderWay => Checked)
      /\ UNCHANGED <<platform, req, parentVars, ctx, limited, encoding, rendering, stdin>>
      /\ UNCHANGED <<parent, err, result, got, left, frames, budget, pngs, bytes, exceeded>>
  BY DEF Write, WorkerInv, parentVars, encoding, rendering
<1>2. Taken \in Nat /\ Len(stdout) \in Nat
  BY <1>1, LenProperties DEF Taken, WorkerTypeOK
<1>3. ASSUME parent = "dead", child' \in Ended, UNCHANGED stdout, out' = out \/ out' = out + 1
      PROVE  WorkerTypeOK' /\ RenderOK' /\ (UnderWay' => Checked') /\ StreamOK' /\ GotOK'
  <2>1. out' \in Nat
    BY <1>1, <1>3 DEF WorkerTypeOK
  <2>2. /\ UNCHANGED <<platform, req, got, left, encoding, rendering, stdout>>
        /\ out' = out \/ (out' \in Nat /\ child' \in Ended)
        /\ parent' \in Place /\ err' \in Error \union {Nothing} /\ result' \in {Nothing, "session", "failed"}
        /\ limited' \in BOOLEAN
    BY <1>1, <1>3, <2>1 DEF WorkerTypeOK
  <2>3. parent' \notin Before /\ parent' \notin {"parts", "eof"} /\ (HasAll' => HasAll)
    BY <1>1, <1>3 DEF Before, HasAll
  <2> QED
    BY <1>3, <2>2, <2>3, Elsewhere
<1>4. CASE /\ child = "writeAck" /\ stdout' = Append(stdout, <<"ack">>) /\ child' = "encode" /\ UNCHANGED out
  <2>1. ~UnderWay
    BY <1>4, NotYet DEF Early, Asleep
  <2>2. RenderOK'
    BY <1>1, <1>4 DEF RenderOK, Early, Asleep
  <2>3. parent \in Active => <<"ack">> = Stream(Taken + Len(stdout) + 1) /\ Taken + Len(stdout) = 0
    BY <1>1, <1>2, <1>4 DEF StreamOK, Stream, Asleep
  <2>4. child' \in Child /\ out' \in Nat /\ <<"ack">> \in Token
    BY <1>1, <1>4 DEF Child, Early, Token, WorkerTypeOK
  <2>5. child' \notin Asleep \union {"render", "report", "header", "parts"}
    BY <1>4 DEF Asleep
  <2> QED
    BY <1>1, <1>4, <2>1, <2>2, <2>3, <2>4, <2>5, Written
<1>5. CASE child = "report" /\ stdout' = Append(stdout, <<"error">>) /\ child' = "exited" /\ UNCHANGED out
  <2>1. ~UnderWay
    BY <1>5, NotYet DEF Early
  <2>2. RenderOK'
    BY <1>5 DEF RenderOK, Early, Asleep
  <2>3. parent \in Active => Taken + Len(stdout) = 1
    BY <1>1, <1>5 DEF StreamOK
  <2>4. child' \in Child /\ out' \in Nat /\ <<"error">> \in Token
    BY <1>1, <1>5 DEF Child, Ended, Token, WorkerTypeOK
  <2>5. child' \notin Asleep \union {"render", "report", "header", "parts"}
    BY <1>5 DEF Asleep
  <2> QED
    BY <1>1, <1>5, <2>1, <2>2, <2>3, <2>4, <2>5, Written
<1>6. ASSUME child \in {"header", "parts"}
      PROVE  /\ UnderWay /\ frames \in Nat /\ frames > 0 /\ pngs \in [1 .. frames -> Nat]
             /\ FrameSize \in Nat /\ Warmup \in Nat
  <2>1. UnderWay /\ Checked
    BY <1>1, <1>6 DEF UnderWay
  <2>2. InitialFrames \in Nat /\ frames \in Nat /\ FrameSize \in Nat
    BY <1>1, Given DEF WorkerTypeOK
  <2>3. Warmup \in {Min({InitialFrames, frames}), frames}
    BY DEF Warmup
  <2>4. Min({InitialFrames, frames}) \in {InitialFrames, frames}
    BY <2>2, MinTwo
  <2> QED
    BY <1>1, <2>1, <2>2, <2>3, <2>4 DEF Checked, WorkerTypeOK
<1>7. CASE child = "header" /\ stdout' = Append(stdout, <<"header", Warmup>>) /\ child' = "parts" /\ UNCHANGED out
  <2>1. UnderWay /\ child' \notin Early /\ child' \in Child
    BY <1>6, <1>7 DEF Child, Early, Asleep
  <2>2. RenderOK'
    BY <1>7 DEF RenderOK, Early, Asleep
  <2>3. parent \in Active => Taken + Len(stdout) = 1
    BY <1>1, <1>7 DEF StreamOK
  <2>4. <<"header", Warmup>> = Stream(2) /\ <<"header", Warmup>> \in Token
    BY <1>6, <1>7 DEF Stream, Token
  <2>5. out' = 0
    BY <1>1, <1>7 DEF RenderOK
  <2>6. child' \notin Asleep \union {"render", "report", "header"} /\ child' # "encode"
    BY <1>7 DEF Asleep
  <2>7. parent \in Active => /\ <<"header", Warmup>> = Stream(Taken + Len(stdout) + 1)
                             /\ Taken + Len(stdout) = 1 + out'
    BY <2>3, <2>4, <2>5
  <2> QED
    BY <1>1, <1>7, <2>1, <2>2, <2>4, <2>5, <2>6, <2>7, Written
<1>8. CASE /\ child = "parts" /\ out < 2 * frames /\ out' = out + 1 /\ child' = child
           /\ stdout' = Append(stdout, <<"part", PartOf(out + 1)>>)
  <2>1. UnderWay /\ child' \notin Early /\ child' \in Child
    BY <1>6, <1>8 DEF Child, Early, Asleep
  <2>2. RenderOK'
    BY <1>8 DEF RenderOK, Early, Asleep
  <2>3. parent \in Active => Taken + Len(stdout) = 2 + out
    BY <1>1, <1>8 DEF StreamOK
  <2>4. out \in Nat /\ out' \in Nat
    BY <1>1, <1>8 DEF WorkerTypeOK
  <2>5. PartOf(out + 1) \in Nat
    <3>1. (out + 1) % 2 # 1 => (out + 1) \div 2 \in 1 .. frames
      BY <1>6, <1>8, <2>4
    <3> DEFINE i == (out + 1) \div 2
    <3>2. i \in 1 .. frames => pngs[i] \in Nat
      BY <1>6, <1>8
    <3> QED
      BY <1>6, <1>8, <3>1, <3>2 DEF PartOf
  <2>6. <<"part", PartOf(out + 1)>> = Stream(3 + out)
    <3>1. 3 + out # 1 /\ 3 + out # 2 /\ (3 + out) - 2 = out + 1
      BY <2>4
    <3> QED
      BY <3>1 DEF Stream
  <2>7. parent \in Active => /\ <<"part", PartOf(out + 1)>> = Stream(Taken + Len(stdout) + 1)
                             /\ Taken + Len(stdout) = 1 + out'
    <3>1. parent \in Active => Taken + Len(stdout) + 1 = 3 + out /\ Taken + Len(stdout) = 1 + out'
      BY <1>2, <1>8, <2>3, <2>4
    <3> QED
      BY <2>6, <3>1
  <2>8. child' \notin Asleep \union {"render", "report", "header"} /\ child' # "encode"
    BY <1>8 DEF Asleep
  <2>9. <<"part", PartOf(out + 1)>> \in Token
    BY <2>5 DEF Token
  <2> QED
    BY <1>1, <1>8, <2>1, <2>2, <2>4, <2>7, <2>8, <2>9, Written
<1> QED
  BY <1>3, <1>4, <1>5, <1>7, <1>8 DEF Write, Put, Ends, Ended

(* The invariant holds at first.                                            *)
LEMMA WorkerStarts == WorkerInit => WorkerInv
<1> SUFFICES ASSUME WorkerInit PROVE WorkerInv
  OBVIOUS
<1>1. Nothing \notin {"session", "failed", "configure", "send", "child", "header", "budget", "eof"}
  BY WorkerAssumption
<1>2. Units(got) = {} /\ IsFiniteSet(Units(got)) /\ Cardinality(Units(got)) = 0 /\ got \in Seq(Nat)
  <2>1. got = << >>
    BY DEF WorkerInit
  <2> QED
    BY <2>1, NoUnits, EmptySeq
<1>3. stdout \in Seq(Token) /\ Len(stdout) = 0 /\ DOMAIN stdout = {}
  BY DEF WorkerInit
<1>4. req.cache \in Nat
  BY Given DEF WorkerInit
<1>5. WorkerTypeOK
  <2>1. 0 \in Nat /\ 0 \in Int /\ ~(0 > 0) /\ req.cache \in Int
    BY <1>4
  <2> QED
    BY <1>2, <1>3, <2>1 DEF WorkerInit, WorkerTypeOK, Place, Active, Before, Child, Early, Asleep
<1>6. LimitOK /\ ParentOK /\ RenderOK
  BY <1>1 DEF WorkerInit, LimitOK, ParentOK, RenderOK, Writing, Alive, Active, Before
<1>7. ~UnderWay /\ ~HasAll
  BY <1>1, <1>3 DEF WorkerInit, UnderWay, HasAll
<1>8. StreamOK /\ GotOK
  BY <1>2, <1>3, <1>4, <1>7 DEF WorkerInit, StreamOK, GotOK, Taken
<1> QED
  BY <1>5, <1>6, <1>7, <1>8 DEF WorkerInv

(* Every step keeps it.                                                     *)
LEMMA WorkerGoes == WorkerInv /\ [WorkerNext]_workerVars => WorkerInv'
<1> SUFFICES ASSUME WorkerInv, [WorkerNext]_workerVars
             PROVE  WorkerTypeOK' /\ RenderOK' /\ (UnderWay' => Checked') /\ StreamOK' /\ GotOK'
  BY LimitKept, ParentKept DEF WorkerInv
<1>1. CASE Receive
  BY <1>1, AckKept, HeaderKept, PartKept, ElsewhereKept DEF Receive
<1>2. CASE Render
  BY <1>2, TakeJobKept, RenderedKept DEF Render
<1>3. CASE RenderEnds \/ Write \/ Encode
  BY <1>3, RenderEndsKept, WriteKept, EncodeKept
<1>4. CASE ~(Receive \/ Render \/ RenderEnds \/ Write \/ Encode)
  BY <1>4, ElsewhereKept DEF WorkerNext, EncodeIsolated, WorkerMain, System
<1> QED
  BY <1>1, <1>2, <1>3, <1>4

-----------------------------------------------------------------------------
(* Theorems.                                                                *)

(* What encodeIsolated reads, counts and returns, and what the child has    *)
(* written, belong together at every moment (WorkerInv).                    *)
THEOREM WorkerInvariant == WorkerSpec => []WorkerInv
BY WorkerStarts, WorkerGoes, PTL DEF WorkerSpec

(* The library runs only with its memory limited, and encodeIsolated leaves *)
(* no process behind.                                                       *)
THEOREM ChildIsContained == WorkerSpec => []ChildContained
<1>1. WorkerInv => ChildContained
  BY DEF WorkerInv, LimitOK, ParentOK, ChildContained
<1> QED
  BY <1>1, WorkerInvariant, PTL

(* A session that encodeIsolated returns is all the child encoded, within   *)
(* the budget, and a child within its budget is never refused.              *)
THEOREM SessionIsWhole == WorkerSpec => []SessionWhole
<1>1. ASSUME WorkerInv PROVE SessionWhole
  <2>1. /\ WorkerTypeOK /\ ParentOK /\ GotOK /\ (UnderWay => Checked)
        /\ Nothing \notin {"session", "failed", "configure", "send", "child", "header", "budget", "eof"}
    BY <1>1, WorkerAssumption DEF WorkerInv
  <2>2. err \notin {"budget", "header"}
    BY <2>1 DEF WorkerTypeOK, Error
  <2>3. ASSUME result = "session"
        PROVE  /\ child = "exited" /\ ~exceeded
               /\ got = [n \in 1 .. 2 * frames |-> PartOf(n)]
               /\ \A i \in 1 .. Warmup : pngs[i] # 0
               /\ Cardinality(Units(got)) = req.cache - left /\ left >= 0
    <3>1. HasAll /\ UnderWay /\ Checked
      BY <2>1, <2>3 DEF HasAll, UnderWay
    <3>2. child = "exited" /\ ~exceeded /\ \A i \in 1 .. Warmup : pngs[i] # 0
      BY <2>1, <2>3, <3>1 DEF ParentOK, Checked
    <3>3. /\ left = req.cache - Cardinality(Units(got)) /\ Len(got) = 2 * frames
          /\ \A n \in 1 .. Len(got) : got[n] = PartOf(n)
      <4>1. parent # "parts"
        BY <2>1, <2>3 DEF ParentOK
      <4> QED
        BY <2>1, <3>1, <4>1 DEF GotOK
    <3>4. got = [n \in 1 .. 2 * frames |-> PartOf(n)]
      BY <2>1, <3>3, LenProperties DEF WorkerTypeOK
    <3>5. /\ frames \in Nat /\ pngs \in [1 .. frames -> Nat] /\ IsFiniteSet(Units(pngs))
          /\ IsFiniteSet(Units(got)) /\ got \in Seq(Nat) /\ req.cache \in Nat /\ FrameSize \in Nat
      BY <2>1, <3>1, Given DEF WorkerTypeOK, Checked
    <3>6. Cardinality(Units(got)) <= frames * FrameSize + Cardinality(Units(pngs))
      <4>1. Len(got) <= 2 * frames
        BY <3>3, <3>5
      <4> QED
        BY <3>3, <3>5, <4>1, UnitsBound
    <3>7. Cardinality(Units(pngs)) <= budget /\ budget <= req.cache - frames * FrameSize /\ budget \in Int
      BY <2>1, <3>1 DEF Checked, Available, WorkerTypeOK
    <3>8. left >= 0 /\ Cardinality(Units(got)) = req.cache - left
      <4> DEFINE m == frames * FrameSize
      <4>1. m \in Nat
        BY <3>5
      <4>2. Cardinality(Units(pngs)) \in Nat /\ Cardinality(Units(got)) \in Nat
        BY <3>5, FS_CardinalityType
      <4>3. Cardinality(Units(got)) <= m + Cardinality(Units(pngs)) /\ budget <= req.cache - m
        BY <3>6, <3>7
      <4> DEFINE u == Cardinality(Units(got))
                 v == Cardinality(Units(pngs))
                 c == req.cache
      <4>4. /\ u \in Nat /\ v \in Nat /\ c \in Nat /\ budget \in Int /\ left = c - u
            /\ u <= m + v /\ v <= budget /\ budget <= c - m
        BY <3>3, <3>5, <3>7, <4>2, <4>3
      <4> HIDE DEF m, u, v, c
      <4>5. left >= 0 /\ u = c - left
        BY <4>1, <4>4
      <4> QED
        BY <4>5 DEF u, c
    <3> QED
      BY <3>2, <3>4, <3>8
  <2> QED
    BY <2>2, <2>3 DEF SessionWhole
<1> QED
  BY <1>1, WorkerInvariant, PTL
=============================================================================
