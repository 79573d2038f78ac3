-------------------------- MODULE ScanPipelineProofs --------------------------
(***************************************************************************)
(* The desktop receiver for any numbers of regions, workers and scans.     *)
(* Its regions are sound: the serial number of a region is all that keeps  *)
(* stale goroutines from its session.  And Close settles: each verified    *)
(* transfer is in somebody's hands until it is reported or given up.       *)
(***************************************************************************)
EXTENDS ScanPipeline, TLAPS, SequenceTheorems

RegionState ==
  [serial : Nat, scanning : BOOLEAN, done : BOOLEAN, doneOnce : BOOLEAN, phase : Phase,
   due : BOOLEAN, base : Nat, stale : BOOLEAN]

\* A region that scans does so under a serial number younger than its session; its
\* three signs of completion agree.
Sound(x) ==
  /\ x \in RegionState
  /\ x.base <= x.serial /\ (x.scanning => x.base < x.serial)
  /\ ~x.stale
  /\ x.done <=> x.phase = "completed"
  /\ x.done <=> x.doneOnce
  /\ x.done => ~x.scanning

RegionsSound == reg \in [Region -> RegionState] /\ \A r \in Region : Sound(reg[r])

(* The fields of a region.                                                 *)
LEMMA Fields ==
  ASSUME NEW x \in RegionState
  PROVE  /\ x = [serial |-> x.serial, scanning |-> x.scanning, done |-> x.done, doneOnce |-> x.doneOnce,
                 phase |-> x.phase, due |-> x.due, base |-> x.base, stale |-> x.stale]
         /\ x.serial \in Nat /\ x.base \in Nat /\ x.phase \in Phase
         /\ x.scanning \in BOOLEAN /\ x.done \in BOOLEAN /\ x.doneOnce \in BOOLEAN
         /\ x.due \in BOOLEAN /\ x.stale \in BOOLEAN
BY DEF RegionState

(* A new region.                                                           *)
LEMMA NewIsSound == Sound(NewRegion)
BY DEF Sound, NewRegion, RegionState, Phase

(* StopRegion.                                                             *)
LEMMA StopSound ==
  ASSUME NEW x, Sound(x)
  PROVE  /\ Sound(Stopped(x)) /\ ~Stopped(x).scanning /\ Stopped(x).phase = x.phase /\ Stopped(x).done = x.done
         /\ x.serial <= Stopped(x).serial
<1>1. x \in RegionState
  BY DEF Sound
<1>2. CASE x.scanning
  <2>1. Stopped(x) = [x EXCEPT !.scanning = FALSE, !.serial = x.serial + 1]
    BY <1>2 DEF Stopped
  <2>2. /\ Stopped(x).serial = x.serial + 1 /\ Stopped(x).scanning = FALSE /\ Stopped(x).done = x.done
        /\ Stopped(x).doneOnce = x.doneOnce /\ Stopped(x).phase = x.phase /\ Stopped(x).base = x.base
        /\ Stopped(x).stale = x.stale /\ Stopped(x) \in RegionState
    <3> DEFINE n == x.serial + 1
               z == Stopped(x)
    <3>1. n \in Nat
      BY <1>1, Fields
    <3>2. z = [x EXCEPT !.scanning = FALSE, !.serial = n]
      BY <2>1
    <3> HIDE DEF n, z
    <3>3. /\ z.serial = n /\ z.scanning = FALSE /\ z.done = x.done /\ z.doneOnce = x.doneOnce
          /\ z.phase = x.phase /\ z.base = x.base /\ z.stale = x.stale /\ z \in RegionState
      BY <1>1, <3>1, <3>2 DEF RegionState
    <3> QED
      BY <3>3 DEF n, z
  <2> QED
    BY <1>1, <2>2, Fields DEF Sound
<1>3. CASE ~x.scanning
  BY <1>1, <1>3, Fields DEF Stopped
<1> QED
  BY <1>2, <1>3

(* Start, with and without reset.                                          *)
LEMMA StartSound ==
  ASSUME NEW x, Sound(x), ~x.scanning \/ Failed(x)
  PROVE  Sound(Started(x)) /\ x.serial < Started(x).serial
<1> DEFINE h == IF Failed(x) THEN Stopped(x) ELSE x
<1>1. Sound(h) /\ ~h.scanning /\ h.phase = x.phase /\ h.done = x.done /\ x.serial <= h.serial /\ x.serial \in Nat
  <2>1. x.serial \in Nat
    BY Fields DEF Sound
  <2> QED
    BY <2>1, StopSound
<1>2. Started(x) = Begun(IF x.done \/ Failed(x) THEN Reset(h) ELSE h)
  BY DEF Started
<1> HIDE DEF h
<1>3. h \in RegionState
  BY <1>1 DEF Sound
<1>4. /\ Reset(h) \in RegionState /\ Reset(h).serial = h.serial /\ Reset(h).base = h.serial
      /\ Reset(h).scanning = h.scanning /\ Reset(h).done = FALSE /\ Reset(h).doneOnce = FALSE
      /\ Reset(h).phase = "receiving" /\ Reset(h).stale = h.stale
  BY <1>3 DEF Reset, RegionState, Phase
<1>5. ASSUME NEW y \in RegionState, ~y.done, ~y.doneOnce, y.phase # "completed", ~y.stale, y.base <= y.serial
      PROVE  Sound(Begun(y)) /\ y.serial < Begun(y).serial /\ y.serial \in Nat
  <2>1. Begun(y) = [y EXCEPT !.serial = y.serial + 1, !.scanning = TRUE]
    BY DEF Begun
  <2>2. /\ Begun(y).serial = y.serial + 1 /\ Begun(y).scanning = TRUE /\ Begun(y).done = y.done
        /\ Begun(y).doneOnce = y.doneOnce /\ Begun(y).phase = y.phase /\ Begun(y).base = y.base
        /\ Begun(y).stale = y.stale /\ Begun(y) \in RegionState
    <3> DEFINE n == y.serial + 1
               z == Begun(y)
    <3>1. n \in Nat
      BY Fields
    <3>2. z = [y EXCEPT !.serial = n, !.scanning = TRUE]
      BY <2>1
    <3> HIDE DEF n, z
    <3>3. /\ z.serial = n /\ z.scanning = TRUE /\ z.done = y.done /\ z.doneOnce = y.doneOnce
          /\ z.phase = y.phase /\ z.base = y.base /\ z.stale = y.stale /\ z \in RegionState
      BY <3>1, <3>2 DEF RegionState
    <3> QED
      BY <3>3 DEF n, z
  <2> QED
    BY <1>5, <2>2, Fields DEF Sound
<1>6. CASE x.done \/ Failed(x)
  <2>1. Sound(Begun(Reset(h))) /\ h.serial < Begun(Reset(h)).serial /\ h.serial \in Nat
    BY <1>1, <1>3, <1>4, <1>5, Fields DEF Sound
  <2>2. Begun(Reset(h)).serial \in Nat
    BY <2>1, Fields DEF Sound
  <2> QED
    BY <1>1, <1>2, <1>6, <2>1, <2>2
<1>7. CASE ~(x.done \/ Failed(x))
  <2>1. Sound(Begun(h)) /\ h.serial < Begun(h).serial /\ h.serial \in Nat
    BY <1>1, <1>3, <1>5, <1>7 DEF Sound
  <2>2. Begun(h).serial \in Nat
    BY <2>1, Fields DEF Sound
  <2> QED
    BY <1>1, <1>2, <1>7, <2>1, <2>2
<1> QED
  BY <1>6, <1>7

(* completeRegionLocked.                                                   *)
LEMMA CompleteSound ==
  ASSUME NEW x, Sound(x)
  PROVE  LET y == Stopped([x EXCEPT !.phase = "completed", !.due = FALSE, !.done = TRUE, !.doneOnce = TRUE])
         IN  Sound(y) /\ x.serial <= y.serial
<1> DEFINE y == [x EXCEPT !.phase = "completed", !.due = FALSE, !.done = TRUE, !.doneOnce = TRUE]
<1>1. x \in RegionState
  BY DEF Sound
<1>2. /\ y \in RegionState /\ y.serial = x.serial /\ y.base = x.base /\ y.scanning = x.scanning
      /\ y.done = TRUE /\ y.doneOnce = TRUE /\ y.phase = "completed" /\ y.stale = x.stale
  BY <1>1 DEF RegionState, Phase
<1> HIDE DEF y
<1>3. CASE y.scanning
  <2>1. Stopped(y) = [y EXCEPT !.scanning = FALSE, !.serial = y.serial + 1]
    BY <1>3 DEF Stopped
  <2>2. /\ Stopped(y).serial = y.serial + 1 /\ Stopped(y).scanning = FALSE /\ Stopped(y).done = y.done
        /\ Stopped(y).doneOnce = y.doneOnce /\ Stopped(y).phase = y.phase /\ Stopped(y).base = y.base
        /\ Stopped(y).stale = y.stale /\ Stopped(y) \in RegionState
    <3> DEFINE n == y.serial + 1
               z == Stopped(y)
    <3>1. n \in Nat
      BY <1>2, Fields
    <3>2. z = [y EXCEPT !.scanning = FALSE, !.serial = n]
      BY <2>1
    <3> HIDE DEF n, z
    <3>3. /\ z.serial = n /\ z.scanning = FALSE /\ z.done = y.done /\ z.doneOnce = y.doneOnce
          /\ z.phase = y.phase /\ z.base = y.base /\ z.stale = y.stale /\ z \in RegionState
      BY <1>2, <3>1, <3>2 DEF RegionState
    <3> QED
      BY <3>3 DEF n, z
  <2>3. Sound(Stopped(y)) /\ x.serial <= Stopped(y).serial
    BY <1>1, <1>2, <2>2, Fields DEF Sound
  <2> QED
    BY <2>3 DEF y
<1>4. CASE ~y.scanning
  <2>1. Stopped(y) = y
    BY <1>4 DEF Stopped
  <2>2. Sound(y) /\ x.serial <= y.serial
    BY <1>1, <1>2, <1>4, Fields DEF Sound
  <2> QED
    BY <2>1, <2>2 DEF y
<1> QED
  BY <1>3, <1>4

(* A frame that is committed is of the current scan, and so not stale.     *)
LEMMA CommitSound ==
  ASSUME NEW x, Sound(x), NEW gen, x.serial = gen, x.scanning
  PROVE  LET fed == [x EXCEPT !.stale = @ \/ gen <= x.base]
         IN  fed = x /\ ~fed.doneOnce
             /\ \A phase \in Phase \ {"completed"} : Sound([fed EXCEPT !.phase = phase])
<1> DEFINE fed == [x EXCEPT !.stale = @ \/ gen <= x.base]
<1>1. x \in RegionState /\ ~x.stale /\ ~(gen <= x.base) /\ ~x.doneOnce /\ ~x.done
  BY Fields DEF Sound
<1>2. (x.stale \/ gen <= x.base) = FALSE /\ x.stale = FALSE
  BY <1>1, Fields
<1>3. fed = [x EXCEPT !.stale = FALSE]
  BY <1>2
<1>4. fed = x
  BY <1>1, <1>2, <1>3 DEF RegionState
<1> HIDE DEF fed
<1>5. ASSUME NEW p \in Phase \ {"completed"} PROVE Sound([x EXCEPT !.phase = p])
  <2> DEFINE y == [x EXCEPT !.phase = p]
  <2>1. /\ y \in RegionState /\ y.serial = x.serial /\ y.base = x.base /\ y.scanning = x.scanning
        /\ y.done = x.done /\ y.doneOnce = x.doneOnce /\ y.phase = p /\ y.stale = x.stale
    BY <1>1 DEF RegionState
  <2> HIDE DEF y
  <2>2. Sound(y)
    BY <1>1, <2>1 DEF Sound
  <2> QED
    BY <2>1, <2>2 DEF y
<1> QED
  BY <1>1, <1>4, <1>5 DEF fed

-----------------------------------------------------------------------------
\* No region gets an older serial number.
Grown == \A r \in Region : reg[r].serial <= reg'[r].serial

(* A step that leaves the regions alone.                                   *)
LEMMA NothingNew ==
  ASSUME RegionsSound, UNCHANGED reg
  PROVE  RegionsSound' /\ Grown
<1>1. \A r \in Region : reg[r].serial \in Nat
  BY Fields DEF RegionsSound
<1> QED
  BY <1>1 DEF RegionsSound, Grown

(* One region, or several, get a sound state.                              *)
LEMMA Replaced ==
  ASSUME RegionsSound, NEW x, Sound(x), NEW r \in Region, reg' = [reg EXCEPT ![r] = x], reg[r].serial <= x.serial
  PROVE  RegionsSound' /\ Grown
<1>1. x \in RegionState
  BY DEF Sound
<1>2. \A q \in Region : reg[q].serial \in Nat
  BY Fields DEF RegionsSound
<1> QED
  BY <1>1, <1>2 DEF RegionsSound, Grown

(* Several regions are stopped.                                            *)
LEMMA StoppedEach ==
  ASSUME RegionsSound, NEW S, StopEach(S)
  PROVE  RegionsSound' /\ Grown
<1>1. \A r \in Region : Sound(reg'[r]) /\ reg'[r] \in RegionState /\ reg[r].serial <= reg'[r].serial
  <2> SUFFICES ASSUME NEW r \in Region PROVE Sound(reg'[r]) /\ reg[r].serial <= reg'[r].serial
    BY DEF Sound
  <2>2. reg[r].serial \in Nat
    BY Fields DEF RegionsSound
  <2>3. Sound(reg'[r]) => reg'[r].serial \in Nat
    BY Fields DEF Sound
  <2>1. reg'[r] = IF r \in S THEN Stopped(reg[r]) ELSE reg[r]
    BY DEF StopEach
  <2> QED
    BY <2>1, <2>2, <2>3, StopSound DEF RegionsSound
<1>2. reg' = [r \in Region |-> reg'[r]]
  BY DEF StopEach
<1> QED
  BY <1>1, <1>2 DEF RegionsSound, Grown

(* Several regions begin a scan.                                           *)
LEMMA LaunchedEach ==
  ASSUME RegionsSound, NEW S, Launch(S), \A r \in S \intersect Region : ~reg[r].scanning \/ Failed(reg[r])
  PROVE  RegionsSound' /\ Grown
<1>1. \A r \in Region : Sound(reg'[r]) /\ reg'[r] \in RegionState /\ reg[r].serial <= reg'[r].serial
  <2> SUFFICES ASSUME NEW r \in Region PROVE Sound(reg'[r]) /\ reg[r].serial <= reg'[r].serial
    BY DEF Sound
  <2>2. reg[r].serial \in Nat
    BY Fields DEF RegionsSound
  <2>3. Sound(reg'[r]) => reg'[r].serial \in Nat
    BY Fields DEF Sound
  <2>1. reg'[r] = IF r \in S THEN Started(reg[r]) ELSE reg[r]
    BY DEF Launch
  <2> QED
    BY <2>1, <2>2, <2>3, StartSound DEF RegionsSound
<1>2. reg' = [r \in Region |-> reg'[r]]
  BY DEF Launch
<1> QED
  BY <1>1, <1>2 DEF RegionsSound, Grown

(* The steps of the UI thread.                                             *)
LEMMA UISound ==
  ASSUME RegionsSound, UIStep
  PROVE  RegionsSound' /\ Grown
<1>1. ASSUME NEW S, StopEach(S) PROVE RegionsSound' /\ Grown
  BY <1>1, StoppedEach
<1>2. CASE \E r \in Region : RemoveRegion(r) \/ Stop(r)
  BY <1>1, <1>2 DEF RemoveRegion, Stop, Halt
<1>3. CASE Clear \/ StopAll \/ CloseBegin
  BY <1>1, <1>3 DEF Clear, StopAll, Halt, CloseBegin
<1>4. CASE \E r \in Region : Start(r)
  BY <1>4, LaunchedEach DEF Start
<1>5. CASE StartAll
  BY <1>5, LaunchedEach DEF StartAll
<1>6. CASE (\E r \in Region : AddRegion(r)) \/ ClearPreview \/ CloseStep
  <2>1. UNCHANGED reg
    BY <1>6 DEF AddRegion, ClearPreview, CloseStep, CloseCancel, CloseQueues, CloseReturn
  <2> QED
    BY <2>1, NothingNew
<1> QED
  BY <1>2, <1>3, <1>4, <1>5, <1>6 DEF UIStep

(* A capture goroutine, which may complete a region whose name is overdue. *)
LEMMA CaptureSound ==
  ASSUME RegionsSound, NEW r \in Region, NEW gen \in Gen, CaptureStep(r, gen)
  PROVE  RegionsSound' /\ Grown
<1>1. CASE Tick(r, gen)
  <2>1. UNCHANGED reg \/ Complete(r, reg[r])
    BY <1>1 DEF Tick
  <2>2. CASE Complete(r, reg[r])
    BY <2>2, CompleteSound, Replaced DEF Complete, RegionsSound
  <2> QED
    BY <2>1, <2>2, NothingNew
<1>2. CASE Shoot(r, gen) \/ ShootFails(r, gen) \/ Submit(r, gen) \/ CaptureSave(r, gen)
  <2>1. UNCHANGED reg
    BY <1>2 DEF Shoot, ShootFails, Submit, CaptureSave
  <2> QED
    BY <2>1, NothingNew
<1> QED
  BY <1>1, <1>2 DEF CaptureStep

(* A worker commits a frame.                                               *)
LEMMA WorkerSound ==
  ASSUME RegionsSound, NEW w \in Worker, WorkerStep(w)
  PROVE  RegionsSound' /\ Grown
<1>1. CASE Commit(w) /\ CommitAllowed(worker[w].job)
  <2> DEFINE r == worker[w].job.r
             gen == worker[w].job.gen
             fed == [reg[r] EXCEPT !.stale = @ \/ gen <= reg[r].base]
  <2>1. CASE r \in Region
    <3>1. Sound(reg[r]) /\ reg[r].serial = gen /\ reg[r].scanning
      BY <1>1, <2>1 DEF CommitAllowed, Current, RegionsSound
    <3>2. fed = reg[r] /\ ~fed.doneOnce /\ \A phase \in Phase \ {"completed"} : Sound([fed EXCEPT !.phase = phase])
      BY <3>1, CommitSound
    <3>7. reg[r].serial \in Nat
      BY <3>1, Fields DEF Sound
    <3>3. PICK phase \in AfterFrame(fed.phase) :
             IF phase = "completed" /\ ~fed.doneOnce THEN Complete(r, fed)
             ELSE reg' = [reg EXCEPT ![r] = [fed EXCEPT !.phase = phase]]
      BY <1>1 DEF Commit
    <3>4. phase \in Phase
      <4>1. fed.phase \in Phase
        BY <3>1, <3>2, Fields DEF Sound
      <4>2. fed.phase = "receiving" => AfterFrame(fed.phase) = Phase
        BY DEF AfterFrame
      <4>3. fed.phase = "nameWait" => AfterFrame(fed.phase) = {"nameWait", "completed"}
        BY DEF AfterFrame
      <4>4. fed.phase = "failed" => AfterFrame(fed.phase) = {fed.phase}
        BY DEF AfterFrame
      <4>5. fed.phase = "completed" => AfterFrame(fed.phase) = {fed.phase}
        BY DEF AfterFrame
      <4> HIDE DEF fed
      <4> QED
        BY <3>3, <4>1, <4>2, <4>3, <4>4, <4>5 DEF Phase
    <3> HIDE DEF fed
    <3>5. CASE phase = "completed"
      <4>1. reg' = [reg EXCEPT ![r] = Stopped([reg[r] EXCEPT !.phase = "completed", !.due = FALSE,
                                                             !.done = TRUE, !.doneOnce = TRUE])]
        BY <3>2, <3>3, <3>5 DEF Complete
      <4> QED
        BY <2>1, <3>1, <4>1, CompleteSound, Replaced
    <3>6. CASE phase # "completed"
      <4>1. Sound([fed EXCEPT !.phase = phase]) /\ reg[r].serial <= [fed EXCEPT !.phase = phase].serial
        <5>1. Sound([fed EXCEPT !.phase = phase])
          BY <3>2, <3>4, <3>6
        <5>2. fed \in RegionState /\ fed.serial = reg[r].serial
          BY <3>1, <3>2 DEF Sound
        <5>3. [fed EXCEPT !.phase = phase].serial = fed.serial
          BY <5>2 DEF RegionState
        <5> QED
          BY <3>7, <5>1, <5>2, <5>3
      <4> QED
        BY <2>1, <3>3, <3>6, <4>1, Replaced
    <3> QED
      BY <3>5, <3>6
  <2>2. CASE r \notin Region
    <3>1. PICK x : reg' = [reg EXCEPT ![r] = x]
      BY <1>1 DEF Commit, Complete
    <3>2. reg' = reg
      BY <2>2, <3>1 DEF RegionsSound
    <3> QED
      BY <3>2, NothingNew
  <2> QED
    BY <2>1, <2>2
<1>2. CASE ~(Commit(w) /\ CommitAllowed(worker[w].job))
  <2>1. UNCHANGED reg
    BY <1>2 DEF WorkerStep, Take, WorkerExit, NoPayload, Commit, WorkerSave
  <2> QED
    BY <2>1, NothingNew
<1> QED
  BY <1>1, <1>2

(* Every step.                                                             *)
LEMMA RegionsStep ==
  ASSUME RegionsSound, [Next]_vars
  PROVE  RegionsSound' /\ Grown
<1>1. ASSUME NEW r \in Region, NameDeadline(r) PROVE RegionsSound' /\ Grown
  <2>1. reg' = [reg EXCEPT ![r].due = TRUE]
    BY <1>1 DEF NameDeadline
  <2> DEFINE y == [reg[r] EXCEPT !.due = TRUE]
  <2>2. Sound(reg[r]) /\ reg[r] \in RegionState /\ reg[r].serial \in Nat
    BY Fields DEF RegionsSound
  <2>3. /\ y \in RegionState /\ y.serial = reg[r].serial /\ y.base = reg[r].base /\ y.scanning = reg[r].scanning
        /\ y.done = reg[r].done /\ y.doneOnce = reg[r].doneOnce /\ y.phase = reg[r].phase
        /\ y.stale = reg[r].stale
    BY <2>2 DEF RegionState
  <2>4. reg' = [reg EXCEPT ![r] = y]
    BY <2>1
  <2> HIDE DEF y
  <2>5. Sound(y) /\ reg[r].serial <= y.serial
    BY <2>2, <2>3 DEF Sound
  <2> QED
    BY <2>4, <2>5, Replaced
<1>2. CASE SaverStep \/ NewPicture \/ Closed \/ UNCHANGED vars
  <2>1. UNCHANGED reg
    BY <1>2 DEF SaverStep, SaverTake, SaverWrite, SaverExit, NewPicture, Closed, vars
  <2> QED
    BY <2>1, NothingNew
<1> QED
  BY <1>1, <1>2, CaptureSound, WorkerSound, UISound DEF Next

(* RegionsSound is an inductive invariant of the pipeline.                 *)
THEOREM RegionsInvariant == Spec => []RegionsSound
<1>1. Init => RegionsSound
  <2>1. NewRegion \in RegionState
    BY NewIsSound DEF Sound
  <2> QED
    BY <2>1, NewIsSound DEF Init, RegionsSound
<1> QED
  BY <1>1, RegionsStep, PTL DEF Spec

(* No frame of an earlier scan reaches a session (commitPayload).          *)
THEOREM NothingStale == Spec => []NoStaleFrame
<1>1. RegionsSound => NoStaleFrame
  BY DEF RegionsSound, Sound, NoStaleFrame
<1> QED
  BY <1>1, RegionsInvariant, PTL

(* "done", the session's phase and doneOnce agree (completeRegionLocked).  *)
THEOREM DoneIsVerified == Spec => []DoneMeansVerified
<1>1. RegionsSound => DoneMeansVerified
  <2> SUFFICES ASSUME RegionsSound, NEW r \in Region
               PROVE  /\ reg[r].done = (reg[r].phase = "completed")
                      /\ reg[r].done = reg[r].doneOnce
                      /\ reg[r].done => ~reg[r].scanning
    BY DEF DoneMeansVerified
  <2>1. Sound(reg[r]) /\ reg[r] \in RegionState
    BY DEF RegionsSound
  <2>2. reg[r].done \in BOOLEAN /\ reg[r].doneOnce \in BOOLEAN
    BY <2>1, Fields
  <2>3. (reg[r].done <=> reg[r].phase = "completed") /\ (reg[r].done <=> reg[r].doneOnce)
    BY <2>1 DEF Sound
  <2>4. reg[r].done = (reg[r].phase = "completed")
    BY <2>2, <2>3, Zenon
  <2>5. reg[r].done = reg[r].doneOnce
    BY <2>2, <2>3, Zenon
  <2> QED
    BY <2>1, <2>4, <2>5 DEF Sound
<1> QED
  BY <1>1, RegionsInvariant, PTL

-----------------------------------------------------------------------------
(* Close.  Each verified transfer was reported or given up, or somebody    *)
(* has it; and who has gone left nothing.                                  *)

Carried == Region \X Nat
Job == [r : Region, gen : Gen, shot : Picture \union {None}]
Busy == {"rlock", "saving"}

CapState == [pc : {"off", "tick", "shoot", "submit", "rlock", "saving"}, shot : Picture \union {None},
             prev : Picture \union {None}, transfer : Carried \union {None}]
WorkerState == [pc : {"idle", "decoded", "rlock", "saving", "gone"}, job : Job \union {None},
                transfer : Carried \union {None}]

PipeTypeOK ==
  /\ screen \in Picture
  /\ cap \in [Scan -> CapState]
  /\ worker \in [Worker -> WorkerState]
  /\ saver \in [pc : {"idle", "write", "gone"}, transfer : Carried \union {None}]
  /\ decQueue \in Seq(Job) /\ saveQueue \in Seq(Carried) /\ saved \in Seq(Carried)

\* Whoever has something to carry has it.
HandsOK ==
  /\ \A s \in Scan : cap[s].pc \in Busy => cap[s].transfer \in Carried
  /\ \A w \in Worker : /\ worker[w].pc = "decoded" => worker[w].job \in Job
                       /\ worker[w].pc \in Busy => worker[w].transfer \in Carried
  /\ saver.pc = "write" => saver.transfer \in Carried

\* A scan that has not begun has no goroutine.
Young == \A r \in Region, g \in Gen : cap[<<r, g>>].pc # "off" => g <= reg[r].serial

\* Nobody is sending, and nobody will, after the queues were closed.
ClosingOK ==
  /\ queuesClosed <=> api \in {"waiting", "closed"}
  /\ queuesClosed => /\ \A s \in Scan : cap[s].pc # "saving"
                     /\ \A w \in Worker : worker[w].pc # "saving"
  /\ saver.pc = "gone" => queuesClosed /\ saveQueue = << >>
  /\ \A w \in Worker : worker[w].pc = "gone" => queuesClosed /\ decQueue = << >>
  /\ api = "closed" => /\ \A s \in Scan : cap[s].pc = "off"
                       /\ \A w \in Worker : worker[w].pc = "gone"
                       /\ saver.pc = "gone"

InHand(x) == IF x.pc \in Busy THEN {x.transfer} ELSE {}
InCaps == UNION {InHand(cap[s]) : s \in Scan}
InWorkers == UNION {InHand(worker[w]) : w \in Worker}
InSaver == IF saver.pc = "write" THEN {saver.transfer} ELSE {}
Elements(q) == {q[i] : i \in DOMAIN q}
Settled ==
  verified = Elements(saved) \union dropped \union Elements(saveQueue) \union InSaver
               \union InCaps \union InWorkers

PipeInv == PipeTypeOK /\ HandsOK /\ Young /\ ClosingOK /\ Settled

(* A queue gets one more element.                                          *)
LEMMA Appended ==
  ASSUME NEW S, NEW q \in Seq(S), NEW t \in S
  PROVE  Append(q, t) \in Seq(S) /\ Elements(Append(q, t)) = Elements(q) \union {t}
<1>1. /\ Append(q, t) \in Seq(S) /\ Len(Append(q, t)) = Len(q) + 1 /\ Len(q) \in Nat
      /\ \A i \in 1 .. Len(q) : Append(q, t)[i] = q[i]
      /\ Append(q, t)[Len(q) + 1] = t
  BY AppendProperties, LenProperties
<1>2. DOMAIN q = 1 .. Len(q) /\ DOMAIN Append(q, t) = 1 .. Len(q) + 1
  BY <1>1, LenProperties
<1>3. 1 .. Len(q) + 1 = (1 .. Len(q)) \union {Len(q) + 1}
  BY <1>1
<1> QED
  BY <1>1, <1>2, <1>3 DEF Elements

(* A queue loses its first element.                                        *)
LEMMA Removed ==
  ASSUME NEW S, NEW q \in Seq(S), q # << >>
  PROVE  Head(q) \in S /\ Tail(q) \in Seq(S) /\ Elements(q) = {Head(q)} \union Elements(Tail(q))
<1>1. /\ Head(q) \in S /\ Tail(q) \in Seq(S) /\ Len(Tail(q)) = Len(q) - 1 /\ Len(q) \in Nat \ {0}
      /\ \A i \in 1 .. Len(Tail(q)) : Tail(q)[i] = q[i + 1]
  BY HeadTailProperties, EmptySeq
<1>2. DOMAIN q = 1 .. Len(q) /\ DOMAIN Tail(q) = 1 .. Len(q) - 1 /\ Head(q) = q[1]
  BY <1>1, LenProperties
<1>3. \A i \in 1 .. Len(q) : i = 1 \/ (i - 1 \in 1 .. Len(q) - 1 /\ Tail(q)[i - 1] = q[i])
  BY <1>1
<1>4. \A i \in 1 .. Len(q) - 1 : i + 1 \in 1 .. Len(q) /\ Tail(q)[i] = q[i + 1]
  BY <1>1
<1>5. Elements(q) \subseteq {Head(q)} \union Elements(Tail(q))
  BY <1>2, <1>3 DEF Elements
<1>6. Elements(Tail(q)) \subseteq Elements(q)
  BY <1>2, <1>4 DEF Elements
<1>7. Head(q) \in Elements(q)
  BY <1>1, <1>2 DEF Elements
<1> QED
  BY <1>1, <1>5, <1>6, <1>7

(* An empty queue has no element.                                          *)
LEMMA NoElements ==
  ASSUME NEW S, NEW q \in Seq(S), q = << >>
  PROVE  Elements(q) = {}
<1>1. DOMAIN q = {}
  BY LenProperties, EmptySeq
<1> QED
  BY <1>1 DEF Elements

(* The state of one capture goroutine changes.                             *)
LEMMA CapMoved ==
  ASSUME PipeTypeOK, HandsOK, Young, RegionsSound, RegionsSound', Grown, NEW s \in Scan, NEW c \in CapState,
         cap' = [cap EXCEPT ![s] = c], cap[s].pc # "off", c.pc \in Busy => c.transfer \in Carried
  PROVE  /\ cap' \in [Scan -> CapState] /\ cap'[s] = c /\ \A q \in Scan : q # s => cap'[q] = cap[q]
         /\ \A q \in Scan : cap'[q].pc \in Busy => cap'[q].transfer \in Carried
         /\ Young'
         /\ InCaps' \subseteq InCaps \union InHand(c)
         /\ InCaps \subseteq InCaps' \union InHand(cap[s])
         /\ InHand(c) \subseteq InCaps'
<1>1. cap' \in [Scan -> CapState] /\ cap'[s] = c /\ \A q \in Scan : q # s => cap'[q] = cap[q]
  BY DEF PipeTypeOK
<1>2. \A q \in Scan : cap'[q].pc \in Busy => cap'[q].transfer \in Carried
  BY <1>1 DEF HandsOK
<1>3. Young'
  <2> SUFFICES ASSUME NEW r \in Region, NEW g \in Gen, cap'[<<r, g>>].pc # "off"
               PROVE  g <= reg'[r].serial
    BY DEF Young
  <2>1. <<r, g>> \in Scan
    BY DEF Scan
  <2>2. cap[<<r, g>>].pc # "off"
    BY <1>1, <2>1
  <2>3. g <= reg[r].serial /\ reg[r].serial <= reg'[r].serial
    BY <2>2 DEF Young, Grown
  <2>4. reg[r].serial \in Nat /\ reg'[r].serial \in Nat /\ g \in Nat
    BY Fields DEF RegionsSound, Gen
  <2> QED
    BY <2>3, <2>4
<1>4. InCaps' \subseteq InCaps \union InHand(c)
  BY <1>1 DEF InCaps, InHand
<1>5. InCaps \subseteq InCaps' \union InHand(cap[s])
  BY <1>1 DEF InCaps, InHand
<1>6. InHand(c) \subseteq InCaps'
  BY <1>1 DEF InCaps, InHand
<1> QED
  BY <1>1, <1>2, <1>3, <1>4, <1>5, <1>6

(* The state of one worker changes.                                        *)
LEMMA WorkerMoved ==
  ASSUME PipeTypeOK, HandsOK, NEW w \in Worker, NEW c \in WorkerState, worker' = [worker EXCEPT ![w] = c],
         c.pc = "decoded" => c.job \in Job, c.pc \in Busy => c.transfer \in Carried
  PROVE  /\ worker' \in [Worker -> WorkerState] /\ worker'[w] = c /\ \A v \in Worker : v # w => worker'[v] = worker[v]
         /\ \A v \in Worker : /\ worker'[v].pc = "decoded" => worker'[v].job \in Job
                              /\ worker'[v].pc \in Busy => worker'[v].transfer \in Carried
         /\ InWorkers' \subseteq InWorkers \union InHand(c)
         /\ InWorkers \subseteq InWorkers' \union InHand(worker[w])
         /\ InHand(c) \subseteq InWorkers'
<1>1. worker' \in [Worker -> WorkerState] /\ worker'[w] = c /\ \A v \in Worker : v # w => worker'[v] = worker[v]
  BY DEF PipeTypeOK
<1>2. \A v \in Worker : /\ worker'[v].pc = "decoded" => worker'[v].job \in Job
                        /\ worker'[v].pc \in Busy => worker'[v].transfer \in Carried
  BY <1>1 DEF HandsOK
<1>3. InWorkers' \subseteq InWorkers \union InHand(c)
  BY <1>1 DEF InWorkers, InHand
<1>4. InWorkers \subseteq InWorkers' \union InHand(worker[w])
  BY <1>1 DEF InWorkers, InHand
<1>5. InHand(c) \subseteq InWorkers'
  BY <1>1 DEF InWorkers, InHand
<1> QED
  BY <1>1, <1>2, <1>3, <1>4, <1>5

(* A scan that has not begun stays so while cap does not change.           *)
LEMMA YoungKept ==
  ASSUME Young, RegionsSound, RegionsSound', Grown, UNCHANGED cap
  PROVE  Young'
<1> SUFFICES ASSUME NEW r \in Region, NEW g \in Gen, cap[<<r, g>>].pc # "off"
             PROVE  g <= reg'[r].serial
  BY DEF Young
<1>1. g <= reg[r].serial /\ reg[r].serial <= reg'[r].serial
  BY DEF Young, Grown
<1>2. reg[r].serial \in Nat /\ reg'[r].serial \in Nat /\ g \in Nat
  BY Fields DEF RegionsSound, Gen
<1> QED
  BY <1>1, <1>2

(* A capture goroutine's step keeps PipeInv if what it takes from its hand *)
(* is queued or given up, and what it takes into it is newly verified.     *)
LEMMA CapKeeps ==
  ASSUME PipeInv, RegionsSound, RegionsSound', Grown, NEW s \in Scan, NEW c \in CapState, NEW fresh,
         cap' = [cap EXCEPT ![s] = c], cap[s].pc # "off", c.pc \in Busy => c.transfer \in Carried,
         c.pc = "saving" => ~queuesClosed,
         UNCHANGED <<screen, worker, saver, saved, api, queuesClosed>>,
         decQueue' \in Seq(Job), saveQueue' \in Seq(Carried),
         queuesClosed => UNCHANGED <<decQueue, saveQueue>>,
         verified' = verified \union fresh,
         dropped' \union Elements(saveQueue') \union InHand(c)
           = dropped \union Elements(saveQueue) \union InHand(cap[s]) \union fresh
  PROVE  PipeInv'
<1>1. /\ cap' \in [Scan -> CapState] /\ cap'[s] = c /\ \A q \in Scan : q # s => cap'[q] = cap[q]
      /\ \A q \in Scan : cap'[q].pc \in Busy => cap'[q].transfer \in Carried
      /\ Young'
      /\ InCaps' \subseteq InCaps \union InHand(c)
      /\ InCaps \subseteq InCaps' \union InHand(cap[s])
      /\ InHand(c) \subseteq InCaps'
  BY CapMoved DEF PipeInv
<1>2. PipeTypeOK'
  BY <1>1 DEF PipeInv, PipeTypeOK
<1>3. HandsOK'
  BY <1>1 DEF PipeInv, HandsOK
<1>4. ClosingOK'
  <2>1. api # "closed"
    BY DEF PipeInv, ClosingOK
  <2>2. queuesClosed => saveQueue' = saveQueue /\ decQueue' = decQueue
    OBVIOUS
  <2> QED
    BY <1>1, <2>1, <2>2 DEF PipeInv, ClosingOK
<1>5. Settled'
  <2>1. InHand(cap[s]) \subseteq InCaps
    BY DEF InCaps
  <2>2. Elements(saved)' = Elements(saved) /\ InSaver' = InSaver /\ InWorkers' = InWorkers
    BY DEF InSaver, InWorkers, Elements
  <2>3. Elements(saveQueue)' = Elements(saveQueue')
    BY DEF Elements
  <2> QED
    BY <1>1, <2>1, <2>2, <2>3 DEF PipeInv, Settled
<1> QED
  BY <1>1, <1>2, <1>3, <1>4, <1>5 DEF PipeInv

(* Likewise a worker's.                                                    *)
LEMMA WorkerKeeps ==
  ASSUME PipeInv, RegionsSound, RegionsSound', Grown, NEW w \in Worker, NEW c \in WorkerState, NEW fresh,
         worker' = [worker EXCEPT ![w] = c], worker[w].pc # "gone",
         c.pc = "decoded" => c.job \in Job, c.pc \in Busy => c.transfer \in Carried,
         c.pc = "saving" => ~queuesClosed, c.pc = "gone" => queuesClosed /\ decQueue' = << >>,
         UNCHANGED <<screen, cap, saver, saved, api, queuesClosed>>,
         decQueue' \in Seq(Job), saveQueue' \in Seq(Carried),
         decQueue = << >> => UNCHANGED decQueue, queuesClosed => UNCHANGED saveQueue,
         verified' = verified \union fresh,
         dropped' \union Elements(saveQueue') \union InHand(c)
           = dropped \union Elements(saveQueue) \union InHand(worker[w]) \union fresh
  PROVE  PipeInv'
<1>1. /\ worker' \in [Worker -> WorkerState] /\ worker'[w] = c /\ \A v \in Worker : v # w => worker'[v] = worker[v]
      /\ \A v \in Worker : /\ worker'[v].pc = "decoded" => worker'[v].job \in Job
                           /\ worker'[v].pc \in Busy => worker'[v].transfer \in Carried
      /\ InWorkers' \subseteq InWorkers \union InHand(c)
      /\ InWorkers \subseteq InWorkers' \union InHand(worker[w])
      /\ InHand(c) \subseteq InWorkers'
  BY WorkerMoved DEF PipeInv
<1>2. PipeTypeOK'
  BY <1>1 DEF PipeInv, PipeTypeOK
<1>3. HandsOK'
  BY <1>1 DEF PipeInv, HandsOK
<1>4. ClosingOK'
  <2>1. api # "closed"
    BY DEF PipeInv, ClosingOK
  <2> QED
    BY <1>1, <2>1 DEF PipeInv, ClosingOK
<1>5. Settled'
  <2>1. InHand(worker[w]) \subseteq InWorkers
    BY DEF InWorkers
  <2>2. Elements(saved)' = Elements(saved) /\ InSaver' = InSaver /\ InCaps' = InCaps
    BY DEF InSaver, InCaps, Elements
  <2>3. Elements(saveQueue)' = Elements(saveQueue')
    BY DEF Elements
  <2> QED
    BY <1>1, <2>1, <2>2, <2>3 DEF PipeInv, Settled
<1>6. Young'
  BY YoungKept DEF PipeInv
<1> QED
  BY <1>1, <1>2, <1>3, <1>4, <1>5, <1>6 DEF PipeInv

(* The capture goroutines: Tick to Submit.                                 *)
LEMMA CaptureKeeps ==
  ASSUME PipeInv, RegionsSound, RegionsSound', Grown, NEW r \in Region, NEW gen \in Gen,
         Tick(r, gen) \/ Shoot(r, gen) \/ ShootFails(r, gen) \/ Submit(r, gen)
  PROVE  PipeInv'
<1> DEFINE s == <<r, gen>>
           x == cap[s]
<1>1. s \in Scan /\ x \in CapState /\ screen \in Picture /\ decQueue \in Seq(Job) /\ saveQueue \in Seq(Carried)
  BY DEF PipeInv, PipeTypeOK, Scan
<1>2. Off \in CapState /\ Off.pc = "off" /\ InHand(Off) = {}
  BY DEF Off, CapState, InHand, Busy
<1>3. x.pc \in {"tick", "shoot", "submit"} => InHand(x) = {} /\ x.pc # "off"
  BY DEF InHand, Busy
<1>4. ASSUME NEW c \in CapState, cap' = [cap EXCEPT ![s] = c], c.pc \in {"off", "tick", "shoot", "submit"},
             x.pc \in {"tick", "shoot", "submit"},
             UNCHANGED <<screen, worker, saver, saved, api, queuesClosed, saveQueue, verified, dropped>>,
             decQueue' \in Seq(Job), queuesClosed => UNCHANGED decQueue
      PROVE  PipeInv'
  <2>1. InHand(c) = {} /\ c.pc \notin Busy
    BY <1>4 DEF InHand, Busy
  <2>2. verified' = verified \union {}
    BY <1>4
  <2>3. dropped' \union Elements(saveQueue') \union InHand(c)
          = dropped \union Elements(saveQueue) \union InHand(x) \union {}
    BY <1>3, <1>4, <2>1
  <2>4. saveQueue' \in Seq(Carried)
    BY <1>1, <1>4
  <2> HIDE DEF s
  <2> QED
    BY <1>1, <1>3, <1>4, <2>1, <2>2, <2>3, <2>4, CapKeeps
<1>5. CASE Tick(r, gen) /\ NameOverdue(r, gen)
  <2> DEFINE t == <<r, reg[r].base>>
             c == [Off EXCEPT !.pc = "rlock", !.transfer = t]
  <2>1. t \in Carried
    BY Fields DEF RegionsSound, Carried
  <2>2. c \in CapState /\ c.pc = "rlock" /\ c.transfer = t
    BY <1>2, <2>1 DEF CapState
  <2>3. InHand(c) = {t}
    BY <2>2 DEF InHand, Busy
  <2>4. cap' = [cap EXCEPT ![s] = c] /\ verified' = verified \union {t} /\ x.pc = "tick"
    BY <1>5 DEF Tick, Complete
  <2>5. UNCHANGED <<screen, worker, saver, saved, api, queuesClosed, decQueue, saveQueue, dropped>>
    BY <1>5 DEF Tick, uiVars, saveVars
  <2>6. dropped' \union Elements(saveQueue') \union InHand(c)
          = dropped \union Elements(saveQueue) \union InHand(x) \union {t}
    BY <1>3, <2>3, <2>4, <2>5
  <2> HIDE DEF c, s, t
  <2> QED
    BY <1>1, <1>3, <2>1, <2>2, <2>4, <2>5, <2>6, CapKeeps
<1>6. CASE Tick(r, gen) /\ ~NameOverdue(r, gen)
  <2> DEFINE c == IF Current(r, gen) THEN [x EXCEPT !.pc = "shoot"] ELSE Off
  <2>1. cap' = [cap EXCEPT ![s] = c] /\ x.pc = "tick"
    BY <1>6 DEF Tick
  <2>2. UNCHANGED <<screen, worker, saver, saved, api, queuesClosed, saveQueue, verified, dropped, decQueue>>
    BY <1>6 DEF Tick, uiVars, saveVars
  <2>3. c \in CapState /\ c.pc \in {"off", "shoot"}
    BY <1>1, <1>2 DEF CapState
  <2> HIDE DEF c, s
  <2> QED
    BY <1>1, <1>4, <2>1, <2>2, <2>3
<1>7. CASE Shoot(r, gen)
  <2> DEFINE c == [x EXCEPT !.pc = "submit", !.shot = screen]
  <2>1. cap' = [cap EXCEPT ![s] = c] /\ x.pc = "shoot"
    BY <1>1, <1>7 DEF Shoot
  <2>2. UNCHANGED <<screen, worker, saver, saved, api, queuesClosed, saveQueue, verified, dropped, decQueue>>
    BY <1>7 DEF Shoot, uiVars, saveVars, history
  <2>3. c \in CapState /\ c.pc = "submit"
    BY <1>1 DEF CapState
  <2> HIDE DEF c, s
  <2> QED
    BY <1>1, <1>4, <2>1, <2>2, <2>3
<1>8. CASE ShootFails(r, gen)
  <2> DEFINE c == [x EXCEPT !.pc = "tick"]
  <2>1. cap' = [cap EXCEPT ![s] = c] /\ x.pc = "shoot"
    BY <1>1, <1>8 DEF ShootFails
  <2>2. UNCHANGED <<screen, worker, saver, saved, api, queuesClosed, saveQueue, verified, dropped, decQueue>>
    BY <1>8 DEF ShootFails, uiVars, saveVars, history
  <2>3. c \in CapState /\ c.pc = "tick"
    BY <1>1 DEF CapState
  <2> HIDE DEF c, s
  <2> QED
    BY <1>1, <1>4, <2>1, <2>2, <2>3
<1>9. CASE Submit(r, gen)
  <2> DEFINE accepted == x.shot # x.prev /\ ~queuesClosed /\ Len(decQueue) < DecCap
             c == [Launched EXCEPT !.prev = IF accepted THEN x.shot ELSE x.prev]
             job == [r |-> r, gen |-> gen, shot |-> x.shot]
  <2>1. cap' = [cap EXCEPT ![s] = c] /\ x.pc = "submit" /\ decQueue' = IF accepted THEN Append(decQueue, job) ELSE decQueue
    BY <1>9 DEF Submit
  <2>2. UNCHANGED <<screen, worker, saver, saved, api, queuesClosed, saveQueue, verified, dropped>>
    BY <1>9 DEF Submit, uiVars, saveVars, history
  <2>3. c \in CapState /\ c.pc = "tick"
    BY <1>1, <1>2 DEF CapState, Launched
  <2>4. job \in Job
    BY <1>1 DEF CapState, Job
  <2>5. decQueue' \in Seq(Job) /\ (queuesClosed => decQueue' = decQueue)
    <3>1. Append(decQueue, job) \in Seq(Job)
      BY <1>1, <2>4, AppendProperties
    <3> HIDE DEF job
    <3> QED
      BY <1>1, <2>1, <3>1
  <2> HIDE DEF c, s, job, accepted
  <2> QED
    BY <1>1, <1>4, <2>1, <2>2, <2>3, <2>5
<1> QED
  BY <1>5, <1>6, <1>7, <1>8, <1>9

(* submitSave gives the transfer up, or queues it, once and for good.      *)
LEMMA HandedOn ==
  ASSUME PipeInv, NEW t \in Carried, Enqueued(t)
  PROVE  /\ saveQueue' \in Seq(Carried)
         /\ dropped' \union Elements(saveQueue') = dropped \union Elements(saveQueue) \union {t}
<1>1. saveQueue \in Seq(Carried)
  BY DEF PipeInv, PipeTypeOK
<1>2. CASE saveQueue' = Append(saveQueue, t) /\ UNCHANGED dropped
  BY <1>1, <1>2, Appended
<1>3. CASE dropped' = dropped \union {t} /\ UNCHANGED saveQueue
  BY <1>1, <1>3
<1> QED
  BY <1>2, <1>3 DEF Enqueued

(* CaptureSave.                                                            *)
LEMMA CaptureSaveKeeps ==
  ASSUME PipeInv, RegionsSound, RegionsSound', Grown, NEW r \in Region, NEW gen \in Gen, CaptureSave(r, gen)
  PROVE  PipeInv'
<1> DEFINE s == <<r, gen>>
           x == cap[s]
<1>1. s \in Scan /\ x \in CapState /\ decQueue \in Seq(Job) /\ saveQueue \in Seq(Carried)
  BY DEF PipeInv, PipeTypeOK, Scan
<1>2. Off \in CapState /\ Off.pc = "off" /\ InHand(Off) = {}
  BY DEF Off, CapState, InHand, Busy
<1>3. UNCHANGED <<screen, worker, saver, saved, api, queuesClosed, verified, decQueue>> /\ x.pc \in Busy
  BY DEF CaptureSave, uiVars, Busy
<1>4. x.transfer \in Carried /\ InHand(x) = {x.transfer}
  BY <1>1, <1>3 DEF PipeInv, HandsOK, InHand
<1>5. verified' = verified \union {} /\ decQueue' \in Seq(Job) /\ x.pc # "off"
  BY <1>1, <1>3 DEF Busy
<1>6. CASE ~queuesClosed /\ cap' = [cap EXCEPT ![s].pc = "saving"] /\ UNCHANGED <<saveQueue, dropped>>
  <2> DEFINE c == [x EXCEPT !.pc = "saving"]
  <2>1. cap' = [cap EXCEPT ![s] = c]
    BY <1>6
  <2>2. c \in CapState /\ c.pc = "saving" /\ c.transfer = x.transfer /\ InHand(c) = {x.transfer}
    BY <1>1 DEF CapState, InHand, Busy
  <2>3. dropped' \union Elements(saveQueue') \union InHand(c)
          = dropped \union Elements(saveQueue) \union InHand(x) \union {}
    BY <1>4, <1>6, <2>2
  <2> HIDE DEF c, s
  <2> QED
    BY <1>1, <1>3, <1>4, <1>5, <1>6, <2>1, <2>2, <2>3, CapKeeps
<1>7. CASE cap' = [cap EXCEPT ![s] = Off] /\ Refused(x.transfer) /\ UNCHANGED saveQueue
  <2>1. dropped' \union Elements(saveQueue') \union InHand(Off)
          = dropped \union Elements(saveQueue) \union InHand(x) \union {}
    BY <1>2, <1>4, <1>7 DEF Refused
  <2>2. saveQueue' \in Seq(Carried) /\ Off.pc \notin Busy /\ Off.pc # "saving"
    BY <1>1, <1>2, <1>7 DEF Busy
  <2> HIDE DEF s
  <2> QED
    BY <1>1, <1>2, <1>3, <1>5, <1>7, <2>1, <2>2, CapKeeps
<1>8. CASE cap' = [cap EXCEPT ![s] = Off] /\ Enqueued(x.transfer) /\ x.pc = "saving"
  <2>1. saveQueue' \in Seq(Carried) /\ dropped' \union Elements(saveQueue') = dropped \union Elements(saveQueue) \union {x.transfer}
    BY <1>4, <1>8, HandedOn
  <2>2. dropped' \union Elements(saveQueue') \union InHand(Off)
          = dropped \union Elements(saveQueue) \union InHand(x) \union {}
    BY <1>2, <1>4, <2>1
  <2>3. ~queuesClosed /\ Off.pc \notin Busy /\ Off.pc # "saving"
    BY <1>1, <1>2, <1>8 DEF PipeInv, ClosingOK, Busy
  <2> HIDE DEF s
  <2> QED
    BY <1>1, <1>2, <1>3, <1>5, <1>8, <2>1, <2>2, <2>3, CapKeeps
<1> QED
  BY <1>6, <1>7, <1>8 DEF CaptureSave

(* The workers: taking a job, leaving it, leaving for good.                *)
LEMMA TakingKeeps ==
  ASSUME PipeInv, RegionsSound, RegionsSound', Grown, NEW w \in Worker, Take(w) \/ WorkerExit(w) \/ NoPayload(w)
  PROVE  PipeInv'
<1> DEFINE x == worker[w]
<1>1. x \in WorkerState /\ decQueue \in Seq(Job) /\ saveQueue \in Seq(Carried)
  BY DEF PipeInv, PipeTypeOK
<1>2. Idle \in WorkerState /\ Idle.pc = "idle"
  BY DEF Idle, WorkerState
<1>3. /\ UNCHANGED <<screen, cap, saver, saved, api, queuesClosed, saveQueue, verified, dropped>>
      /\ x.pc \in {"idle", "decoded"}
  BY DEF Take, WorkerExit, NoPayload, uiVars, saveVars, history
<1>4. ASSUME NEW c \in WorkerState, worker' = [worker EXCEPT ![w] = c], c.pc \in {"idle", "decoded", "gone"},
             c.pc = "decoded" => c.job \in Job, c.pc = "gone" => queuesClosed /\ decQueue' = << >>,
             decQueue' \in Seq(Job), decQueue = << >> => UNCHANGED decQueue
      PROVE  PipeInv'
  <2>1. InHand(c) = {} /\ InHand(x) = {} /\ c.pc \notin Busy /\ c.pc # "saving" /\ x.pc # "gone"
    BY <1>3, <1>4 DEF InHand, Busy
  <2>2. verified' = verified \union {}
    BY <1>3
  <2>3. dropped' \union Elements(saveQueue') \union InHand(c)
          = dropped \union Elements(saveQueue) \union InHand(x) \union {}
    BY <1>3, <2>1
  <2>4. saveQueue' \in Seq(Carried)
    BY <1>1, <1>3
  <2> QED
    BY <1>3, <1>4, <2>1, <2>2, <2>3, <2>4, WorkerKeeps
<1>5. CASE Take(w)
  <2> DEFINE job == Head(decQueue)
             c == IF Current(job.r, job.gen) THEN [x EXCEPT !.pc = "decoded", !.job = job] ELSE x
  <2>1. worker' = [worker EXCEPT ![w] = c] /\ decQueue # << >> /\ decQueue' = Tail(decQueue) /\ x.pc = "idle"
    BY <1>1, <1>5 DEF Take
  <2>2. job \in Job /\ Tail(decQueue) \in Seq(Job)
    BY <1>1, <2>1, Removed
  <2> HIDE DEF job
  <2>3. c \in WorkerState /\ c.pc \in {"idle", "decoded"} /\ (c.pc = "decoded" => c.job \in Job)
    BY <1>1, <2>1, <2>2 DEF WorkerState
  <2> HIDE DEF c
  <2> QED
    BY <1>4, <2>1, <2>2, <2>3
<1>6. CASE WorkerExit(w)
  <2> DEFINE c == [x EXCEPT !.pc = "gone"]
  <2>1. worker' = [worker EXCEPT ![w] = c] /\ decQueue = << >> /\ decQueue' = decQueue /\ queuesClosed
    BY <1>1, <1>6 DEF WorkerExit
  <2>2. c \in WorkerState /\ c.pc = "gone"
    BY <1>1 DEF WorkerState
  <2> HIDE DEF c
  <2> QED
    BY <1>1, <1>4, <2>1, <2>2
<1>7. CASE NoPayload(w)
  <2>1. worker' = [worker EXCEPT ![w] = Idle] /\ decQueue' = decQueue
    BY <1>7 DEF NoPayload
  <2> QED
    BY <1>1, <1>2, <1>4, <2>1
<1> QED
  BY <1>5, <1>6, <1>7

(* commitPayload.                                                          *)
LEMMA CommitKeeps ==
  ASSUME PipeInv, RegionsSound, RegionsSound', Grown, NEW w \in Worker, Commit(w)
  PROVE  PipeInv'
<1> DEFINE x == worker[w]
           r == x.job.r
           fed == [reg[r] EXCEPT !.stale = @ \/ x.job.gen <= reg[r].base]
           t == <<r, fed.base>>
           c == [pc |-> "rlock", job |-> None, transfer |-> t]
<1>1. x \in WorkerState /\ decQueue \in Seq(Job) /\ saveQueue \in Seq(Carried)
  BY DEF PipeInv, PipeTypeOK
<1>2. /\ UNCHANGED <<screen, cap, saver, saved, api, queuesClosed, decQueue, saveQueue, dropped>>
      /\ x.pc = "decoded"
  BY DEF Commit, uiVars, saveVars
<1>3. x.job \in Job /\ r \in Region /\ InHand(x) = {} /\ x.pc # "gone"
  BY <1>2 DEF PipeInv, HandsOK, Job, InHand, Busy
<1>4. decQueue' \in Seq(Job) /\ saveQueue' \in Seq(Carried)
  BY <1>1, <1>2
<1>5. CASE worker' = [worker EXCEPT ![w] = Idle] /\ UNCHANGED verified
  <2>1. Idle \in WorkerState /\ Idle.pc = "idle"
    BY DEF Idle, WorkerState
  <2>2. InHand(Idle) = {} /\ Idle.pc \notin Busy \union {"decoded", "saving", "gone"}
    BY <2>1 DEF InHand, Busy
  <2>3. dropped' \union Elements(saveQueue') \union InHand(Idle)
          = dropped \union Elements(saveQueue) \union InHand(x) \union {}
    BY <1>2, <1>3, <2>2
  <2>4. verified' = verified \union {}
    BY <1>5
  <2> QED
    BY <1>2, <1>3, <1>4, <1>5, <2>1, <2>2, <2>3, <2>4, WorkerKeeps
<1>6. CASE worker' = [worker EXCEPT ![w] = c] /\ verified' = verified \union {t}
  <2>1. t \in Carried
    <3>1. reg[r] \in RegionState
      BY <1>3 DEF RegionsSound
    <3>2. fed.base = reg[r].base
      BY <3>1 DEF RegionState
    <3> QED
      BY <1>3, <3>1, <3>2, Fields DEF Carried
  <2> HIDE DEF fed, t
  <2>2. c \in WorkerState /\ c.pc = "rlock" /\ c.transfer = t /\ InHand(c) = {t}
    BY <2>1 DEF WorkerState, InHand, Busy
  <2>3. dropped' \union Elements(saveQueue') \union InHand(c)
          = dropped \union Elements(saveQueue) \union InHand(x) \union {t}
    BY <1>2, <1>3, <2>2
  <2> HIDE DEF c
  <2> QED
    BY <1>2, <1>3, <1>4, <1>6, <2>1, <2>2, <2>3, WorkerKeeps
<1> QED
  BY <1>5, <1>6 DEF Commit, Complete

(* WorkerSave.                                                             *)
LEMMA WorkerSaveKeeps ==
  ASSUME PipeInv, RegionsSound, RegionsSound', Grown, NEW w \in Worker, WorkerSave(w)
  PROVE  PipeInv'
<1> DEFINE x == worker[w]
<1>1. x \in WorkerState /\ decQueue \in Seq(Job) /\ saveQueue \in Seq(Carried)
  BY DEF PipeInv, PipeTypeOK
<1>2. Idle \in WorkerState /\ InHand(Idle) = {} /\ Idle.pc \notin Busy \union {"decoded", "saving", "gone"}
  BY DEF Idle, WorkerState, InHand, Busy
<1>3. UNCHANGED <<screen, cap, saver, saved, api, queuesClosed, verified, decQueue>> /\ x.pc \in Busy
  BY DEF WorkerSave, uiVars, Busy
<1>4. x.transfer \in Carried /\ InHand(x) = {x.transfer} /\ x.pc # "gone"
  BY <1>1, <1>3 DEF PipeInv, HandsOK, InHand, Busy
<1>5. verified' = verified \union {} /\ decQueue' \in Seq(Job)
  BY <1>1, <1>3
<1>6. CASE ~queuesClosed /\ worker' = [worker EXCEPT ![w].pc = "saving"] /\ UNCHANGED <<saveQueue, dropped>>
  <2> DEFINE c == [x EXCEPT !.pc = "saving"]
  <2>1. worker' = [worker EXCEPT ![w] = c]
    BY <1>6
  <2>2. c \in WorkerState /\ c.pc = "saving" /\ c.transfer = x.transfer /\ InHand(c) = {x.transfer}
    BY <1>1 DEF WorkerState, InHand, Busy
  <2>3. dropped' \union Elements(saveQueue') \union InHand(c)
          = dropped \union Elements(saveQueue) \union InHand(x) \union {}
    BY <1>4, <1>6, <2>2
  <2> HIDE DEF c
  <2> QED
    BY <1>1, <1>3, <1>4, <1>5, <1>6, <2>1, <2>2, <2>3, WorkerKeeps
<1>7. CASE worker' = [worker EXCEPT ![w] = Idle] /\ Refused(x.transfer) /\ UNCHANGED saveQueue
  <2>1. dropped' \union Elements(saveQueue') \union InHand(Idle)
          = dropped \union Elements(saveQueue) \union InHand(x) \union {}
    BY <1>2, <1>4, <1>7 DEF Refused
  <2> QED
    BY <1>1, <1>2, <1>3, <1>4, <1>5, <1>7, <2>1, WorkerKeeps
<1>8. CASE worker' = [worker EXCEPT ![w] = Idle] /\ Enqueued(x.transfer) /\ x.pc = "saving"
  <2>1. saveQueue' \in Seq(Carried) /\ dropped' \union Elements(saveQueue') = dropped \union Elements(saveQueue) \union {x.transfer}
    BY <1>4, <1>8, HandedOn
  <2>2. dropped' \union Elements(saveQueue') \union InHand(Idle)
          = dropped \union Elements(saveQueue) \union InHand(x) \union {}
    BY <1>2, <1>4, <2>1
  <2>3. ~queuesClosed
    BY <1>8 DEF PipeInv, ClosingOK
  <2> QED
    BY <1>1, <1>2, <1>3, <1>4, <1>5, <1>8, <2>1, <2>2, <2>3, WorkerKeeps
<1> QED
  BY <1>6, <1>7, <1>8 DEF WorkerSave

(* The saver.                                                              *)
LEMMA SaverKeeps ==
  ASSUME PipeInv, RegionsSound, RegionsSound', Grown, SaverStep
  PROVE  PipeInv'
<1>1. saveQueue \in Seq(Carried) /\ saved \in Seq(Carried)
  BY DEF PipeInv, PipeTypeOK
<1>2. UNCHANGED <<screen, cap, worker, decQueue, api, queuesClosed, verified, dropped>>
  BY DEF SaverStep, SaverTake, SaverWrite, SaverExit, uiVars, history
<1>3. Young' /\ InCaps' = InCaps /\ InWorkers' = InWorkers
  BY <1>2, YoungKept DEF PipeInv, InCaps, InWorkers
<1>4. Elements(saved)' = Elements(saved') /\ Elements(saveQueue)' = Elements(saveQueue')
  BY DEF Elements
<1>5. CASE SaverTake
  <2>1. Head(saveQueue) \in Carried /\ Tail(saveQueue) \in Seq(Carried)
        /\ Elements(saveQueue) = {Head(saveQueue)} \union Elements(Tail(saveQueue))
    BY <1>1, <1>5, Removed DEF SaverTake
  <2>2. /\ saver.pc = "idle" /\ saver' = [pc |-> "write", transfer |-> Head(saveQueue)]
        /\ saveQueue' = Tail(saveQueue) /\ saved' = saved
    BY <1>5 DEF SaverTake
  <2>3. saver'.pc = "write" /\ saver'.transfer = Head(saveQueue)
    BY <2>2
  <2>4. PipeTypeOK' /\ HandsOK'
    BY <1>2, <2>1, <2>2, <2>3 DEF PipeInv, PipeTypeOK, HandsOK
  <2>5. ClosingOK'
    BY <1>2, <2>2, <2>3 DEF PipeInv, ClosingOK
  <2>6. InSaver = {} /\ InSaver' = {Head(saveQueue)}
    BY <2>2, <2>3 DEF InSaver
  <2>7. Settled'
    BY <1>2, <1>3, <1>4, <2>1, <2>2, <2>6 DEF PipeInv, Settled
  <2> QED
    BY <1>3, <2>4, <2>5, <2>7 DEF PipeInv
<1>6. CASE SaverWrite
  <2>1. saver.pc = "write" /\ saver.transfer \in Carried
    BY <1>6 DEF SaverWrite, PipeInv, HandsOK
  <2>2. Append(saved, saver.transfer) \in Seq(Carried)
        /\ Elements(Append(saved, saver.transfer)) = Elements(saved) \union {saver.transfer}
    BY <1>1, <2>1, Appended
  <2>3. saved' = Append(saved, saver.transfer) /\ saveQueue' = saveQueue /\ saver' = [pc |-> "idle", transfer |-> None]
    BY <1>6 DEF SaverWrite
  <2>4. saver'.pc = "idle"
    BY <2>3
  <2>5. PipeTypeOK' /\ HandsOK'
    BY <1>2, <2>2, <2>3, <2>4 DEF PipeInv, PipeTypeOK, HandsOK
  <2>6. ClosingOK'
    BY <1>2, <2>1, <2>3, <2>4 DEF PipeInv, ClosingOK
  <2>7. InSaver = {saver.transfer} /\ InSaver' = {}
    BY <2>1, <2>4 DEF InSaver
  <2>8. Settled'
    BY <1>2, <1>3, <1>4, <2>2, <2>3, <2>7 DEF PipeInv, Settled
  <2> QED
    BY <1>3, <2>5, <2>6, <2>8 DEF PipeInv
<1>7. CASE SaverExit
  <2>1. /\ saver.pc = "idle" /\ saveQueue = << >> /\ queuesClosed /\ saver' = [saver EXCEPT !.pc = "gone"]
        /\ saveQueue' = saveQueue /\ saved' = saved
    BY <1>7 DEF SaverExit
  <2>2. saver'.pc = "gone"
    BY <2>1 DEF PipeInv, PipeTypeOK
  <2>3. PipeTypeOK' /\ HandsOK'
    BY <1>2, <2>1, <2>2 DEF PipeInv, PipeTypeOK, HandsOK
  <2>4. ClosingOK'
    BY <1>2, <2>1, <2>2 DEF PipeInv, ClosingOK
  <2>5. InSaver = {} /\ InSaver' = {}
    BY <2>1, <2>2 DEF InSaver
  <2>6. Settled'
    BY <1>2, <1>3, <1>4, <2>1, <2>5 DEF PipeInv, Settled
  <2> QED
    BY <1>3, <2>3, <2>4, <2>6 DEF PipeInv
<1> QED
  BY <1>5, <1>6, <1>7 DEF SaverStep

(* Scans begin: their goroutines had not begun, so nothing is lost.        *)
LEMMA LaunchKeeps ==
  ASSUME PipeInv, RegionsSound, RegionsSound', Grown, NEW S, Launch(S), api = "idle",
         \A r \in S \intersect Region : ~reg[r].scanning \/ Failed(reg[r])
  PROVE  PipeInv'
<1> DEFINE New(s) == s[1] \in S /\ s[2] = Started(reg[s[1]]).serial
<1>1. /\ UNCHANGED <<screen, worker, saver, saved, decQueue, saveQueue, api, queuesClosed, verified, dropped>>
      /\ cap' = [s \in Scan |-> IF New(s) THEN Launched ELSE cap[s]]
      /\ reg' = [r \in Region |-> IF r \in S THEN Started(reg[r]) ELSE reg[r]]
  BY DEF Launch, uiVars, saveVars, history
<1>2. Launched \in CapState /\ Launched.pc = "tick"
  BY DEF Launched, Off, CapState
<1>3. ASSUME NEW s \in Scan PROVE /\ s[1] \in Region /\ s[2] \in Gen /\ s = <<s[1], s[2]>>
                                  /\ New(s) => cap[s].pc = "off" /\ reg'[s[1]].serial = s[2]
  <2>1. s[1] \in Region /\ s[2] \in Gen /\ s = <<s[1], s[2]>> /\ s[2] \in Nat
    BY DEF Scan, Gen
  <2>2. ASSUME New(s) PROVE cap[s].pc = "off" /\ reg'[s[1]].serial = s[2]
    <3>1. Sound(reg[s[1]]) /\ (~reg[s[1]].scanning \/ Failed(reg[s[1]]))
      BY <2>1, <2>2 DEF RegionsSound
    <3>2. reg[s[1]].serial < s[2]
      BY <2>2, <3>1, StartSound
    <3>3. reg[s[1]].serial \in Nat
      BY <2>1, Fields DEF RegionsSound
    <3>4. ~(s[2] <= reg[s[1]].serial)
      BY <2>1, <3>2, <3>3
    <3>5. cap[s].pc # "off" => s[2] <= reg[s[1]].serial
      BY <2>1 DEF PipeInv, Young
    <3>6. reg'[s[1]].serial = s[2]
      BY <1>1, <2>1, <2>2
    <3> QED
      BY <3>4, <3>5, <3>6
  <2> QED
    BY <2>1, <2>2
<1>4. \A s \in Scan : cap'[s] = cap[s] \/ (cap'[s] = Launched /\ cap[s].pc = "off")
  BY <1>1, <1>3
<1> HIDE DEF New
<1>5. cap' \in [Scan -> CapState]
  BY <1>1, <1>2 DEF PipeInv, PipeTypeOK
<1>6. PipeTypeOK'
  BY <1>1, <1>5 DEF PipeInv, PipeTypeOK
<1>7. HandsOK'
  <2>1. \A s \in Scan : cap'[s].pc \in Busy => cap'[s].transfer \in Carried
    BY <1>2, <1>4 DEF PipeInv, HandsOK, Busy
  <2> QED
    BY <1>1, <2>1 DEF PipeInv, HandsOK
<1>8. Young'
  <2> SUFFICES ASSUME NEW r \in Region, NEW g \in Gen, cap'[<<r, g>>].pc # "off"
               PROVE  g <= reg'[r].serial
    BY DEF Young
  <2> DEFINE s == <<r, g>>
  <2>1. s \in Scan /\ s[1] = r /\ s[2] = g /\ g \in Nat
    BY DEF Scan, Gen
  <2>2. reg[r].serial \in Nat /\ reg'[r].serial \in Nat /\ reg[r].serial <= reg'[r].serial
    BY Fields DEF RegionsSound, Grown
  <2>3. CASE New(s)
    <3>1. reg'[s[1]].serial = s[2]
      BY <1>3, <2>1, <2>3
    <3> QED
      BY <2>1, <2>2, <3>1
  <2>4. CASE ~New(s)
    <3>1. cap[s].pc # "off"
      BY <1>1, <2>1, <2>4
    <3>2. g <= reg[r].serial
      BY <3>1 DEF PipeInv, Young
    <3> QED
      BY <2>1, <2>2, <3>2
  <2> QED
    BY <2>3, <2>4
<1>9. ClosingOK'
  <2>1. ~queuesClosed
    BY DEF PipeInv, ClosingOK
  <2> QED
    BY <1>1, <2>1 DEF PipeInv, ClosingOK
<1>10. Settled'
  <2>1. \A s \in Scan : InHand(cap'[s]) = InHand(cap[s])
    BY <1>2, <1>4 DEF InHand, Busy
  <2>2. InCaps' = InCaps
    BY <2>1 DEF InCaps
  <2>3. /\ Elements(saved)' = Elements(saved) /\ Elements(saveQueue)' = Elements(saveQueue)
        /\ InSaver' = InSaver /\ InWorkers' = InWorkers
    BY <1>1 DEF Elements, InSaver, InWorkers
  <2> QED
    BY <1>1, <2>2, <2>3 DEF PipeInv, Settled
<1> QED
  BY <1>6, <1>7, <1>8, <1>9, <1>10 DEF PipeInv

(* A step of which goroutines and queues see at most that Close goes on.   *)
LEMMA OthersKeep ==
  ASSUME PipeInv, RegionsSound, RegionsSound', Grown, screen' \in Picture, ClosingOK',
         UNCHANGED <<cap, worker, saver, saved, decQueue, saveQueue, verified, dropped>>
  PROVE  PipeInv'
<1>1. PipeTypeOK' /\ HandsOK'
  BY DEF PipeInv, PipeTypeOK, HandsOK
<1>2. Young'
  BY YoungKept DEF PipeInv
<1>3. Settled'
  BY DEF PipeInv, Settled, Elements, InSaver, InCaps, InWorkers
<1> QED
  BY <1>1, <1>2, <1>3 DEF PipeInv

(* The UI thread.                                                          *)
LEMMA UIKeeps ==
  ASSUME PipeInv, RegionsSound, RegionsSound', Grown, UIStep
  PROVE  PipeInv'
<1>1. screen \in Picture
  BY DEF PipeInv, PipeTypeOK
<1>2. ASSUME UNCHANGED <<screen, cap, worker, saver, saved, decQueue, saveQueue, verified, dropped, queuesClosed>>,
             api' = api \/ {api, api'} \subseteq {"idle", "clearing", "cancel", "locking"}
      PROVE  PipeInv'
  <2>1. ClosingOK'
    BY <1>2 DEF PipeInv, ClosingOK
  <2> QED
    BY <1>1, <1>2, <2>1, OthersKeep
<1>3. CASE \E r \in Region : AddRegion(r) \/ RemoveRegion(r) \/ Stop(r)
  BY <1>2, <1>3 DEF AddRegion, RemoveRegion, Stop, Halt, saveVars, uiVars, history
<1>4. CASE Clear \/ ClearPreview \/ StopAll
  BY <1>2, <1>4 DEF Clear, ClearPreview, StopAll, Halt, saveVars, uiVars, history
<1>5. CASE CloseBegin \/ CloseCancel
  BY <1>2, <1>5 DEF CloseBegin, CloseCancel, saveVars, history
<1>6. CASE \E r \in Region : Start(r)
  BY <1>6, LaunchKeeps DEF Start
<1>7. CASE StartAll
  BY <1>7, LaunchKeeps DEF StartAll
<1>8. CASE CloseQueues
  <2>1. UNCHANGED <<screen, cap, worker, saver, saved, decQueue, saveQueue, verified, dropped>>
        /\ queuesClosed' = TRUE /\ api' = "waiting" /\ Senders = {}
    BY <1>8 DEF CloseQueues, saveVars, history
  <2>2. /\ \A s \in Scan : cap[s].pc # "saving"
        /\ \A w \in Worker : worker[w].pc # "saving"
    BY <2>1 DEF Senders
  <2>3. ClosingOK'
    BY <2>1, <2>2 DEF PipeInv, ClosingOK
  <2> QED
    BY <1>1, <2>1, <2>3, OthersKeep
<1>9. CASE CloseReturn
  <2>1. UNCHANGED <<screen, cap, worker, saver, saved, decQueue, saveQueue, verified, dropped, queuesClosed>>
        /\ api = "waiting" /\ api' = "closed"
    BY <1>9 DEF CloseReturn, saveVars, history
  <2>2. ClosingOK'
    BY <1>9, <2>1 DEF CloseReturn, PipeInv, ClosingOK
  <2> QED
    BY <1>1, <2>1, <2>2, OthersKeep
<1> QED
  BY <1>3, <1>4, <1>5, <1>6, <1>7, <1>8, <1>9 DEF UIStep, CloseStep

(* Every step.                                                             *)
LEMMA PipeStep ==
  ASSUME PipeInv, RegionsSound, [Next]_vars
  PROVE  PipeInv' /\ RegionsSound'
<1>1. RegionsSound' /\ Grown
  BY RegionsStep
<1>2. ASSUME UNCHANGED <<cap, worker, saver, saved, decQueue, saveQueue, verified, dropped, queuesClosed, api>>,
             screen' \in Picture
      PROVE  PipeInv'
  <2>1. ClosingOK'
    BY <1>2 DEF PipeInv, ClosingOK
  <2> QED
    BY <1>1, <1>2, <2>1, OthersKeep
<1>3. screen \in Picture
  BY DEF PipeInv, PipeTypeOK
<1>4. CASE (\E r \in Region : NameDeadline(r)) \/ NewPicture \/ Closed \/ UNCHANGED vars
  <2>1. UNCHANGED <<cap, worker, saver, saved, decQueue, saveQueue, verified, dropped, queuesClosed, api>>
        /\ screen' \in Picture
    BY <1>3, <1>4 DEF NameDeadline, NewPicture, Closed, vars, uiVars, saveVars, history
  <2> QED
    BY <1>1, <1>2, <2>1
<1>5. ASSUME NEW r \in Region, NEW gen \in Gen, CaptureStep(r, gen) PROVE PipeInv'
  BY <1>1, <1>5, CaptureKeeps, CaptureSaveKeeps DEF CaptureStep
<1>6. ASSUME NEW w \in Worker, WorkerStep(w) PROVE PipeInv'
  BY <1>1, <1>6, TakingKeeps, CommitKeeps, WorkerSaveKeeps DEF WorkerStep
<1>7. CASE SaverStep
  BY <1>1, <1>7, SaverKeeps
<1>8. CASE UIStep
  BY <1>1, <1>8, UIKeeps
<1>9. PipeInv'
  BY <1>4, <1>5, <1>6, <1>7, <1>8 DEF Next
<1> QED
  BY <1>1, <1>9

(* PipeInv is, with RegionsSound, an inductive invariant of the pipeline.  *)
THEOREM PipeInvariant == Spec => []PipeInv
<1>1. Init => PipeInv
  <2> SUFFICES ASSUME Init PROVE PipeInv
    OBVIOUS
  <2>1. Off \in CapState /\ Off.pc = "off" /\ Idle \in WorkerState /\ Idle.pc = "idle"
    BY DEF Off, CapState, Idle, WorkerState
  <2>2. << >> \in Seq(Job) /\ << >> \in Seq(Carried)
    BY EmptySeq
  <2>3. /\ \A s \in Scan : cap[s] = Off
        /\ \A w \in Worker : worker[w] = Idle
        /\ saver.pc = "idle" /\ saver \in [pc : {"idle", "write", "gone"}, transfer : Carried \union {None}]
    BY DEF Init
  <2>4. PipeTypeOK
    BY <2>1, <2>2, <2>3 DEF Init, PipeTypeOK
  <2>5. HandsOK
    BY <2>1, <2>3 DEF HandsOK, Busy
  <2>6. Young
    BY <2>1, <2>3 DEF Young, Scan
  <2>7. ClosingOK
    BY <2>1, <2>3 DEF Init, ClosingOK
  <2>8. Settled
    <3>1. InCaps = {} /\ InWorkers = {} /\ InSaver = {}
      BY <2>1, <2>3 DEF InCaps, InWorkers, InSaver, InHand, Busy
    <3>2. Elements(saved) = {} /\ Elements(saveQueue) = {}
      BY <2>2, NoElements DEF Init
    <3> QED
      BY <3>1, <3>2 DEF Init, Settled
  <2> QED
    BY <2>4, <2>5, <2>6, <2>7, <2>8 DEF PipeInv
<1> QED
  BY <1>1, PipeStep, RegionsInvariant, PTL DEF Spec

(* Close returns when everything is settled, and nobody sends into a       *)
(* closed queue (Close, submitSave, saver).                                *)
THEOREM ClosedIsSettled == Spec => []CloseSettles
<1>1. PipeInv => CloseSettles
  <2> SUFFICES ASSUME PipeInv PROVE CloseSettles
    OBVIOUS
  <2>1. queuesClosed => Senders = {}
    BY DEF PipeInv, ClosingOK, Senders
  <2>2. ASSUME api = "closed" PROVE decQueue = << >> /\ saveQueue = << >> /\ verified = Elements(saved) \union dropped
    <3>1. decQueue = << >>
      BY <2>2, PipelineAssumption DEF PipeInv, ClosingOK
    <3>2. saveQueue = << >>
      BY <2>2 DEF PipeInv, ClosingOK
    <3>3. Elements(saveQueue) = {}
      BY <3>2, NoElements DEF PipeInv, PipeTypeOK
    <3>4. InCaps = {} /\ InWorkers = {} /\ InSaver = {}
      BY <2>2 DEF PipeInv, ClosingOK, InCaps, InWorkers, InSaver, InHand, Busy
    <3> QED
      BY <3>1, <3>2, <3>3, <3>4 DEF PipeInv, Settled
  <2> QED
    BY <2>1, <2>2 DEF CloseSettles, Elements
<1> QED
  BY <1>1, PipeInvariant, PTL

-----------------------------------------------------------------------------
(* Delivery.  No transfer is verified twice, and a transfer is in one place *)
(* at a time, so the saver reports it once.                                 *)

\* A transfer begun at serial b of region x was verified, if it ever was: the
\* session is past it, or completed with it and not restarted since.
Past(x, b) == b < x.base \/ (b = x.base /\ x.done /\ b < x.serial)
InOrder == \A r \in Region, b \in Nat : <<r, b>> \in verified => Past(reg[r], b)

\* Who carries transfers to the saver, and what.
Hand == ({"capture"} \X Scan) \union ({"worker"} \X Worker)
Held == [h \in Hand |-> IF h[1] = "capture" THEN InHand(cap[h[2]]) ELSE InHand(worker[h[2]])]
Out == Elements(saved) \union dropped
Waiting == Elements(saveQueue)

InOnePlace ==
  /\ \A i, j \in DOMAIN saveQueue : saveQueue[i] = saveQueue[j] => i = j
  /\ Out \intersect Waiting = {} /\ Out \intersect InSaver = {} /\ Waiting \intersect InSaver = {}
  /\ \A h \in Hand : Held[h] \intersect (Out \union Waiting \union InSaver) = {}
  /\ \A g, h \in Hand : g # h => Held[g] \intersect Held[h] = {}

\* Queues are closed and contexts cancelled by Close only.
ByClose == queuesClosed \/ ctxDone \/ api \notin {"idle", "clearing"} => closing

DeliveryInv == InOrder /\ InOnePlace /\ ByClose /\ closing \in BOOLEAN /\ verified \subseteq Transfer

\* What a step does to the transfers under way.
Rests == Held' = Held /\ closing' \in {closing, TRUE} /\ UNCHANGED <<verified, saveVars, dropped>>
TakesUp(h, t) ==
  /\ ~closing /\ t \in Transfer \ verified
  /\ Held[h] = {} /\ Held' = [Held EXCEPT ![h] = {t}]
  /\ verified' = verified \union {t}
  /\ UNCHANGED <<saveVars, dropped, closing>>
Queues(h, t) ==
  /\ Held[h] = {t} /\ Held' = [Held EXCEPT ![h] = {}]
  /\ saveQueue' = Append(saveQueue, t)
  /\ UNCHANGED <<verified, saver, saved, dropped, closing>>
GivesUp(h, t) ==
  /\ closing
  /\ Held[h] = {t} /\ Held' = [Held EXCEPT ![h] = {}]
  /\ dropped' = dropped \union {t}
  /\ UNCHANGED <<verified, saveVars, closing>>
Moves ==
  \/ Rests
  \/ \E h \in Hand, t \in Carried : TakesUp(h, t) \/ Queues(h, t) \/ GivesUp(h, t)
  \/ SaverStep /\ Held' = Held /\ UNCHANGED closing

(* StopRegion forgets nothing.                                             *)
LEMMA PastStopped ==
  ASSUME NEW x, Sound(x), NEW b \in Nat, Past(x, b)
  PROVE  Past(Stopped(x), b)
<1> DEFINE y == Stopped(x)
<1>1. x.serial \in Nat /\ x.base \in Nat
  BY Fields DEF Sound
<1>2. y.done = x.done /\ x.serial <= y.serial /\ Sound(y)
  BY StopSound
<1>3. y.serial \in Nat
  BY <1>2, Fields DEF Sound
<1>4. y.base = x.base
  <2>1. x \in RegionState
    BY DEF Sound
  <2> QED
    BY <2>1 DEF Stopped, RegionState
<1> HIDE DEF y
<1>5. Past(y, b)
  BY <1>1, <1>2, <1>3, <1>4 DEF Past
<1> QED
  BY <1>5 DEF y

(* Nor does a start, whose session begins under the serial it finds.       *)
LEMMA PastStarted ==
  ASSUME NEW x, Sound(x), ~x.scanning \/ Failed(x), NEW b \in Nat, Past(x, b)
  PROVE  Past(Started(x), b)
<1> DEFINE h == IF Failed(x) THEN Stopped(x) ELSE x
<1>1. Sound(h) /\ h.done = x.done /\ Past(h, b) /\ h.phase = x.phase
  BY StopSound, PastStopped
<1>2. Started(x) = Begun(IF x.done \/ Failed(x) THEN Reset(h) ELSE h)
  BY DEF Started
<1> HIDE DEF h
<1>3. h \in RegionState /\ h.serial \in Nat /\ h.base \in Nat /\ h.base <= h.serial
  BY <1>1, Fields DEF Sound
<1>4. Reset(h) \in RegionState /\ Reset(h).serial = h.serial /\ Reset(h).base = h.serial
  BY <1>3 DEF Reset, RegionState, Phase
<1>5. ASSUME NEW y \in RegionState
      PROVE  Begun(y).base = y.base /\ Begun(y).done = y.done /\ Begun(y).serial = y.serial + 1 /\ y.serial \in Nat
  BY Fields DEF Begun, RegionState
<1>6. CASE x.done \/ Failed(x)
  <2>1. b < h.serial
    <3>1. CASE h.done
      BY <1>1, <1>3, <3>1 DEF Past
    <3>2. CASE ~h.done
      <4>1. b < h.base
        BY <1>1, <3>2 DEF Past
      <4> QED
        BY <1>3, <4>1
    <3> QED
      BY <3>1, <3>2
  <2>2. Started(x) = Begun(Reset(h)) /\ Begun(Reset(h)).base = h.serial
    BY <1>2, <1>4, <1>5, <1>6
  <2> QED
    BY <2>1, <2>2 DEF Past
<1>7. CASE ~(x.done \/ Failed(x))
  <2>1. Started(x) = Begun(h) /\ Begun(h).base = h.base /\ ~h.done
    BY <1>1, <1>2, <1>3, <1>5, <1>7
  <2> QED
    BY <1>1, <2>1 DEF Past
<1> QED
  BY <1>6, <1>7

(* completeRegionLocked, of a region that scans: it adds one transfer to   *)
(* the past, which was not in it.                                          *)
LEMMA PastCompleted ==
  ASSUME NEW x, Sound(x), x.scanning
  PROVE  LET y == Stopped([x EXCEPT !.phase = "completed", !.due = FALSE, !.done = TRUE, !.doneOnce = TRUE])
         IN  /\ ~Past(x, x.base) /\ Past(y, x.base)
             /\ \A b \in Nat : Past(x, b) => Past(y, b)
<1> DEFINE z == [x EXCEPT !.phase = "completed", !.due = FALSE, !.done = TRUE, !.doneOnce = TRUE]
           y == Stopped(z)
<1>1. x \in RegionState /\ x.base \in Nat /\ x.serial \in Nat /\ x.base < x.serial /\ ~x.done
  BY Fields DEF Sound
<1>2. /\ z \in RegionState /\ z.serial = x.serial /\ z.base = x.base /\ z.scanning = x.scanning /\ z.done = TRUE
  BY <1>1 DEF RegionState, Phase
<1> HIDE DEF z
<1>3. y = [z EXCEPT !.scanning = FALSE, !.serial = z.serial + 1]
  BY <1>2 DEF Stopped
<1>4. y.base = x.base /\ y.done = TRUE /\ y.serial = x.serial + 1
  BY <1>2, <1>3 DEF RegionState
<1> HIDE DEF y
<1>5. Past(y, x.base) /\ ~Past(x, x.base)
  BY <1>1, <1>4 DEF Past
<1>6. \A b \in Nat : Past(x, b) => Past(y, b)
  BY <1>1, <1>4 DEF Past
<1> QED
  BY <1>5, <1>6 DEF y, z

(* A goroutine's hand changes, and no other.                               *)
LEMMA CaptureHand ==
  ASSUME PipeTypeOK, NEW s \in Scan, NEW c, cap' = [cap EXCEPT ![s] = c], UNCHANGED worker
  PROVE  /\ <<"capture", s>> \in Hand /\ Held[<<"capture", s>>] = InHand(cap[s])
         /\ Held' = [Held EXCEPT ![<<"capture", s>>] = InHand(c)]
<1> DEFINE h == <<"capture", s>>
<1>1. h \in Hand /\ Held[h] = InHand(cap[s])
  BY DEF Hand, Held
<1>2. ASSUME NEW g \in Hand
      PROVE  (IF g[1] = "capture" THEN InHand(cap'[g[2]]) ELSE InHand(worker'[g[2]]))
               = IF g = h THEN InHand(c) ELSE IF g[1] = "capture" THEN InHand(cap[g[2]]) ELSE InHand(worker[g[2]])
  BY <1>2 DEF Hand, PipeTypeOK
<1>3. Held' = [g \in Hand |-> IF g[1] = "capture" THEN InHand(cap'[g[2]]) ELSE InHand(worker'[g[2]])]
  BY DEF Held, InHand, Busy
<1>4. Held' = [g \in Hand |-> IF g = h THEN InHand(c) ELSE Held[g]]
  BY <1>2, <1>3 DEF Held
<1>5. [Held EXCEPT ![h] = InHand(c)] = [g \in Hand |-> IF g = h THEN InHand(c) ELSE Held[g]]
  BY DEF Held
<1> QED
  BY <1>1, <1>4, <1>5

LEMMA WorkerHand ==
  ASSUME PipeTypeOK, NEW w \in Worker, NEW c, worker' = [worker EXCEPT ![w] = c], UNCHANGED cap
  PROVE  /\ <<"worker", w>> \in Hand /\ Held[<<"worker", w>>] = InHand(worker[w])
         /\ Held' = [Held EXCEPT ![<<"worker", w>>] = InHand(c)]
<1> DEFINE h == <<"worker", w>>
<1>1. h \in Hand /\ Held[h] = InHand(worker[w])
  BY DEF Hand, Held
<1>2. ASSUME NEW g \in Hand
      PROVE  (IF g[1] = "capture" THEN InHand(cap'[g[2]]) ELSE InHand(worker'[g[2]]))
               = IF g = h THEN InHand(c) ELSE IF g[1] = "capture" THEN InHand(cap[g[2]]) ELSE InHand(worker[g[2]])
  BY <1>2 DEF Hand, PipeTypeOK
<1>3. Held' = [g \in Hand |-> IF g[1] = "capture" THEN InHand(cap'[g[2]]) ELSE InHand(worker'[g[2]])]
  BY DEF Held, InHand, Busy
<1>4. Held' = [g \in Hand |-> IF g = h THEN InHand(c) ELSE Held[g]]
  BY <1>2, <1>3 DEF Held
<1>5. [Held EXCEPT ![h] = InHand(c)] = [g \in Hand |-> IF g = h THEN InHand(c) ELSE Held[g]]
  BY DEF Held
<1> QED
  BY <1>1, <1>4, <1>5

(* A hand that stays as it is.                                             *)
LEMMA SameHand ==
  ASSUME NEW h \in Hand
  PROVE  [Held EXCEPT ![h] = Held[h]] = Held
BY DEF Held

(* A region scans, and has a verified transfer more.                       *)
LEMMA Completes ==
  ASSUME RegionsSound, DeliveryInv, NEW r \in Region, NEW gen \in Gen, Current(r, gen), Complete(r, reg[r])
  PROVE  <<r, reg[r].base>> \in Transfer \ verified /\ <<r, reg[r].base>> \in Carried /\ InOrder'
<1> DEFINE x == reg[r]
           y == Stopped([x EXCEPT !.phase = "completed", !.due = FALSE, !.done = TRUE, !.doneOnce = TRUE])
           t == <<r, x.base>>
<1>1. Sound(x) /\ x.scanning /\ x.serial = gen
  BY DEF RegionsSound, Current
<1>2. x.base \in Nat /\ x.base < gen /\ gen \in Nat /\ gen <= MaxSerial /\ MaxSerial \in Nat
  BY <1>1, Fields, PipelineAssumption DEF Sound, Gen
<1>3. t \in Transfer /\ t \in Carried
  BY <1>2 DEF Transfer, Carried
<1>4. /\ ~Past(x, x.base) /\ Past(y, x.base)
      /\ \A b \in Nat : Past(x, b) => Past(y, b)
  BY <1>1, PastCompleted
<1>5. t \notin verified
  BY <1>2, <1>4 DEF DeliveryInv, InOrder
<1>6. reg'[r] = y /\ (\A q \in Region : q # r => reg'[q] = reg[q]) /\ verified' = verified \union {t}
  BY DEF Complete, RegionsSound
<1> HIDE DEF y
<1>7. InOrder'
  <2> SUFFICES ASSUME NEW q \in Region, NEW b \in Nat, <<q, b>> \in verified' PROVE Past(reg'[q], b)
    BY DEF InOrder, Past
  <2>1. CASE <<q, b>> \in verified
    <3>1. Past(reg[q], b)
      BY <2>1 DEF DeliveryInv, InOrder
    <3> QED
      BY <1>4, <1>6, <3>1
  <2>2. CASE <<q, b>> = t
    BY <1>4, <1>6, <2>2
  <2> QED
    BY <1>6, <2>1, <2>2
<1> QED
  BY <1>3, <1>5, <1>7

(* Regions that change without a completion.                               *)
LEMMA NothingForgotten ==
  ASSUME DeliveryInv, UNCHANGED verified, \A r \in Region, b \in Nat : Past(reg[r], b) => Past(reg'[r], b)
  PROVE  InOrder'
BY DEF DeliveryInv, InOrder, Past

LEMMA StopForgetsNothing ==
  ASSUME RegionsSound, DeliveryInv, NEW S, StopEach(S), UNCHANGED verified
  PROVE  InOrder'
<1> SUFFICES ASSUME NEW r \in Region, NEW b \in Nat, Past(reg[r], b) PROVE Past(reg'[r], b)
  BY NothingForgotten
<1>1. reg'[r] = IF r \in S THEN Stopped(reg[r]) ELSE reg[r]
  BY DEF StopEach
<1> QED
  BY <1>1, PastStopped DEF RegionsSound

LEMMA LaunchForgetsNothing ==
  ASSUME RegionsSound, DeliveryInv, NEW S, Launch(S), \A r \in S \intersect Region : ~reg[r].scanning \/ Failed(reg[r])
  PROVE  InOrder'
<1>1. UNCHANGED verified
  BY DEF Launch, history
<1> SUFFICES ASSUME NEW r \in Region, NEW b \in Nat, Past(reg[r], b) PROVE Past(reg'[r], b)
  BY <1>1, NothingForgotten
<1>2. reg'[r] = IF r \in S THEN Started(reg[r]) ELSE reg[r]
  BY DEF Launch
<1> QED
  BY <1>2, PastStarted DEF RegionsSound

(* The capture goroutines: Tick to Submit.                                 *)
LEMMA CaptureMoves ==
  ASSUME PipeInv, RegionsSound, DeliveryInv, NEW r \in Region, NEW gen \in Gen,
         Tick(r, gen) \/ Shoot(r, gen) \/ ShootFails(r, gen) \/ Submit(r, gen)
  PROVE  Moves /\ InOrder' /\ ByClose'
<1> DEFINE s == <<r, gen>>
           x == cap[s]
           h == <<"capture", s>>
<1>1. s \in Scan /\ x \in CapState /\ PipeTypeOK
  BY DEF PipeInv, PipeTypeOK, Scan
<1>2. UNCHANGED <<worker, saveVars, dropped, closing, ctxDone, queuesClosed, api>>
  BY DEF Tick, Shoot, ShootFails, Submit, uiVars, history
<1>3. ByClose'
  BY <1>2 DEF DeliveryInv, ByClose
<1>4. x.pc \in {"tick", "shoot", "submit"} /\ InHand(x) = {}
  BY DEF Tick, Shoot, ShootFails, Submit, InHand, Busy
<1>5. CASE Tick(r, gen) /\ NameOverdue(r, gen)
  <2> DEFINE t == <<r, reg[r].base>>
             c == [Off EXCEPT !.pc = "rlock", !.transfer = t]
  <2>1. Complete(r, reg[r]) /\ cap' = [cap EXCEPT ![s] = c] /\ ~closing /\ Current(r, gen)
    BY <1>5 DEF Tick, NameOverdue
  <2>2. t \in Transfer \ verified /\ t \in Carried /\ InOrder'
    BY <2>1, Completes
  <2>3. InHand(c) = {t}
    BY DEF InHand, Busy, Off
  <2>4. verified' = verified \union {t}
    BY <2>1 DEF Complete
  <2> HIDE DEF c, t, s
  <2>5. h \in Hand /\ Held[h] = InHand(cap[s]) /\ Held' = [Held EXCEPT ![h] = InHand(c)]
    BY <1>1, <1>2, <2>1, CaptureHand
  <2>6. TakesUp(h, t)
    BY <1>2, <1>4, <2>1, <2>2, <2>3, <2>4, <2>5 DEF TakesUp
  <2> QED
    BY <1>3, <2>2, <2>5, <2>6 DEF Moves
<1>6. CASE ~(Tick(r, gen) /\ NameOverdue(r, gen))
  <2>1. UNCHANGED <<reg, verified>>
    BY <1>6 DEF Tick, Shoot, ShootFails, Submit, history
  <2>2. PICK c : cap' = [cap EXCEPT ![s] = c] /\ c.pc \in {"off", "tick", "shoot", "submit"}
    <3>1. CASE Tick(r, gen)
      <4> DEFINE c == IF Current(r, gen) THEN [x EXCEPT !.pc = "shoot"] ELSE Off
      <4>1. cap' = [cap EXCEPT ![s] = c]
        BY <1>6, <3>1 DEF Tick
      <4>2. c.pc \in {"off", "shoot"}
        BY <1>1 DEF CapState, Off
      <4> QED
        BY <4>1, <4>2
    <3>2. CASE Shoot(r, gen)
      <4> DEFINE c == [x EXCEPT !.pc = "submit", !.shot = screen]
      <4>1. cap' = [cap EXCEPT ![s] = c]
        BY <1>1, <3>2 DEF Shoot
      <4>2. c.pc = "submit"
        BY <1>1 DEF CapState
      <4> QED
        BY <4>1, <4>2
    <3>3. CASE ShootFails(r, gen)
      <4> DEFINE c == [x EXCEPT !.pc = "tick"]
      <4>1. cap' = [cap EXCEPT ![s] = c]
        BY <1>1, <3>3 DEF ShootFails
      <4>2. c.pc = "tick"
        BY <1>1 DEF CapState
      <4> QED
        BY <4>1, <4>2
    <3>4. CASE Submit(r, gen)
      <4> DEFINE accepted == x.shot # x.prev /\ ~queuesClosed /\ Len(decQueue) < DecCap
                 c == [Launched EXCEPT !.prev = IF accepted THEN x.shot ELSE x.prev]
      <4>1. cap' = [cap EXCEPT ![s] = c]
        BY <3>4 DEF Submit
      <4>2. c.pc = "tick"
        BY DEF Launched, Off
      <4> QED
        BY <4>1, <4>2
    <3> QED
      BY <3>1, <3>2, <3>3, <3>4
  <2>3. InHand(c) = {}
    BY <2>2 DEF InHand, Busy
  <2> HIDE DEF s
  <2>4. h \in Hand /\ Held[h] = InHand(cap[s]) /\ Held' = [Held EXCEPT ![h] = InHand(c)]
    BY <1>1, <1>2, <2>2, CaptureHand
  <2>5. Held' = Held
    BY <1>4, <2>3, <2>4, SameHand
  <2>6. Rests
    BY <1>2, <2>1, <2>5 DEF Rests
  <2>7. InOrder'
    BY <2>1, NothingForgotten
  <2> QED
    BY <1>3, <2>6, <2>7 DEF Moves
<1> QED
  BY <1>5, <1>6

(* CaptureSave.                                                            *)
LEMMA CaptureSaveMoves ==
  ASSUME PipeInv, RegionsSound, DeliveryInv, NEW r \in Region, NEW gen \in Gen, CaptureSave(r, gen)
  PROVE  Moves /\ InOrder' /\ ByClose'
<1> DEFINE s == <<r, gen>>
           x == cap[s]
           h == <<"capture", s>>
           t == x.transfer
<1>1. s \in Scan /\ x \in CapState /\ PipeTypeOK
  BY DEF PipeInv, PipeTypeOK, Scan
<1>2. UNCHANGED <<worker, reg, verified, saver, saved, closing, ctxDone, queuesClosed, api>> /\ x.pc \in Busy
  BY DEF CaptureSave, uiVars, Busy
<1>3. ByClose' /\ InOrder'
  BY <1>2, NothingForgotten DEF DeliveryInv, ByClose
<1>4. InHand(x) = {t} /\ t \in Carried
  BY <1>1, <1>2 DEF InHand, PipeInv, HandsOK
<1>5. CASE cap' = [cap EXCEPT ![s].pc = "saving"] /\ UNCHANGED <<saveQueue, dropped>>
  <2> DEFINE c == [x EXCEPT !.pc = "saving"]
  <2>1. cap' = [cap EXCEPT ![s] = c]
    BY <1>5
  <2>2. InHand(c) = {t}
    BY <1>1 DEF CapState, InHand, Busy
  <2> HIDE DEF c, s, t
  <2>3. h \in Hand /\ Held[h] = InHand(cap[s]) /\ Held' = [Held EXCEPT ![h] = InHand(c)]
    BY <1>1, <1>2, <2>1, CaptureHand
  <2>4. Held' = Held
    BY <1>4, <2>2, <2>3, SameHand
  <2>5. Rests
    BY <1>2, <1>5, <2>4 DEF Rests, saveVars
  <2> QED
    BY <1>3, <2>5 DEF Moves
<1>6. CASE cap' = [cap EXCEPT ![s] = Off] /\ (Enqueued(t) \/ (Refused(t) /\ UNCHANGED saveQueue))
  <2>1. InHand(Off) = {}
    BY DEF InHand, Busy, Off
  <2> HIDE DEF s, t
  <2>2. h \in Hand /\ Held[h] = InHand(cap[s]) /\ Held' = [Held EXCEPT ![h] = InHand(Off)]
    BY <1>1, <1>2, <1>6, CaptureHand
  <2>3. Held[h] = {t} /\ Held' = [Held EXCEPT ![h] = {}]
    BY <1>4, <2>1, <2>2
  <2>4. Queues(h, t) \/ GivesUp(h, t)
    BY <1>2, <1>6, <2>3 DEF Queues, GivesUp, Enqueued, Refused, DeliveryInv, ByClose, saveVars
  <2> QED
    BY <1>3, <1>4, <2>2, <2>4 DEF Moves
<1> QED
  BY <1>5, <1>6 DEF CaptureSave

(* The workers: Take to Commit.                                            *)
LEMMA WorkerMoves ==
  ASSUME PipeInv, RegionsSound, DeliveryInv, NEW w \in Worker,
         Take(w) \/ WorkerExit(w) \/ NoPayload(w) \/ Commit(w)
  PROVE  Moves /\ InOrder' /\ ByClose'
<1> DEFINE x == worker[w]
           h == <<"worker", w>>
<1>1. x \in WorkerState /\ PipeTypeOK
  BY DEF PipeInv, PipeTypeOK
<1>2. UNCHANGED <<cap, saveVars, dropped, closing, ctxDone, queuesClosed, api>>
  BY DEF Take, WorkerExit, NoPayload, Commit, uiVars, history
<1>3. ByClose'
  BY <1>2 DEF DeliveryInv, ByClose
<1>4. x.pc \in {"idle", "decoded"} /\ InHand(x) = {}
  BY DEF Take, WorkerExit, NoPayload, Commit, InHand, Busy
<1>5. ASSUME NEW c, worker' = [worker EXCEPT ![w] = c], c.pc \in {"idle", "decoded", "gone"}, UNCHANGED verified, InOrder'
      PROVE  Moves /\ InOrder' /\ ByClose'
  <2>1. InHand(c) = {}
    BY <1>5 DEF InHand, Busy
  <2>2. h \in Hand /\ Held[h] = InHand(worker[w]) /\ Held' = [Held EXCEPT ![h] = InHand(c)]
    BY <1>1, <1>2, <1>5, WorkerHand
  <2>3. Held' = Held
    BY <1>4, <2>1, <2>2, SameHand
  <2>4. Rests
    BY <1>2, <1>5, <2>3 DEF Rests
  <2> QED
    BY <1>3, <1>5, <2>4 DEF Moves
<1>6. CASE Take(w) \/ WorkerExit(w) \/ NoPayload(w)
  <2>1. UNCHANGED <<reg, verified>>
    BY <1>6 DEF Take, WorkerExit, NoPayload, history
  <2>2. PICK c : worker' = [worker EXCEPT ![w] = c] /\ c.pc \in {"idle", "decoded", "gone"}
    <3>1. CASE Take(w)
      <4> DEFINE job == Head(decQueue)
                 c == IF Current(job.r, job.gen) THEN [x EXCEPT !.pc = "decoded", !.job = job] ELSE x
      <4>1. worker' = [worker EXCEPT ![w] = c]
        BY <1>1, <3>1 DEF Take
      <4> HIDE DEF job
      <4>2. c.pc \in {"idle", "decoded"}
        BY <1>1, <1>4 DEF WorkerState
      <4> QED
        BY <4>1, <4>2
    <3>2. CASE WorkerExit(w)
      <4> DEFINE c == [x EXCEPT !.pc = "gone"]
      <4>1. worker' = [worker EXCEPT ![w] = c]
        BY <1>1, <3>2 DEF WorkerExit
      <4>2. c.pc = "gone"
        BY <1>1 DEF WorkerState
      <4> QED
        BY <4>1, <4>2
    <3>3. CASE NoPayload(w)
      <4>1. worker' = [worker EXCEPT ![w] = Idle] /\ Idle.pc = "idle"
        BY <3>3 DEF NoPayload, Idle
      <4> QED
        BY <4>1
    <3> QED
      BY <1>6, <3>1, <3>2, <3>3
  <2>3. InOrder'
    BY <2>1, NothingForgotten
  <2> QED
    BY <1>5, <2>1, <2>2, <2>3
<1>7. CASE Commit(w) /\ ~CommitAllowed(x.job)
  <2>1. UNCHANGED <<reg, verified>> /\ worker' = [worker EXCEPT ![w] = Idle] /\ Idle.pc = "idle"
    BY <1>7 DEF Commit, Idle
  <2>2. InOrder'
    BY <2>1, NothingForgotten
  <2> QED
    BY <1>5, <2>1, <2>2
<1>8. CASE Commit(w) /\ CommitAllowed(x.job)
  <2> DEFINE r == x.job.r
             gen == x.job.gen
             fed == [reg[r] EXCEPT !.stale = @ \/ gen <= reg[r].base]
             t == <<r, reg[r].base>>
             c == [pc |-> "rlock", job |-> None, transfer |-> t]
  <2>1. r \in Region /\ gen \in Gen /\ Current(r, gen) /\ ~closing
    BY <1>8 DEF Commit, CommitAllowed, PipeInv, HandsOK, Job
  <2>2. Sound(reg[r]) /\ reg[r] \in RegionState /\ reg[r].serial = gen /\ reg[r].scanning
    BY <2>1 DEF Current, RegionsSound
  <2>3. fed = reg[r]
    BY <2>2, CommitSound
  <2>4. PICK phase \in AfterFrame(fed.phase) :
           IF phase = "completed" /\ ~fed.doneOnce
             THEN Complete(r, fed) /\ worker' = [worker EXCEPT ![w] = [pc |-> "rlock", job |-> None, transfer |-> <<r, fed.base>>]]
             ELSE /\ reg' = [reg EXCEPT ![r] = [fed EXCEPT !.phase = phase]]
                  /\ worker' = [worker EXCEPT ![w] = Idle]
                  /\ UNCHANGED verified
    BY <1>8 DEF Commit
  <2> HIDE DEF fed
  <2>5. CASE phase = "completed" /\ ~fed.doneOnce
    <3>1. Complete(r, reg[r]) /\ worker' = [worker EXCEPT ![w] = c]
      BY <2>3, <2>4, <2>5
    <3> HIDE DEF r, gen
    <3>2. t \in Transfer \ verified /\ t \in Carried /\ InOrder'
      BY <2>1, <3>1, Completes
    <3>3. InHand(c) = {t} /\ verified' = verified \union {t}
      BY <3>1 DEF InHand, Busy, Complete
    <3> HIDE DEF c, t
    <3>4. h \in Hand /\ Held[h] = InHand(worker[w]) /\ Held' = [Held EXCEPT ![h] = InHand(c)]
      BY <1>1, <1>2, <3>1, WorkerHand
    <3>5. TakesUp(h, t)
      BY <1>2, <1>4, <2>1, <3>2, <3>3, <3>4 DEF TakesUp
    <3> QED
      BY <1>3, <3>2, <3>4, <3>5 DEF Moves
  <2>6. CASE ~(phase = "completed" /\ ~fed.doneOnce)
    <3>1. /\ reg' = [reg EXCEPT ![r] = [reg[r] EXCEPT !.phase = phase]]
          /\ worker' = [worker EXCEPT ![w] = Idle] /\ UNCHANGED verified
      BY <2>3, <2>4, <2>6
    <3>2. Idle.pc = "idle"
      BY DEF Idle
    <3> HIDE DEF r
    <3>3. ASSUME NEW q \in Region, NEW b \in Nat, Past(reg[q], b) PROVE Past(reg'[q], b)
      <4>1. CASE q = r
        <5>1. reg'[q].base = reg[q].base /\ reg'[q].done = reg[q].done /\ reg'[q].serial = reg[q].serial
          BY <2>1, <2>2, <3>1, <4>1 DEF RegionsSound, RegionState
        <5> QED
          BY <3>3, <5>1 DEF Past
      <4>2. CASE q # r
        <5>1. reg'[q] = reg[q]
          BY <3>1, <4>2 DEF RegionsSound
        <5> QED
          BY <3>3, <5>1
      <4> QED
        BY <4>1, <4>2
    <3>4. InOrder'
      BY <3>1, <3>3, NothingForgotten
    <3> QED
      BY <1>5, <3>1, <3>2, <3>4
  <2> QED
    BY <2>5, <2>6
<1> QED
  BY <1>6, <1>7, <1>8

(* WorkerSave.                                                             *)
LEMMA WorkerSaveMoves ==
  ASSUME PipeInv, RegionsSound, DeliveryInv, NEW w \in Worker, WorkerSave(w)
  PROVE  Moves /\ InOrder' /\ ByClose'
<1> DEFINE x == worker[w]
           h == <<"worker", w>>
           t == x.transfer
<1>1. x \in WorkerState /\ PipeTypeOK
  BY DEF PipeInv, PipeTypeOK
<1>2. UNCHANGED <<cap, reg, verified, saver, saved, closing, ctxDone, queuesClosed, api>> /\ x.pc \in Busy
  BY DEF WorkerSave, uiVars, Busy
<1>3. ByClose' /\ InOrder'
  BY <1>2, NothingForgotten DEF DeliveryInv, ByClose
<1>4. InHand(x) = {t} /\ t \in Carried
  BY <1>1, <1>2 DEF InHand, PipeInv, HandsOK
<1>5. CASE worker' = [worker EXCEPT ![w].pc = "saving"] /\ UNCHANGED <<saveQueue, dropped>>
  <2> DEFINE c == [x EXCEPT !.pc = "saving"]
  <2>1. worker' = [worker EXCEPT ![w] = c]
    BY <1>5
  <2>2. InHand(c) = {t}
    BY <1>1 DEF WorkerState, InHand, Busy
  <2> HIDE DEF c, t
  <2>3. h \in Hand /\ Held[h] = InHand(worker[w]) /\ Held' = [Held EXCEPT ![h] = InHand(c)]
    BY <1>1, <1>2, <2>1, WorkerHand
  <2>4. Held' = Held
    BY <1>4, <2>2, <2>3, SameHand
  <2>5. Rests
    BY <1>2, <1>5, <2>4 DEF Rests, saveVars
  <2> QED
    BY <1>3, <2>5 DEF Moves
<1>6. CASE worker' = [worker EXCEPT ![w] = Idle] /\ (Enqueued(t) \/ (Refused(t) /\ UNCHANGED saveQueue))
  <2>1. InHand(Idle) = {}
    BY DEF InHand, Busy, Idle
  <2> HIDE DEF t
  <2>2. h \in Hand /\ Held[h] = InHand(worker[w]) /\ Held' = [Held EXCEPT ![h] = InHand(Idle)]
    BY <1>1, <1>2, <1>6, WorkerHand
  <2>3. Held[h] = {t} /\ Held' = [Held EXCEPT ![h] = {}]
    BY <1>4, <2>1, <2>2
  <2>4. Queues(h, t) \/ GivesUp(h, t)
    BY <1>2, <1>6, <2>3 DEF Queues, GivesUp, Enqueued, Refused, DeliveryInv, ByClose, saveVars
  <2> QED
    BY <1>3, <1>4, <2>2, <2>4 DEF Moves
<1> QED
  BY <1>5, <1>6 DEF WorkerSave

(* No goroutine but the saver does anything.                               *)
LEMMA HandsRest ==
  ASSUME UNCHANGED <<cap, worker>>
  PROVE  Held' = Held
BY DEF Held, InHand, Busy

(* The UI thread.                                                          *)
LEMMA UIMoves ==
  ASSUME PipeInv, RegionsSound, DeliveryInv, UIStep
  PROVE  Moves /\ InOrder' /\ ByClose'
<1>1. ASSUME UNCHANGED <<cap, worker, saveVars, history>>, closing' \in {closing, TRUE}, InOrder', ByClose'
      PROVE  Moves /\ InOrder' /\ ByClose'
  <2>1. Held' = Held
    BY <1>1, HandsRest
  <2> QED
    BY <1>1, <2>1 DEF Moves, Rests, history
<1>2. ASSUME NEW S, Launch(S), api = "idle", \A r \in S \intersect Region : ~reg[r].scanning \/ Failed(reg[r])
      PROVE  Moves /\ InOrder' /\ ByClose'
  <2>1. UNCHANGED <<uiVars, worker, saveVars, history>> /\ cap' = [s \in Scan |->
                IF s[1] \in S /\ s[2] = Started(reg[s[1]]).serial THEN Launched ELSE cap[s]]
    BY <1>2 DEF Launch
  <2>2. \A s \in Scan : InHand(cap'[s]) = InHand(cap[s])
    <3> SUFFICES ASSUME NEW s \in Scan, cap'[s] # cap[s] PROVE InHand(cap'[s]) = InHand(cap[s])
      OBVIOUS
    <3>1. s[1] \in S /\ s[1] \in Region /\ s[2] \in Gen /\ s[2] = Started(reg[s[1]]).serial /\ cap'[s] = Launched
          /\ s = <<s[1], s[2]>>
      BY <2>1 DEF Scan
    <3>2. reg[s[1]].serial < s[2] /\ reg[s[1]].serial \in Nat /\ s[2] \in Nat
      BY <1>2, <3>1, StartSound, Fields DEF RegionsSound, Gen
    <3>3. ~(s[2] <= reg[s[1]].serial)
      BY <3>2
    <3>4. cap[s].pc = "off"
      BY <3>1, <3>3 DEF PipeInv, Young
    <3> QED
      BY <3>1, <3>4 DEF InHand, Busy, Launched, Off
  <2>3. Held' = [h \in Hand |-> IF h[1] = "capture" THEN InHand(cap'[h[2]]) ELSE InHand(worker'[h[2]])]
    BY DEF Held, InHand, Busy
  <2>4. \A h \in Hand : h[1] = "capture" => h[2] \in Scan
    BY DEF Hand
  <2>5. Held' = Held
    BY <2>1, <2>2, <2>3, <2>4 DEF Held
  <2>6. InOrder'
    BY <1>2, LaunchForgetsNothing
  <2>7. ByClose' /\ UNCHANGED closing
    BY <2>1 DEF uiVars, DeliveryInv, ByClose
  <2> QED
    BY <2>1, <2>5, <2>6, <2>7 DEF Moves, Rests, history
<1>3. CASE \E r \in Region : Start(r)
  BY <1>2, <1>3 DEF Start
<1>4. CASE StartAll
  BY <1>2, <1>4 DEF StartAll
<1>5. CASE \E r \in Region : RemoveRegion(r) \/ Stop(r)
  <2>1. PICK S : StopEach(S)
    BY <1>5 DEF RemoveRegion, Stop, Halt
  <2>2. UNCHANGED <<cap, worker, saveVars, history, closing, ctxDone, queuesClosed, api>>
    BY <1>5 DEF RemoveRegion, Stop, Halt, uiVars
  <2> QED
    BY <1>1, <2>1, <2>2, StopForgetsNothing DEF DeliveryInv, ByClose, history
<1>6. CASE Clear \/ StopAll
  <2>1. StopEach(regions) /\ UNCHANGED <<cap, worker, saveVars, history, closing, ctxDone, queuesClosed>>
        /\ (api' = api \/ api' = "clearing")
    BY <1>6 DEF Clear, StopAll, Halt, uiVars
  <2> QED
    BY <1>1, <2>1, StopForgetsNothing DEF DeliveryInv, ByClose, history
<1>7. CASE CloseBegin
  <2>1. StopEach(regions) /\ UNCHANGED <<cap, worker, saveVars, history>> /\ closing' = TRUE
    BY <1>7 DEF CloseBegin
  <2> QED
    BY <1>1, <2>1, StopForgetsNothing DEF DeliveryInv, ByClose, history
<1>8. CASE (\E r \in Region : AddRegion(r)) \/ ClearPreview \/ CloseStep
  <2>1. UNCHANGED <<reg, cap, worker, saveVars, history, closing>>
        /\ (closing \/ (UNCHANGED <<ctxDone, queuesClosed>> /\ api' \in {api, "idle"}))
    BY <1>8 DEF AddRegion, ClearPreview, CloseStep, CloseCancel, CloseQueues, CloseReturn, history, DeliveryInv, ByClose
  <2>2. ByClose'
    BY <2>1 DEF DeliveryInv, ByClose
  <2>3. InOrder'
    BY <2>1, NothingForgotten DEF history
  <2> QED
    BY <1>1, <2>1, <2>2, <2>3
<1> QED
  BY <1>3, <1>4, <1>5, <1>6, <1>7, <1>8 DEF UIStep

(* Every step.                                                             *)
LEMMA StepMoves ==
  ASSUME PipeInv, RegionsSound, DeliveryInv, [Next]_vars
  PROVE  Moves /\ InOrder' /\ ByClose'
<1>1. ASSUME NEW r \in Region, NEW gen \in Gen, CaptureStep(r, gen) PROVE Moves /\ InOrder' /\ ByClose'
  BY <1>1, CaptureMoves, CaptureSaveMoves DEF CaptureStep
<1>2. ASSUME NEW w \in Worker, WorkerStep(w) PROVE Moves /\ InOrder' /\ ByClose'
  BY <1>2, WorkerMoves, WorkerSaveMoves DEF WorkerStep
<1>3. ASSUME UNCHANGED <<cap, worker, verified, dropped, closing, ctxDone, queuesClosed, api>>
      PROVE  Held' = Held /\ ByClose'
  BY <1>3, HandsRest DEF DeliveryInv, ByClose
<1>4. CASE SaverStep
  <2>1. UNCHANGED <<reg, cap, worker, verified, dropped, closing, ctxDone, queuesClosed, api>>
    BY <1>4 DEF SaverStep, SaverTake, SaverWrite, SaverExit, uiVars, history
  <2>2. InOrder'
    BY <2>1, NothingForgotten
  <2> QED
    BY <1>3, <1>4, <2>1, <2>2 DEF Moves
<1>5. CASE (\E r \in Region : NameDeadline(r)) \/ NewPicture \/ Closed \/ UNCHANGED vars
  <2>1. UNCHANGED <<cap, worker, saveVars, verified, dropped, closing, ctxDone, queuesClosed, api>>
    BY <1>5 DEF NameDeadline, NewPicture, Closed, vars, uiVars, saveVars, history
  <2>2. \A r \in Region : reg'[r].base = reg[r].base /\ reg'[r].done = reg[r].done /\ reg'[r].serial = reg[r].serial
    <3>1. CASE \E r \in Region : NameDeadline(r)
      BY <3>1 DEF NameDeadline, RegionsSound, RegionState
    <3>2. CASE NewPicture \/ Closed \/ UNCHANGED vars
      BY <3>2 DEF NewPicture, Closed, vars
    <3> QED
      BY <1>5, <3>1, <3>2
  <2>3. InOrder'
    BY <2>1, <2>2, NothingForgotten DEF Past
  <2> QED
    BY <1>3, <2>1, <2>3 DEF Moves, Rests
<1> QED
  BY <1>1, <1>2, <1>4, <1>5, UIMoves DEF Next

(* What is in a hand was verified.                                         *)
LEMMA HeldIsVerified ==
  ASSUME Settled, NEW h \in Hand
  PROVE  Held[h] \subseteq verified
<1>1. h \in {"capture"} \X Scan => Held[h] \subseteq InCaps
  BY DEF Held, InCaps
<1>2. h \in {"worker"} \X Worker => Held[h] \subseteq InWorkers
  BY DEF Held, InWorkers
<1> QED
  BY <1>1, <1>2 DEF Hand, Settled

(* A queue without repetitions stays so when it gets what it has not, and  *)
(* when it loses its first.                                                *)
Distinct(q) == \A i, j \in DOMAIN q : q[i] = q[j] => i = j

LEMMA AppendedDistinct ==
  ASSUME NEW S, NEW q \in Seq(S), NEW t \in S, Distinct(q), t \notin Elements(q)
  PROVE  Distinct(Append(q, t))
<1> DEFINE p == Append(q, t)
<1>1. /\ p \in Seq(S) /\ Len(p) = Len(q) + 1 /\ Len(q) \in Nat
      /\ \A i \in 1 .. Len(q) : p[i] = q[i]
      /\ p[Len(q) + 1] = t
  BY AppendProperties, LenProperties
<1>2. DOMAIN q = 1 .. Len(q) /\ DOMAIN p = (1 .. Len(q)) \union {Len(q) + 1}
  BY <1>1, LenProperties
<1>3. \A i \in 1 .. Len(q) : p[i] # t
  BY <1>1, <1>2 DEF Elements
<1> HIDE DEF p
<1>4. ASSUME NEW i \in DOMAIN p, NEW j \in DOMAIN p, p[i] = p[j] PROVE i = j
  <2>1. CASE i \in 1 .. Len(q) /\ j \in 1 .. Len(q)
    <3>1. q[i] = q[j]
      BY <1>1, <1>4, <2>1
    <3> QED
      BY <1>2, <2>1, <3>1 DEF Distinct
  <2>2. CASE ~(i \in 1 .. Len(q) /\ j \in 1 .. Len(q))
    BY <1>1, <1>2, <1>3, <1>4, <2>2
  <2> QED
    BY <2>1, <2>2
<1> QED
  BY <1>4 DEF Distinct, p

LEMMA RemovedDistinct ==
  ASSUME NEW S, NEW q \in Seq(S), q # << >>, Distinct(q)
  PROVE  Distinct(Tail(q)) /\ Head(q) \notin Elements(Tail(q))
<1> DEFINE p == Tail(q)
           n == Len(q)
<1>1. /\ p \in Seq(S) /\ Len(p) = n - 1 /\ n \in Nat \ {0}
      /\ \A i \in 1 .. Len(p) : p[i] = q[i + 1]
  BY HeadTailProperties, EmptySeq
<1>2. DOMAIN q = 1 .. n /\ DOMAIN p = 1 .. n - 1 /\ Head(q) = q[1]
  BY <1>1, LenProperties
<1> HIDE DEF p, n
<1>3. \A i \in 1 .. n - 1 : i + 1 \in 1 .. n /\ p[i] = q[i + 1] /\ i + 1 # 1
  BY <1>1
<1>4. 1 \in 1 .. n
  BY <1>1
<1>5. ASSUME NEW i \in 1 .. n - 1, NEW j \in 1 .. n - 1, p[i] = p[j] PROVE i = j
  <2>1. i + 1 = j + 1
    BY <1>2, <1>3, <1>5 DEF Distinct
  <2> QED
    BY <1>1, <2>1
<1>6. \A i \in 1 .. n - 1 : p[i] # q[1]
  BY <1>2, <1>3, <1>4 DEF Distinct
<1> QED
  BY <1>2, <1>5, <1>6 DEF Distinct, Elements, p

(* A transfer stays in one place.                                          *)
LEMMA StaysInOnePlace ==
  ASSUME PipeTypeOK, Settled, DeliveryInv, Moves
  PROVE  InOnePlace' /\ verified' \subseteq Transfer /\ closing' \in BOOLEAN
<1>1. saveQueue \in Seq(Carried) /\ saved \in Seq(Carried)
  BY DEF PipeTypeOK
<1>2. Out' = Elements(saved') \union dropped' /\ Waiting' = Elements(saveQueue')
      /\ InSaver' = IF saver'.pc = "write" THEN {saver'.transfer} ELSE {}
  BY DEF Out, Waiting, Elements, InSaver
<1>3. InOnePlace' <=>
        /\ Distinct(saveQueue')
        /\ Out' \intersect Waiting' = {} /\ Out' \intersect InSaver' = {} /\ Waiting' \intersect InSaver' = {}
        /\ \A h \in Hand : Held'[h] \intersect (Out' \union Waiting' \union InSaver') = {}
        /\ \A g, h \in Hand : g # h => Held'[g] \intersect Held'[h] = {}
  BY DEF InOnePlace, Distinct
<1>4. /\ Distinct(saveQueue)
      /\ Out \intersect Waiting = {} /\ Out \intersect InSaver = {} /\ Waiting \intersect InSaver = {}
      /\ \A h \in Hand : Held[h] \intersect (Out \union Waiting \union InSaver) = {}
      /\ \A g, h \in Hand : g # h => Held[g] \intersect Held[h] = {}
  BY DEF DeliveryInv, InOnePlace, Distinct
<1>5. verified' \subseteq Transfer /\ closing' \in BOOLEAN
  BY DEF Moves, Rests, TakesUp, Queues, GivesUp, DeliveryInv, SaverStep, SaverTake, SaverWrite, SaverExit, history
<1>6. CASE Rests
  <2>1. Out' = Out /\ Waiting' = Waiting /\ InSaver' = InSaver /\ Held' = Held /\ saveQueue' = saveQueue
    BY <1>2, <1>6 DEF Rests, saveVars, Out, Waiting, InSaver
  <2> QED
    BY <1>3, <1>4, <1>5, <2>1
<1>7. ASSUME NEW h \in Hand, NEW t \in Carried, TakesUp(h, t) PROVE InOnePlace'
  <2>1. Out' = Out /\ Waiting' = Waiting /\ InSaver' = InSaver /\ saveQueue' = saveQueue
    BY <1>2, <1>7 DEF TakesUp, saveVars, Out, Waiting, InSaver
  <2>2. Held'[h] = {t} /\ \A g \in Hand : g # h => Held'[g] = Held[g]
    BY <1>7 DEF TakesUp, Held
  <2>3. t \notin Out \union Waiting \union InSaver /\ \A g \in Hand : t \notin Held[g]
    BY <1>7, HeldIsVerified DEF TakesUp, Settled, Out, Waiting
  <2> QED
    BY <1>3, <1>4, <2>1, <2>2, <2>3
<1>8. ASSUME NEW h \in Hand, NEW t \in Carried, Queues(h, t) PROVE InOnePlace'
  <2>1. Out' = Out /\ InSaver' = InSaver /\ saveQueue' = Append(saveQueue, t)
    BY <1>2, <1>8 DEF Queues, Out, InSaver
  <2>2. Held'[h] = {} /\ Held[h] = {t} /\ \A g \in Hand : g # h => Held'[g] = Held[g]
    BY <1>8 DEF Queues, Held
  <2>3. t \notin Out \union Waiting \union InSaver /\ \A g \in Hand : g # h => t \notin Held[g]
    BY <1>4, <2>2
  <2>4. Waiting' = Waiting \union {t}
    BY <1>1, <1>2, <2>1, Appended DEF Waiting
  <2>5. Distinct(saveQueue')
    BY <1>1, <1>4, <2>1, <2>3, AppendedDistinct DEF Waiting
  <2>6. \A g \in Hand : Held'[g] \subseteq Held[g] /\ t \notin Held'[g]
    BY <2>2, <2>3
  <2> QED
    BY <1>3, <1>4, <2>1, <2>3, <2>4, <2>5, <2>6
<1>9. ASSUME NEW h \in Hand, NEW t \in Carried, GivesUp(h, t) PROVE InOnePlace'
  <2>1. Out' = Out \union {t} /\ InSaver' = InSaver /\ Waiting' = Waiting /\ saveQueue' = saveQueue
    BY <1>2, <1>9 DEF GivesUp, saveVars, Out, InSaver, Waiting
  <2>2. Held'[h] = {} /\ Held[h] = {t} /\ \A g \in Hand : g # h => Held'[g] = Held[g]
    BY <1>9 DEF GivesUp, Held
  <2>3. t \notin Out \union Waiting \union InSaver /\ \A g \in Hand : g # h => t \notin Held[g]
    BY <1>4, <2>2
  <2>4. \A g \in Hand : Held'[g] \subseteq Held[g] /\ t \notin Held'[g]
    BY <2>2, <2>3
  <2> QED
    BY <1>3, <1>4, <2>1, <2>3, <2>4
<1>10. CASE SaverTake /\ Held' = Held
  <2> DEFINE t == Head(saveQueue)
  <2>1. saveQueue # << >> /\ saveQueue' = Tail(saveQueue) /\ saver'.pc = "write" /\ saver'.transfer = t
        /\ UNCHANGED <<saved, dropped>> /\ saver.pc = "idle"
    BY <1>10 DEF SaverTake, history
  <2>2. Waiting = {t} \union Waiting' /\ t \notin Waiting' /\ Distinct(saveQueue')
    BY <1>1, <1>2, <1>4, <2>1, Removed, RemovedDistinct DEF Waiting
  <2>3. Out' = Out /\ InSaver' = {t} /\ InSaver = {}
    BY <1>2, <2>1 DEF Out, InSaver
  <2> HIDE DEF t
  <2> QED
    BY <1>3, <1>4, <1>5, <1>10, <2>2, <2>3
<1>11. CASE SaverWrite /\ Held' = Held
  <2> DEFINE t == saver.transfer
  <2>1. saver.pc = "write" /\ saved' = Append(saved, t) /\ saver'.pc = "idle" /\ UNCHANGED <<saveQueue, dropped>>
    BY <1>11 DEF SaverWrite, history
  <2>2. InSaver = {t} /\ InSaver' = {} /\ Waiting' = Waiting
    BY <1>2, <2>1 DEF InSaver, Waiting
  <2>3. t \in Carried
    BY <2>2 DEF Settled, DeliveryInv, Transfer, Carried
  <2>4. Out' = Out \union {t}
    BY <1>1, <1>2, <2>1, <2>3, Appended DEF Out
  <2> HIDE DEF t
  <2> QED
    BY <1>3, <1>4, <1>5, <1>11, <2>1, <2>2, <2>4
<1>12. CASE SaverExit /\ Held' = Held
  <2>1. /\ UNCHANGED <<saveQueue, saved, dropped>> /\ saver.pc = "idle" /\ saver' = [saver EXCEPT !.pc = "gone"]
    BY <1>12 DEF SaverExit, history
  <2>2. saver'.pc = "gone"
    BY <2>1 DEF PipeTypeOK
  <2>3. Out' = Out /\ Waiting' = Waiting /\ InSaver' = InSaver
    BY <1>2, <2>1, <2>2 DEF Out, Waiting, InSaver
  <2> QED
    BY <1>3, <1>4, <1>5, <1>12, <2>1, <2>3
<1> QED
  BY <1>5, <1>6, <1>7, <1>8, <1>9, <1>10, <1>11, <1>12 DEF Moves, SaverStep

(* What moves does what the promise allows.                                *)
LEMMA MovesKeepPromise ==
  ASSUME PipeTypeOK, Settled, DeliveryInv, Moves
  PROVE  [Promise!Next]_(Promise!vars)
<1>1. Promise!Range(saved) = Elements(saved)
  BY DEF Promise!Range, Elements
<1>2. Promise!Open = verified \ Out
  BY <1>1 DEF Promise!Open, Out
<1>3. CASE Rests
  <2>1. Promise!Close \/ UNCHANGED Promise!vars
    BY <1>3 DEF Rests, saveVars, Promise!Close, Promise!vars
  <2> QED
    BY <2>1 DEF Promise!Next
<1>4. ASSUME NEW h \in Hand, NEW t \in Carried, TakesUp(h, t) PROVE Promise!Next
  <2>1. Promise!Verify(t) /\ t \in Transfer
    BY <1>4 DEF TakesUp, saveVars, Promise!Verify
  <2> QED
    BY <2>1 DEF Promise!Next
<1>5. ASSUME NEW h \in Hand, NEW t \in Carried, Queues(h, t) PROVE UNCHANGED Promise!vars
  BY <1>5 DEF Queues, Promise!vars
<1>6. ASSUME NEW h \in Hand, NEW t \in Carried, GivesUp(h, t) PROVE Promise!Next
  <2>1. Held[h] = {t} /\ t \in verified /\ t \notin Out
    BY <1>6, HeldIsVerified DEF GivesUp, DeliveryInv, InOnePlace
  <2>2. Promise!Drop(t)
    BY <1>2, <1>6, <2>1 DEF GivesUp, saveVars, Promise!Drop
  <2>3. t \in Transfer
    BY <2>1 DEF DeliveryInv
  <2> QED
    BY <2>2, <2>3 DEF Promise!Next, Promise!Settle
<1>7. CASE SaverTake \/ SaverExit
  BY <1>7 DEF Moves, Rests, TakesUp, Queues, GivesUp, SaverTake, SaverExit, history, uiVars, Promise!vars
<1>8. CASE SaverWrite
  <2> DEFINE t == saver.transfer
  <2>1. InSaver = {t}
    BY <1>8 DEF SaverWrite, InSaver
  <2>2. t \in verified /\ t \notin Out /\ t \in Transfer
    BY <2>1 DEF Settled, DeliveryInv, InOnePlace
  <2>3. Promise!Report(t)
    BY <1>2, <1>8, <2>2 DEF SaverWrite, history, uiVars, Promise!Report
  <2> QED
    BY <2>2, <2>3 DEF Promise!Next, Promise!Settle
<1> QED
  BY <1>3, <1>4, <1>5, <1>6, <1>7, <1>8 DEF Moves, SaverStep

(* DeliveryInv is, with PipeInv and RegionsSound, an inductive invariant.  *)
THEOREM DeliveryInvariant == Spec => []DeliveryInv
<1>1. Init => DeliveryInv
  <2> SUFFICES ASSUME Init PROVE DeliveryInv
    OBVIOUS
  <2>1. saved = << >> /\ saveQueue = << >> /\ dropped = {} /\ verified = {} /\ saver.pc = "idle"
    BY DEF Init
  <2>2. Elements(saved) = {} /\ Elements(saveQueue) = {} /\ DOMAIN saveQueue = {}
    <3>1. << >> \in Seq(Carried)
      BY EmptySeq
    <3>2. Elements(<< >>) = {}
      BY <3>1, NoElements
    <3> QED
      BY <2>1, <3>2 DEF Elements
  <2>3. \A h \in Hand : Held[h] = {}
    BY DEF Init, Held, Hand, InHand, Busy, Off, Idle
  <2>4. InOnePlace
    BY <2>1, <2>2, <2>3 DEF InOnePlace, Out, Waiting, InSaver
  <2> QED
    BY <2>1, <2>4 DEF Init, DeliveryInv, InOrder, ByClose
<1>2. PipeInv /\ RegionsSound /\ DeliveryInv /\ [Next]_vars => DeliveryInv'
  BY StepMoves, StaysInOnePlace DEF DeliveryInv, PipeInv
<1> QED
  BY <1>1, <1>2, PipeInvariant, RegionsInvariant, PTL DEF Spec

(* The pipeline implements the safety of its promise (Delivery): no        *)
(* transfer is verified twice or reported twice, none is reported that was *)
(* not verified or was given up, and none is given up before Close.        *)
THEOREM DeliversOnce == Spec => Promise!Init /\ [][Promise!Next]_(Promise!vars)
<1>1. Init => Promise!Init
  BY DEF Init, Promise!Init
<1>2. PipeInv /\ RegionsSound /\ DeliveryInv /\ [Next]_vars => [Promise!Next]_(Promise!vars)
  BY StepMoves, MovesKeepPromise DEF PipeInv
<1> QED
  BY <1>1, <1>2, PipeInvariant, RegionsInvariant, DeliveryInvariant, PTL DEF Spec
=============================================================================
