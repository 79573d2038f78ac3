---------------------------- MODULE ScanPipeline ----------------------------
(***************************************************************************)
(* The desktop receiver's pipeline (internal/scanner/scanner.go): regions  *)
(* that are started, stopped, removed and restarted by the UI thread, one  *)
(* capture goroutine per started scan, a pool of decode workers behind a   *)
(* bounded queue, one saver behind another, and Close.                     *)
(*                                                                         *)
(* A critical section of Manager.mu is one step; everything the code does  *)
(* between two sections, holding stale copies of what it read, lies        *)
(* between two steps.  The session inside a region is the interface        *)
(* SessionPhases; pixels are a picture that stays or changes.              *)
(***************************************************************************)
EXTENDS Naturals, Sequences, FiniteSets, SessionPhases

CONSTANTS
  Region,                    \* ids AddRegion can give out
  Worker,                    \* decode workers
  Picture,                   \* what the screen can show inside a region
  DecCap,                    \* capacity of decQueue
  SaveCap,                   \* capacity of saveQueue
  None,                      \* stands for no picture, job, region or transfer
  MaxSerial                  \* bound: scans started and stopped per region

ASSUME PipelineAssumption ==
  /\ DecCap \in Nat \ {0}
  /\ SaveCap \in Nat \ {0}
  /\ MaxSerial \in Nat \ {0}
  /\ Worker # {}

Gen == 1 .. MaxSerial
Scan == Region \X Gen        \* a capture goroutine: runCapture(r, gen)
Transfer == Region \X (0 .. MaxSerial)

VARIABLES
  regions,                   \* Manager.regions
  reg,                       \* the region structs, kept alive by goroutines
  cap,                       \* one capture goroutine per started scan
  screen,                    \* the picture the screen shows
  decQueue, worker,          \* jobs waiting, and what each worker does
  saveQueue, saver, saved,   \* transfers waiting, the saver, m.saved
  api,                       \* where the UI thread is in Clear or Close
  closing, ctxDone, queuesClosed,
  verified, dropped          \* history: transfers completed, and given up

uiVars    == <<regions, api, closing, ctxDone, queuesClosed>>
saveVars  == <<saveQueue, saver, saved>>
history   == <<verified, dropped>>
vars == <<uiVars, reg, cap, screen, decQueue, worker, saveVars, history>>

-----------------------------------------------------------------------------
(* The region struct, with its session reduced to a phase and to whether a *)
(* name wait is over.  Two fields are history: base is the serial at the   *)
(* last reset, which names the transfer the session is receiving, and      *)
(* stale records that a frame of an earlier transfer reached it.           *)

NewRegion ==
  [serial |-> 0, scanning |-> FALSE, done |-> FALSE, doneOnce |-> FALSE,
   phase |-> "receiving", due |-> FALSE, base |-> 0, stale |-> FALSE]

Failed(x) == x.phase = "failed"

Stopped(x) ==
  IF x.scanning THEN [x EXCEPT !.scanning = FALSE, !.serial = @ + 1] ELSE x

\* A bug to be caught: the session keeps what it received.
ResetKeepsSession(x) ==
  [x EXCEPT !.done = FALSE, !.doneOnce = FALSE, !.base = x.serial]

Reset(x) ==
  [x EXCEPT !.done = FALSE, !.doneOnce = FALSE, !.base = x.serial,
            !.phase = "receiving", !.due = FALSE]

Begun(x) == [x EXCEPT !.serial = @ + 1, !.scanning = TRUE]

\* A region starts in its own scan; a failed session is stopped first, and a
\* failed or completed one starts over.
Started(x) ==
  LET halted == IF Failed(x) THEN Stopped(x) ELSE x
  IN  Begun(IF x.done \/ Failed(x) THEN Reset(halted) ELSE halted)

\* The scan gen of region r is the one now running.
Current(r, gen) == reg[r].serial = gen /\ reg[r].scanning

-----------------------------------------------------------------------------
(* Capture goroutines.                                                     *)

Off == [pc |-> "off", shot |-> None, prev |-> None, transfer |-> None]
Launched == [Off EXCEPT !.pc = "tick"]

Idle == [pc |-> "idle", job |-> None, transfer |-> None]

Init ==
  /\ regions = {}
  /\ reg = [r \in Region |-> NewRegion]
  /\ cap = [s \in Scan |-> Off]
  /\ screen \in Picture
  /\ decQueue = << >>
  /\ worker = [w \in Worker |-> Idle]
  /\ saveQueue = << >>
  /\ saver = [pc |-> "idle", transfer |-> None]
  /\ saved = << >>
  /\ api = "idle"
  /\ closing = FALSE /\ ctxDone = FALSE /\ queuesClosed = FALSE
  /\ verified = {} /\ dropped = {}

\* RLock on qMu: Close waiting for the write lock keeps new readers out.
LockHeldThroughWait == api \notin {"locking", "waiting"}
CanRLock == api # "locking"

\* A bug to be caught: the completed region goes on scanning, and nobody
\* remembers that its completion was handed on.
CompleteWithoutStop(r, x) ==
  /\ reg' = [reg EXCEPT ![r] = [x EXCEPT !.phase = "completed", !.done = TRUE]]
  /\ verified' = verified \union {<<r, x.base>>}

\* completeRegionLocked: the session just completed and this caller won
\* doneOnce; the region stops in the same critical section.
Complete(r, x) ==
  /\ reg' = [reg EXCEPT ![r] =
               Stopped([x EXCEPT !.phase = "completed", !.due = FALSE,
                                 !.done = TRUE, !.doneOnce = TRUE])]
  /\ verified' = verified \union {<<r, x.base>>}

\* finishPendingName's conditions.
NameOverdue(r, gen) ==
  /\ Current(r, gen) /\ ~closing
  /\ reg[r].phase = "nameWait" /\ reg[r].due
  /\ ~reg[r].doneOnce

\* A bug to be caught: the deadline is only looked at when a frame arrives.
TickWithoutDeadline(r, gen) ==
  /\ cap[<<r, gen>>].pc = "tick"
  /\ cap' = [cap EXCEPT ![<<r, gen>>] =
               IF Current(r, gen) THEN [@ EXCEPT !.pc = "shoot"] ELSE Off]
  /\ UNCHANGED <<uiVars, reg, screen, decQueue, worker, saveVars, history>>

\* One turn of the loop up to the capture: an overdue name completes the
\* region, a scan that is not current any more ends.  The code tests the two
\* in separate critical sections and may leave on ctx.Done before either;
\* the outcomes are the same, for a scan that ended never becomes current.
Tick(r, gen) ==
  /\ cap[<<r, gen>>].pc = "tick"
  /\ IF NameOverdue(r, gen)
       THEN /\ Complete(r, reg[r])
            /\ cap' = [cap EXCEPT ![<<r, gen>>] =
                         [Off EXCEPT !.pc = "rlock", !.transfer = <<r, reg[r].base>>]]
       ELSE /\ cap' = [cap EXCEPT ![<<r, gen>>] =
                         IF Current(r, gen) THEN [@ EXCEPT !.pc = "shoot"] ELSE Off]
            /\ UNCHANGED <<reg, verified>>
  /\ UNCHANGED <<uiVars, screen, decQueue, worker, saveVars, dropped>>

\* The screen is captured without m.mu and without another look at the
\* region.  (Its publication on the preview pane is ScanPreview's.)
Shoot(r, gen) ==
  /\ cap[<<r, gen>>].pc = "shoot"
  /\ cap' = [cap EXCEPT ![<<r, gen>>].pc = "submit", ![<<r, gen>>].shot = screen]
  /\ UNCHANGED <<uiVars, reg, screen, decQueue, worker, saveVars, history>>

ShootFails(r, gen) ==
  /\ cap[<<r, gen>>].pc = "shoot"
  /\ cap' = [cap EXCEPT ![<<r, gen>>].pc = "tick"]
  /\ UNCHANGED <<uiVars, reg, screen, decQueue, worker, saveVars, history>>

\* A bug to be caught: a refused picture counts as seen.
SubmitRemembersRefused(r, gen) ==
  LET c == cap[<<r, gen>>]
      accepted == c.shot # c.prev /\ ~queuesClosed /\ Len(decQueue) < DecCap
  IN  /\ c.pc = "submit"
      /\ CanRLock
      /\ cap' = [cap EXCEPT ![<<r, gen>>] = [Launched EXCEPT !.prev = c.shot]]
      /\ decQueue' = IF accepted
                       THEN Append(decQueue, [r |-> r, gen |-> gen, shot |-> c.shot])
                       ELSE decQueue
      /\ UNCHANGED <<uiVars, reg, screen, worker, saveVars, history>>

\* submitDecode: only a changed picture is offered, a full or closed queue
\* refuses it, and only an accepted one is remembered.
Submit(r, gen) ==
  LET c == cap[<<r, gen>>]
      accepted == c.shot # c.prev /\ ~queuesClosed /\ Len(decQueue) < DecCap
  IN  /\ c.pc = "submit"
      /\ CanRLock
      /\ cap' = [cap EXCEPT ![<<r, gen>>] =
                   [Launched EXCEPT !.prev = IF accepted THEN c.shot ELSE c.prev]]
      /\ decQueue' = IF accepted
                       THEN Append(decQueue, [r |-> r, gen |-> gen, shot |-> c.shot])
                       ELSE decQueue
      /\ UNCHANGED <<uiVars, reg, screen, worker, saveVars, history>>

-----------------------------------------------------------------------------
(* submitSave, shared by both goroutines that can complete a region: under *)
(* the read lock it waits for room in saveQueue or for the shutdown.       *)

Refused(t) ==
  /\ CanRLock /\ queuesClosed
  /\ dropped' = dropped \union {t}

Enqueued(t) ==
  \/ /\ Len(saveQueue) < SaveCap
     /\ saveQueue' = Append(saveQueue, t)
     /\ UNCHANGED dropped
  \/ /\ ctxDone
     /\ dropped' = dropped \union {t}
     /\ UNCHANGED saveQueue

CaptureSave(r, gen) ==
  LET c == cap[<<r, gen>>]
  IN  /\ \/ /\ c.pc = "rlock" /\ CanRLock /\ ~queuesClosed
            /\ cap' = [cap EXCEPT ![<<r, gen>>].pc = "saving"]
            /\ UNCHANGED <<saveQueue, dropped>>
         \/ /\ c.pc = "rlock" /\ Refused(c.transfer)
            /\ cap' = [cap EXCEPT ![<<r, gen>>] = Off]
            /\ UNCHANGED saveQueue
         \/ /\ c.pc = "saving" /\ Enqueued(c.transfer)
            /\ cap' = [cap EXCEPT ![<<r, gen>>] = Off]
      /\ UNCHANGED <<uiVars, reg, screen, decQueue, worker, saver, saved, verified>>

WorkerSave(w) ==
  LET c == worker[w]
  IN  /\ \/ /\ c.pc = "rlock" /\ CanRLock /\ ~queuesClosed
            /\ worker' = [worker EXCEPT ![w].pc = "saving"]
            /\ UNCHANGED <<saveQueue, dropped>>
         \/ /\ c.pc = "rlock" /\ Refused(c.transfer)
            /\ worker' = [worker EXCEPT ![w] = Idle]
            /\ UNCHANGED saveQueue
         \/ /\ c.pc = "saving" /\ Enqueued(c.transfer)
            /\ worker' = [worker EXCEPT ![w] = Idle]
      /\ UNCHANGED <<uiVars, reg, cap, screen, decQueue, saver, saved, verified>>

-----------------------------------------------------------------------------
(* Decode workers.                                                         *)

\* A job of a stopped or restarted scan is not decoded.  (Looking when the
\* job is taken is as good as looking later: a worker that passed the look
\* may still find no payload.)
Take(w) ==
  LET job == Head(decQueue)
  IN  /\ worker[w].pc = "idle" /\ decQueue # << >>
      /\ worker' = [worker EXCEPT ![w] =
           IF Current(job.r, job.gen) THEN [@ EXCEPT !.pc = "decoded", !.job = job] ELSE @]
      /\ decQueue' = Tail(decQueue)
      /\ UNCHANGED <<uiVars, reg, cap, screen, saveVars, history>>

WorkerExit(w) ==
  /\ worker[w].pc = "idle" /\ decQueue = << >> /\ queuesClosed
  /\ worker' = [worker EXCEPT ![w].pc = "gone"]
  /\ UNCHANGED <<uiVars, reg, cap, screen, decQueue, saveVars, history>>

\* decode found no frame of ours in the picture.
NoPayload(w) ==
  /\ worker[w].pc = "decoded"
  /\ worker' = [worker EXCEPT ![w] = Idle]
  /\ UNCHANGED <<uiVars, reg, cap, screen, decQueue, saveVars, history>>

\* A bug to be caught: the check made before decoding is trusted after it.
CommitWhenOpen(job) == ~closing
CommitAllowed(job) == Current(job.r, job.gen) /\ ~closing

\* commitPayload: the hint and the frame reach the session, and the frame
\* that completes it, if the region was not completed before, is handed on.
Commit(w) ==
  LET job == worker[w].job
      fed == [reg[job.r] EXCEPT !.stale = @ \/ job.gen <= reg[job.r].base]
  IN  /\ worker[w].pc = "decoded"
      /\ \/ /\ ~CommitAllowed(job)
            /\ worker' = [worker EXCEPT ![w] = Idle]
            /\ UNCHANGED <<reg, verified>>
         \/ /\ CommitAllowed(job)
            /\ \E phase \in AfterFrame(fed.phase) :
                 IF phase = "completed" /\ ~fed.doneOnce
                   THEN /\ Complete(job.r, fed)
                        /\ worker' = [worker EXCEPT ![w] =
                             [pc |-> "rlock", job |-> None, transfer |-> <<job.r, fed.base>>]]
                   ELSE /\ reg' = [reg EXCEPT ![job.r] = [fed EXCEPT !.phase = phase]]
                        /\ worker' = [worker EXCEPT ![w] = Idle]
                        /\ UNCHANGED verified
      /\ UNCHANGED <<uiVars, cap, screen, decQueue, saveVars, dropped>>

-----------------------------------------------------------------------------
(* The saver drains its queue even after it was closed.                    *)

SaverTake ==
  /\ saver.pc = "idle" /\ saveQueue # << >>
  /\ saver' = [pc |-> "write", transfer |-> Head(saveQueue)]
  /\ saveQueue' = Tail(saveQueue)
  /\ UNCHANGED <<uiVars, reg, cap, screen, decQueue, worker, saved, history>>

\* The outcome is reported whether or not the disk accepted it.
SaverWrite ==
  /\ saver.pc = "write"
  /\ saved' = Append(saved, saver.transfer)
  /\ saver' = [pc |-> "idle", transfer |-> None]
  /\ UNCHANGED <<uiVars, reg, cap, screen, decQueue, worker, saveQueue, history>>

\* A bug to be caught: the saver stops at once, its queue still filled.
SaverQuits ==
  /\ saver.pc = "idle" /\ queuesClosed
  /\ saver' = [saver EXCEPT !.pc = "gone"]
  /\ UNCHANGED <<uiVars, reg, cap, screen, decQueue, worker, saveQueue, saved, history>>

SaverExit ==
  /\ saver.pc = "idle" /\ saveQueue = << >> /\ queuesClosed
  /\ saver' = [saver EXCEPT !.pc = "gone"]
  /\ UNCHANGED <<uiVars, reg, cap, screen, decQueue, worker, saveQueue, saved, history>>

-----------------------------------------------------------------------------
(* The UI thread.                                                          *)

\* Ids are never given out again: a region that was ever started is not new.
AddRegion(r) ==
  /\ api = "idle" /\ ~closing
  /\ r \notin regions /\ reg[r] = NewRegion
  /\ regions' = regions \union {r}
  /\ UNCHANGED <<api, closing, ctxDone, queuesClosed, reg, cap, screen, decQueue,
                 worker, saveVars, verified, dropped>>

StopEach(stopping) ==
  reg' = [r \in Region |-> IF r \in stopping THEN Stopped(reg[r]) ELSE reg[r]]

RemoveRegion(r) ==
  /\ api = "idle" /\ r \in regions
  /\ StopEach({r})
  /\ regions' = regions \ {r}
  /\ UNCHANGED <<api, closing, ctxDone, queuesClosed, cap, screen, decQueue,
                 worker, saveVars, history>>

Clear ==
  /\ api = "idle"
  /\ StopEach(regions)
  /\ regions' = {}
  /\ api' = "clearing"
  /\ UNCHANGED <<closing, ctxDone, queuesClosed, cap, screen, decQueue, worker,
                 saveVars, history>>

ClearPreview ==
  /\ api = "clearing"
  /\ api' = "idle"
  /\ UNCHANGED <<regions, closing, ctxDone, queuesClosed, reg, cap, screen, decQueue,
                 worker, saveVars, verified, dropped>>

\* Every region in starting begins a scan; its goroutine is launched.
Launch(starting) ==
  /\ \A r \in starting : Started(reg[r]).serial \in Gen
  /\ reg' = [r \in Region |-> IF r \in starting THEN Started(reg[r]) ELSE reg[r]]
  /\ cap' = [s \in Scan |->
                IF s[1] \in starting /\ s[2] = Started(reg[s[1]]).serial
                  THEN Launched ELSE cap[s]]
  /\ UNCHANGED <<uiVars, screen, decQueue, worker, saveVars, history>>

Start(r) ==
  /\ api = "idle" /\ ~closing /\ r \in regions
  /\ ~reg[r].scanning \/ Failed(reg[r])
  /\ Launch({r})

\* Unlike Start, the toolbar leaves completed regions alone.
StartAll ==
  LET starting == {r \in regions : Failed(reg[r]) \/ ~(reg[r].scanning \/ reg[r].done)}
  IN  /\ api = "idle" /\ ~closing /\ starting # {}
      /\ Launch(starting)

Halt(stopping) ==
  /\ api = "idle"
  /\ StopEach(stopping)
  /\ UNCHANGED <<uiVars, cap, screen, decQueue, worker, saveVars, history>>

Stop(r) == r \in regions /\ Halt({r})
StopAll == Halt(regions)

CloseBegin ==
  /\ api = "idle" /\ ~closing
  /\ StopEach(regions)
  /\ closing' = TRUE
  /\ api' = "cancel"
  /\ UNCHANGED <<regions, ctxDone, queuesClosed, cap, screen, decQueue, worker,
                 saveVars, history>>

CloseCancel ==
  /\ api = "cancel"
  /\ ctxDone' = TRUE
  /\ api' = "locking"
  /\ UNCHANGED <<regions, closing, queuesClosed, reg, cap, screen, decQueue, worker,
                 saveVars, history>>

\* The goroutines inside submitSave's read lock.
Senders ==
  {s \in Scan : cap[s].pc = "saving"} \union {w \in Worker : worker[w].pc = "saving"}

CloseQueues ==
  /\ api = "locking" /\ Senders = {}
  /\ queuesClosed' = TRUE
  /\ api' = "waiting"
  /\ UNCHANGED <<regions, closing, ctxDone, reg, cap, screen, decQueue, worker,
                 saveVars, history>>

\* wg.Wait: every goroutine has returned.
CloseReturn ==
  /\ api = "waiting"
  /\ \A s \in Scan : cap[s].pc = "off"
  /\ \A w \in Worker : worker[w].pc = "gone"
  /\ saver.pc = "gone"
  /\ api' = "closed"
  /\ UNCHANGED <<regions, closing, ctxDone, queuesClosed, reg, cap, screen, decQueue,
                 worker, saveVars, history>>

-----------------------------------------------------------------------------
(* The environment: time passes a file name's deadline, the screen changes. *)

NameDeadline(r) ==
  /\ reg[r].phase = "nameWait" /\ ~reg[r].due
  /\ reg' = [reg EXCEPT ![r].due = TRUE]
  /\ UNCHANGED <<uiVars, cap, screen, decQueue, worker, saveVars, history>>

NewPicture ==
  /\ api # "closed"
  /\ screen' \in Picture \ {screen}
  /\ UNCHANGED <<uiVars, reg, cap, decQueue, worker, saveVars, history>>

CaptureStep(r, gen) ==
  \/ Tick(r, gen) \/ Shoot(r, gen) \/ ShootFails(r, gen) \/ Submit(r, gen)
  \/ CaptureSave(r, gen)

WorkerStep(w) ==
  Take(w) \/ WorkerExit(w) \/ NoPayload(w) \/ Commit(w) \/ WorkerSave(w)

SaverStep == SaverTake \/ SaverWrite \/ SaverExit

CloseStep == CloseCancel \/ CloseQueues \/ CloseReturn

UIStep ==
  \/ \E r \in Region : AddRegion(r) \/ RemoveRegion(r) \/ Start(r) \/ Stop(r)
  \/ Clear \/ ClearPreview \/ StartAll \/ StopAll \/ CloseBegin \/ CloseStep

\* The receiver was closed: nothing is left to do.
Closed == api = "closed" /\ UNCHANGED vars

Next ==
  \/ \E r \in Region, gen \in Gen : CaptureStep(r, gen)
  \/ \E w \in Worker : WorkerStep(w)
  \/ SaverStep
  \/ UIStep
  \/ \E r \in Region : NameDeadline(r)
  \/ NewPicture
  \/ Closed

Spec == Init /\ [][Next]_vars

(* Goroutines are scheduled fairly, timers fire, Clear and Close run to    *)
(* their end.  That captures succeed is assumed by PictureRetried alone.   *)
Fairness ==
  /\ \A r \in Region, gen \in Gen : WF_vars(CaptureStep(r, gen))
  /\ \A w \in Worker : WF_vars(WorkerStep(w))
  /\ WF_vars(SaverStep)
  /\ WF_vars(CloseStep)
  /\ WF_vars(ClearPreview)
  /\ \A r \in Region : WF_vars(NameDeadline(r))

FairSpec == Spec /\ Fairness

-----------------------------------------------------------------------------
(* Properties.                                                             *)

JobSet == [r : Region, gen : Gen, shot : Picture]
TransferOrNone == Transfer \union {None}

TypeOK ==
  /\ regions \subseteq Region
  /\ reg \in [Region -> [serial : 0 .. MaxSerial + 1, scanning : BOOLEAN,
                          done : BOOLEAN, doneOnce : BOOLEAN, phase : Phase,
                          due : BOOLEAN, base : 0 .. MaxSerial, stale : BOOLEAN]]
  /\ cap \in [Scan -> [pc : {"off", "tick", "shoot", "submit", "rlock", "saving"},
                        shot : Picture \union {None}, prev : Picture \union {None},
                        transfer : TransferOrNone]]
  /\ screen \in Picture
  /\ decQueue \in Seq(JobSet) /\ Len(decQueue) <= DecCap
  /\ worker \in [Worker -> [pc : {"idle", "decoded", "rlock", "saving", "gone"},
                             job : JobSet \union {None}, transfer : TransferOrNone]]
  /\ saveQueue \in Seq(Transfer) /\ Len(saveQueue) <= SaveCap
  /\ saver \in [pc : {"idle", "write", "gone"}, transfer : TransferOrNone]
  /\ saved \in Seq(Transfer)
  /\ api \in {"idle", "clearing", "cancel", "locking", "waiting", "closed"}
  /\ {closing, ctxDone, queuesClosed} \subseteq BOOLEAN
  /\ verified \subseteq Transfer /\ dropped \subseteq Transfer

(* Whatever the goroutines of earlier scans still hold, every frame and    *)
(* geometry hint in a session was captured since its last reset.           *)
NoStaleFrame == \A r \in Region : ~reg[r].stale

(* A region says "done" exactly while its session holds a verified result, *)
(* a done region scans no more, and doneOnce is taken by that completion.  *)
DoneMeansVerified ==
  \A r \in Region :
    /\ reg[r].done = (reg[r].phase = "completed")
    /\ reg[r].done = reg[r].doneOnce
    /\ reg[r].done => ~reg[r].scanning

(* No goroutine is sending into saveQueue once Close has closed it (such a *)
(* send would panic), and when Close returns every completed transfer was  *)
(* reported or given up, and nothing is left in a queue that no goroutine  *)
(* will read.                                                              *)
CloseSettles ==
  /\ queuesClosed => Senders = {}
  /\ api = "closed" =>
       /\ decQueue = << >> /\ saveQueue = << >>
       /\ verified = {saved[i] : i \in DOMAIN saved} \union dropped

(* The pipeline delivers: each verified transfer is reported exactly once, *)
(* unless Close gives it up.                                               *)
Promise == INSTANCE Delivery WITH reported <- saved
Delivers == Promise!Spec

(* Verified content waiting for its name completes although no further     *)
(* frame can be decoded: the capture loop watches the deadline.            *)
NameWaitEnds ==
  \A r \in Region :
    (reg[r].phase = "nameWait" /\ reg[r].scanning)
      ~> (reg[r].phase = "completed" \/ ~reg[r].scanning)

(* Close always returns, whoever is blocked in a queue or a lock then.     *)
CloseReturns == closing ~> (api = "closed")

(* A picture the full queue refused is offered again until it is taken,    *)
(* as long as it stays on the screen and the scan goes on, provided that   *)
(* captures that keep being tried do not fail for ever.                    *)
CapturesWork == \A r \in Region, gen \in Gen : SF_vars(Shoot(r, gen))

Taken(r, gen, p) ==
  \E i \in DOMAIN decQueue : decQueue[i] = [r |-> r, gen |-> gen, shot |-> p]

PictureRetried ==
  CapturesWork => \A r \in Region, gen \in Gen, p \in Picture :
    (Current(r, gen) /\ screen = p /\ cap[<<r, gen>>].prev # p)
      ~> (Taken(r, gen, p) \/ screen # p \/ ~Current(r, gen))
=============================================================================
