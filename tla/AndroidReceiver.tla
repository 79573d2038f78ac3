--------------------------- MODULE AndroidReceiver ---------------------------
(***************************************************************************)
(* The Android receiver: ScannerViewModel, LatestFrameProcessor and        *)
(* ReceiveSession (src/txqr-reader).  A scan is a generation.  The camera's *)
(* thread, the tasks of the bar code scanner, the frame processor, the     *)
(* ticker and savers work for the generation they began in, and go on when *)
(* the user starts another scan.                                           *)
(*                                                                         *)
(* What runs on the main thread is one step, and so is accept, which is    *)
(* synchronized: that its scan is over it may notice between two frames,   *)
(* but no one looks at the session of such a scan again.  A task does not  *)
(* say where it looks (trackBox): it is for a crop of the picture or not.  *)
(***************************************************************************)
EXTENDS Naturals, FiniteSets

CONSTANTS
  MaxScan,      \* bound of an instance: scans
  Nil

ASSUME ScanAssumption == MaxScan \in Nat \ {0} /\ Nil \notin 0 .. MaxScan /\ Nil \notin {"complete", "failed"}

Scan == 1 .. MaxScan

VARIABLES
  generation,   \* scanGeneration, or 0 when the view model is cleared
  receiver,     \* of each scan: what its ReceiveSession has come to
  fed,          \* of each scan: when the camera saw the frames it took (history)
  overdue,      \* scans whose verified content has waited for FILE_NAME_WAIT_MS
  ui,           \* scanState; scanResultData and scanResult, by the scan they are of;
                \* published.waitingForName
  colour,       \* colorMode
  camera,       \* the camera's thread: the generation it has read, or Nil
  inFlight,     \* decodeInFlight
  task,         \* the task that owns the guard, or Nil
  posted,       \* generations of the colour frames on their way to the main thread
  queue,        \* the channel of the frame processor: a batch, or Nil
  processor,    \* where its coroutine is, its batch, its update
  ticker,       \* where uiTicker is, its generation, its update
  savers        \* saves under way: generation and data

androidVars == <<generation, receiver, fed, overdue, ui, colour, camera, inFlight, task,
                 posted, queue, processor, ticker, savers>>

Empty == [state |-> "scanning", data |-> Nil, saved |-> Nil, waiting |-> FALSE]
Resting == [at |-> "idle", batch |-> Nil, update |-> Nil]
Ticking == [at |-> "tick", gen |-> Nil, update |-> Nil]

AndroidInit ==
  /\ generation = 1 /\ receiver = [s \in Scan |-> "empty"] /\ fed = [s \in Scan |-> {}]
  /\ overdue = {} /\ ui = Empty /\ colour = FALSE
  /\ camera = Nil /\ inFlight = FALSE /\ task = Nil /\ posted = {}
  /\ queue = Nil /\ processor = Resting /\ ticker = Ticking /\ savers = {}

Wanted(g) == generation = g /\ ui.state = "scanning"

-----------------------------------------------------------------------------
(* The camera's thread: onQrCodeScanned.                                    *)

Picture ==
  /\ camera = Nil /\ generation # 0 /\ camera' = generation
  /\ UNCHANGED <<generation, receiver, fed, overdue, ui, colour, inFlight, task, posted, queue, processor, ticker, savers>>

\* The picture is dropped, sampled as a colour matrix, or given to the scanner.
Look ==
  /\ camera # Nil /\ camera' = Nil
  /\ \/ (ui.state # "scanning" \/ (~colour /\ inFlight)) /\ UNCHANGED <<inFlight, task, posted>>
     \/ /\ ui.state = "scanning" /\ colour
        /\ posted' = posted \union {camera} /\ UNCHANGED <<inFlight, task>>
     \/ /\ ui.state = "scanning" /\ ~colour /\ ~inFlight /\ UNCHANGED posted
        /\ \/ inFlight' = TRUE /\ \E crop \in BOOLEAN : task' = [gen |-> camera, crop |-> crop]
           \/ UNCHANGED <<task, inFlight>>          \* no scanner, no bitmap, or no task
  /\ UNCHANGED <<generation, receiver, fed, overdue, ui, colour, queue, processor, ticker, savers>>

-----------------------------------------------------------------------------
(* The main thread: hits of the scanner, frames of the camera.              *)

\* enqueueFrames: the newest batch takes the place of the one that waits.
Enqueue(g) ==
  queue' = IF Wanted(g) THEN [gen |-> g, session |-> generation, seen |-> g] ELSE queue

\* A bug to be caught: a crop whose scan is over keeps the guard.
KeepsGuard == TRUE
Freed == FALSE

\* The listener of a task.  A crop without hits is followed by a task for the whole
\* picture, which the scanner may refuse.
TaskEnds ==
  /\ task # Nil
  /\ \/ Enqueue(task.gen) /\ inFlight' = FALSE /\ task' = Nil
     \/ ~task.crop /\ inFlight' = FALSE /\ task' = Nil /\ UNCHANGED queue
     \/ task.crop /\ ~Wanted(task.gen) /\ inFlight' = Freed /\ task' = Nil /\ UNCHANGED queue
     \/ /\ task.crop /\ Wanted(task.gen) /\ UNCHANGED queue
        /\ \/ task' = [task EXCEPT !.crop = FALSE] /\ UNCHANGED inFlight
           \/ task' = Nil /\ inFlight' = FALSE
  /\ UNCHANGED <<generation, receiver, fed, overdue, ui, colour, camera, posted, processor, ticker, savers>>

\* A frame that was sampled, or a note that there was none.
ColourFrame ==
  /\ \E g \in posted : posted' = posted \ {g} /\ (Enqueue(g) \/ UNCHANGED queue)
  /\ UNCHANGED <<generation, receiver, fed, overdue, ui, colour, camera, inFlight, task, processor, ticker, savers>>

-----------------------------------------------------------------------------
(* ReceiveSession.accept, and applyUpdate of what it returns.               *)

\* Where a session of a scan that goes on gets to.
Reached(s, frames) ==
  IF receiver[s] = "verified"
  THEN {IF s \in overdue THEN "complete" ELSE "verified"} \union (IF frames THEN {"complete"} ELSE {})
  ELSE {receiver[s]} \union (IF frames THEN {"reading", "verified", "complete", "failed"} ELSE {})

Open(s, g) == receiver[s] \notin {"complete", "failed"} /\ generation = g

\* What accept for generation g may do to session s, and the update it returns.
Outcome(s, g, frames) ==
  IF ~Open(s, g) THEN {[to |-> receiver[s], update |-> Nil]}
  ELSE {[to |-> r, update |-> IF r = "empty" THEN Nil ELSE r] : r \in Reached(s, frames)}

Accept(s, o) ==
  /\ receiver' = [receiver EXCEPT ![s] = o.to]
  /\ overdue' = IF o.to = "verified" THEN overdue ELSE overdue \ {s}

Apply(update, g, s) ==
  ui' = IF update = Nil \/ ~Wanted(g) THEN ui
        ELSE [ui EXCEPT !.state = IF update = "complete" THEN "completed"
                                  ELSE IF update = "failed" THEN "failed" ELSE "scanning",
                        !.data = IF update = "complete" THEN s ELSE @,
                        !.waiting = update = "verified"]

\* LatestFrameProcessor.
Take ==
  /\ processor.at = "idle" /\ queue # Nil /\ queue' = Nil
  /\ processor' = [at |-> "process", batch |-> queue, update |-> Nil]
  /\ UNCHANGED <<generation, receiver, fed, overdue, ui, colour, camera, inFlight, task, posted, ticker, savers>>

Process ==
  /\ processor.at = "process"
  /\ LET b == processor.batch IN
     /\ \E o \in Outcome(b.session, b.gen, TRUE) :
          Accept(b.session, o) /\ processor' = [processor EXCEPT !.at = "publish", !.update = o.update]
     /\ fed' = IF Open(b.session, b.gen) THEN [fed EXCEPT ![b.session] = @ \union {b.seen}] ELSE fed
  /\ UNCHANGED <<generation, ui, colour, camera, inFlight, task, posted, queue, ticker, savers>>

Publish ==
  /\ processor.at = "publish" /\ processor' = Resting
  /\ Apply(processor.update, processor.batch.gen, processor.batch.session)
  /\ UNCHANGED <<generation, receiver, fed, overdue, colour, camera, inFlight, task, posted, queue, ticker, savers>>

\* startUiTicker's coroutine: it ends with the scanning, and asks the session while
\* a name is waited for.
Tick ==
  /\ ticker.at = "tick"
  /\ \/ ui.state # "scanning" /\ ticker' = [ticker EXCEPT !.at = "ended"]
     \/ ui.state = "scanning" /\ ui.waiting /\ ticker' = [ticker EXCEPT !.at = "ask", !.gen = generation]
  /\ UNCHANGED <<generation, receiver, fed, overdue, ui, colour, camera, inFlight, task, posted, queue, processor, savers>>

Ask ==
  /\ ticker.at = "ask"
  /\ \E o \in Outcome(ticker.gen, ticker.gen, FALSE) :
       Accept(ticker.gen, o) /\ ticker' = [ticker EXCEPT !.at = "publish", !.update = o.update]
  /\ UNCHANGED <<generation, fed, ui, colour, camera, inFlight, task, posted, queue, processor, savers>>

PublishTick ==
  /\ ticker.at = "publish" /\ ticker' = Ticking
  /\ Apply(ticker.update, ticker.gen, ticker.gen)
  /\ UNCHANGED <<generation, receiver, fed, overdue, colour, camera, inFlight, task, posted, queue, processor, savers>>

NameOverdue ==
  /\ \E s \in Scan \ overdue : receiver[s] = "verified" /\ generation = s /\ overdue' = overdue \union {s}
  /\ UNCHANGED <<generation, receiver, fed, ui, colour, camera, inFlight, task, posted, queue, processor, ticker, savers>>

-----------------------------------------------------------------------------
(* The user.                                                                *)

\* startScan, which setColorMode calls too: sessions and ticker are new ones.
StartScan ==
  /\ generation \in 1 .. MaxScan - 1 /\ generation' = generation + 1
  /\ colour' \in BOOLEAN /\ ui' = Empty /\ ticker' = Ticking
  /\ UNCHANGED <<receiver, fed, overdue, camera, inFlight, task, posted, queue, processor, savers>>

\* saveDataToFile.  The button is there when the scan is completed.
SaveDataToFile ==
  /\ ui.state = "completed" /\ ui.data # Nil /\ ui' = [ui EXCEPT !.state = "saving"]
  /\ savers' = savers \union {[gen |-> generation, data |-> ui.data]}
  /\ UNCHANGED <<generation, receiver, fed, overdue, colour, camera, inFlight, task, posted, queue, processor, ticker>>

\* A bug to be caught: a save that is over is taken for one of the current scan.
SaverOfAny(g) == generation # 0
SaverOfThis(g) == generation = g

\* FileSaver.saveData has saved the file or failed.
SaveEnds ==
  /\ \E v \in savers :
       /\ savers' = savers \ {v}
       /\ IF SaverOfThis(v.gen)
          THEN ui' \in {[ui EXCEPT !.state = "completed"], [ui EXCEPT !.state = "idle", !.saved = v.data]}
          ELSE UNCHANGED ui
  /\ UNCHANGED <<generation, receiver, fed, overdue, colour, camera, inFlight, task, posted, queue, processor, ticker>>

\* onCleared cancels the coroutines; tasks and the camera may still come back.
OnCleared ==
  /\ generation # 0 /\ generation' = 0 /\ ui' = [ui EXCEPT !.state = "idle"]
  /\ queue' = Nil /\ processor' = Resting /\ savers' = {} /\ posted' = {}
  /\ ticker' = [Ticking EXCEPT !.at = "ended"]
  /\ UNCHANGED <<receiver, fed, overdue, colour, camera, inFlight, task>>

Thread == Look \/ ColourFrame
FrameProcessor == Take \/ Process \/ Publish
UiTicker == Tick \/ Ask \/ PublishTick
AndroidNext ==
  \/ Picture \/ Thread \/ TaskEnds \/ FrameProcessor \/ UiTicker \/ NameOverdue
  \/ StartScan \/ SaveDataToFile \/ SaveEnds \/ OnCleared

\* Tasks end, coroutines run and time passes; nobody need do anything else.
AndroidFairness ==
  /\ WF_androidVars(TaskEnds) /\ WF_androidVars(FrameProcessor) /\ WF_androidVars(UiTicker)
  /\ WF_androidVars(NameOverdue) /\ WF_androidVars(SaveEnds)

AndroidSpec == AndroidInit /\ [][AndroidNext]_androidVars /\ AndroidFairness

-----------------------------------------------------------------------------
\* A new scan is independent of what the old ones still do: a session takes frames
\* the camera saw in its own scan only; the data shown, what was saved of it and
\* the state of the screen are of the current scan, also when a save, a task or an
\* accept of an earlier scan ends now.
ScanIsolated ==
  /\ \A s \in Scan : fed[s] \subseteq {s}
  /\ generation # 0 =>
       /\ {ui.data, ui.saved} \subseteq {generation, Nil}
       /\ ui.state \in {"completed", "saving", "idle"} <=> ui.data = generation
       /\ ui.data = generation => receiver[generation] = "complete"
       /\ ui.state = "failed" => receiver[generation] = "failed"
       /\ ui.saved # Nil => ui.state = "idle"
       /\ ui.state = "saving" => \E v \in savers : v.gen = generation

\* Verified content is shown, without another frame and though its name never comes,
\* or its scan is over; a failure is shown, a save ends, and the guard of the
\* camera comes back, whatever the scanner makes of its pictures.
ScanSettles ==
  /\ \A s \in Scan :
       receiver[s] \in {"verified", "complete", "failed"} ~> ui.state # "scanning" \/ generation # s
  /\ ui.state = "saving" ~> ui.state # "saving"
  /\ inFlight ~> ~inFlight
=============================================================================
