------------------------ MODULE AndroidReceiverProofs ------------------------
(***************************************************************************)
(* Scans do not disturb each other, for any number of them: what is on its *)
(* way to a session is a batch of that session's scan, what is on its way  *)
(* to the screen has happened to the session, and only the saver of the    *)
(* current scan may touch what it shows.                                   *)
(***************************************************************************)
EXTENDS AndroidReceiver, TLAPS

SessionState == {"empty", "reading", "verified", "complete", "failed"}
Update == SessionState \union {Nil}
Batch == {[gen |-> s, session |-> s, seen |-> s] : s \in Scan}
UI == [state : {"scanning", "completed", "failed", "saving", "idle"}, data : Scan \union {Nil},
       saved : Scan \union {Nil}, waiting : BOOLEAN]

AndroidTypeOK ==
  /\ generation \in 0 .. MaxScan
  /\ receiver \in [Scan -> SessionState] /\ fed \in [Scan -> SUBSET Scan]
  /\ ui \in UI /\ queue \in Batch \union {Nil}
  /\ processor \in [at : {"idle", "process", "publish"}, batch : Batch \union {Nil}, update : Update]
  /\ ticker \in [at : {"tick", "ask", "publish", "ended"}, gen : 0 .. MaxScan \union {Nil}, update : Update]
  /\ savers \subseteq [gen : Scan, data : Scan]

\* What an update says of a session.
Reported(s, update) ==
  /\ update = "complete" => receiver[s] = "complete"
  /\ update = "failed" => receiver[s] = "failed"

\* Batches and updates on their way.
WayOK ==
  /\ processor.at # "idle" => processor.batch \in Batch
  /\ processor.at = "publish" => Reported(processor.batch.session, processor.update)
  /\ ticker.at \in {"ask", "publish"} => ticker.gen \in Scan
  /\ ticker.at = "publish" => Reported(ticker.gen, ticker.update)

FedOK == \A s \in Scan : fed[s] \subseteq {s}

\* The screen and the savers.
ScreenOK ==
  /\ generation = 0 => ui.state = "idle" /\ savers = {}
  /\ \A v \in savers : v.data = v.gen /\ v.gen <= generation /\ (v.gen = generation => ui.state = "saving")
  /\ generation # 0 =>
       /\ {ui.data, ui.saved} \subseteq {generation, Nil}
       /\ ui.state \in {"completed", "saving", "idle"} <=> ui.data = generation
       /\ ui.data = generation => receiver[generation] = "complete"
       /\ ui.state = "failed" => receiver[generation] = "failed"
       /\ ui.saved # Nil => ui.state = "idle"
       /\ ui.state = "saving" => \E v \in savers : v.gen = generation

AndroidInv == AndroidTypeOK /\ WayOK /\ FedOK /\ ScreenOK

(* The constants.                                                          *)
LEMMA Scans ==
  /\ MaxScan \in Nat /\ 1 \in Scan /\ Nil \notin Scan /\ Nil # 0 /\ Nil # "complete" /\ Nil # "failed"
  /\ Scan \subseteq 0 .. MaxScan /\ \A g \in 0 .. MaxScan : g # 0 => g \in Scan
BY ScanAssumption DEF Scan

(* The first scan begins with nothing.                                     *)
LEMMA AndroidInitInv == AndroidInit => AndroidInv
<1> SUFFICES ASSUME AndroidInit PROVE AndroidInv
  OBVIOUS
<1>1. AndroidTypeOK
  <2>1. Empty \in UI
    BY DEF Empty, UI
  <2>2. generation \in 0 .. MaxScan
    BY ScanAssumption DEF AndroidInit
  <2>3. Resting \in [at : {"idle", "process", "publish"}, batch : Batch \union {Nil}, update : Update]
    BY DEF Resting, Update
  <2>4. Ticking \in [at : {"tick", "ask", "publish", "ended"}, gen : 0 .. MaxScan \union {Nil}, update : Update]
    BY DEF Ticking, Update
  <2> QED
    BY <2>1, <2>2, <2>3, <2>4 DEF AndroidInit, AndroidTypeOK, SessionState
<1>2. WayOK /\ FedOK
  BY DEF AndroidInit, WayOK, FedOK, Resting, Ticking
<1>3. ScreenOK
  BY Scans DEF AndroidInit, ScreenOK, Empty
<1> QED
  BY <1>1, <1>2, <1>3 DEF AndroidInv

(* Steps of which the screen and the sessions see nothing.                 *)
LEMMA ScreenKept ==
  ASSUME AndroidInv, UNCHANGED <<generation, ui, savers>>,
         \A s \in Scan : receiver[s] \in {"complete", "failed"} => receiver'[s] = receiver[s]
  PROVE  ScreenOK'
BY Scans DEF AndroidInv, AndroidTypeOK, ScreenOK

(* A batch is queued for the scan it was seen in, or not at all.           *)
LEMMA Queued ==
  ASSUME AndroidInv, NEW g, Enqueue(g)
  PROVE  queue' \in Batch \union {Nil}
<1>1. Wanted(g) => g = generation /\ g \in Scan
  BY Scans DEF Wanted, AndroidInv, AndroidTypeOK, ScreenOK
<1>2. CASE Wanted(g)
  BY <1>1, <1>2 DEF Enqueue, Batch
<1>3. CASE ~Wanted(g)
  BY <1>3 DEF Enqueue, AndroidInv, AndroidTypeOK
<1> QED
  BY <1>2, <1>3

(* The camera, the scanner's tasks, and the clock.                         *)
LEMMA Seen ==
  ASSUME AndroidInv, Picture \/ Thread \/ TaskEnds \/ NameOverdue
  PROVE  AndroidInv'
<1>1. UNCHANGED <<generation, receiver, fed, ui, processor, ticker, savers>>
  BY DEF Picture, Thread, Look, ColourFrame, TaskEnds, NameOverdue
<1>2. queue' \in Batch \union {Nil}
  <2>1. queue' = queue \/ \E g : Enqueue(g)
    BY DEF Picture, Thread, Look, ColourFrame, TaskEnds, NameOverdue
  <2> QED
    BY <2>1, Queued DEF AndroidInv, AndroidTypeOK
<1>3. AndroidTypeOK'
  BY <1>1, <1>2 DEF AndroidInv, AndroidTypeOK
<1>4. WayOK' /\ FedOK'
  BY <1>1 DEF AndroidInv, WayOK, FedOK, Reported
<1>5. ScreenOK'
  BY <1>1, ScreenKept
<1> QED
  BY <1>3, <1>4, <1>5 DEF AndroidInv

(* What accept makes of a session: what has ended stays so, and an update  *)
(* tells where the session is.                                             *)
LEMMA Accepted ==
  ASSUME AndroidInv, NEW s \in Scan, NEW g, NEW frames \in BOOLEAN, NEW o \in Outcome(s, g, frames)
  PROVE  /\ o.to \in SessionState /\ o.update \in Update
         /\ o.update = "complete" => o.to = "complete"
         /\ o.update = "failed" => o.to = "failed"
         /\ receiver[s] \in {"complete", "failed"} => o.to = receiver[s]
<1>1. receiver[s] \in SessionState
  BY DEF AndroidInv, AndroidTypeOK
<1>2. CASE ~Open(s, g)
  BY <1>1, <1>2, Scans DEF Outcome, Update
<1>3. CASE Open(s, g)
  <2>1. PICK r \in Reached(s, frames) : o = [to |-> r, update |-> IF r = "empty" THEN Nil ELSE r]
    BY <1>3 DEF Outcome
  <2>2. r \in SessionState
    BY <1>1 DEF Reached, SessionState
  <2> QED
    BY <1>3, <2>1, <2>2, Scans DEF Open, Update
<1> QED
  BY <1>2, <1>3

(* A session has changed: updates and the screen stay right.               *)
LEMMA Changed ==
  ASSUME AndroidInv, NEW s \in Scan, NEW g, NEW frames \in BOOLEAN, NEW o \in Outcome(s, g, frames), Accept(s, o)
  PROVE  /\ receiver' \in [Scan -> SessionState]
         /\ \A t \in Scan : receiver[t] \in {"complete", "failed"} => receiver'[t] = receiver[t]
         /\ \A t \in Scan : \A u : Reported(t, u) => Reported(t, u)'
         /\ Reported(s, o.update)'
<1>1. receiver \in [Scan -> SessionState] /\ receiver' = [receiver EXCEPT ![s] = o.to]
  BY DEF Accept, AndroidInv, AndroidTypeOK
<1>2. /\ o.to \in SessionState /\ o.update \in Update
      /\ o.update = "complete" => o.to = "complete"
      /\ o.update = "failed" => o.to = "failed"
      /\ receiver[s] \in {"complete", "failed"} => o.to = receiver[s]
  BY Accepted
<1>3. receiver' \in [Scan -> SessionState] /\ \A t \in Scan : receiver'[t] = IF t = s THEN o.to ELSE receiver[t]
  BY <1>1, <1>2
<1>4. \A t \in Scan : receiver[t] \in {"complete", "failed"} => receiver'[t] = receiver[t]
  BY <1>2, <1>3
<1> QED
  BY <1>2, <1>3, <1>4 DEF Reported

(* LatestFrameProcessor takes a batch, gives it to its session, publishes. *)
LEMMA Taken ==
  ASSUME AndroidInv, Take
  PROVE  AndroidInv'
<1>1. /\ queue \in Batch /\ queue' = Nil /\ processor' = [at |-> "process", batch |-> queue, update |-> Nil]
      /\ UNCHANGED <<generation, receiver, fed, ui, ticker, savers>>
  BY DEF Take, AndroidInv, AndroidTypeOK
<1>2. processor' \in [at : {"idle", "process", "publish"}, batch : Batch \union {Nil}, update : Update]
  BY <1>1 DEF Update
<1>3. AndroidTypeOK'
  BY <1>1, <1>2 DEF AndroidInv, AndroidTypeOK
<1>4. WayOK' /\ FedOK'
  BY <1>1 DEF AndroidInv, WayOK, FedOK, Reported
<1>5. ScreenOK'
  BY <1>1, ScreenKept
<1> QED
  BY <1>3, <1>4, <1>5 DEF AndroidInv

(* accept, for a batch.                                                    *)
LEMMA Processed ==
  ASSUME AndroidInv, Process
  PROVE  AndroidInv'
<1> DEFINE b == processor.batch
<1>1. b \in Batch /\ processor.at = "process"
  BY DEF Process, AndroidInv, WayOK
<1>2. PICK s \in Scan : b = [gen |-> s, session |-> s, seen |-> s]
  BY <1>1 DEF Batch
<1>3. b.session = s /\ b.gen = s /\ b.seen = s
  BY <1>2
<1>4. PICK o \in Outcome(s, s, TRUE) :
         Accept(s, o) /\ processor' = [processor EXCEPT !.at = "publish", !.update = o.update]
  BY <1>3 DEF Process
<1>5. fed' = IF Open(s, s) THEN [fed EXCEPT ![s] = @ \union {s}] ELSE fed
  BY <1>3 DEF Process
<1>6. UNCHANGED <<generation, ui, queue, ticker, savers>>
  BY DEF Process
<1>7. /\ receiver' \in [Scan -> SessionState]
      /\ \A t \in Scan : receiver[t] \in {"complete", "failed"} => receiver'[t] = receiver[t]
      /\ \A t \in Scan : \A u : Reported(t, u) => Reported(t, u)'
      /\ Reported(s, o.update)' /\ o.update \in Update
  BY <1>4, Changed, Accepted
<1>8. processor' = [at |-> "publish", batch |-> b, update |-> o.update]
  BY <1>4 DEF AndroidInv, AndroidTypeOK
<1> HIDE DEF b
<1>9. FedOK' /\ fed' \in [Scan -> SUBSET Scan]
  BY <1>5 DEF AndroidInv, AndroidTypeOK, FedOK
<1>10. AndroidTypeOK'
  <2>1. processor' \in [at : {"idle", "process", "publish"}, batch : Batch \union {Nil}, update : Update]
    BY <1>1, <1>7, <1>8
  <2> QED
    BY <1>6, <1>7, <1>9, <2>1 DEF AndroidInv, AndroidTypeOK
<1>11. WayOK'
  <2>1. processor'.at = "publish" /\ processor'.batch = b /\ processor'.update = o.update
    BY <1>8
  <2>2. Reported(processor.batch.session, processor.update)'
    BY <1>3, <1>7, <2>1 DEF Reported
  <2>3. ticker.at = "publish" => Reported(ticker.gen, ticker.update)'
    BY <1>6, <1>7 DEF AndroidInv, WayOK, Reported
  <2> QED
    BY <1>1, <1>6, <2>1, <2>2, <2>3 DEF AndroidInv, WayOK, Reported
<1>12. ScreenOK'
  BY <1>6, <1>7, ScreenKept
<1> QED
  BY <1>9, <1>10, <1>11, <1>12 DEF AndroidInv

(* applyUpdate: an update for the current scan is shown, another one not.  *)
LEMMA Applied ==
  ASSUME AndroidInv, NEW s \in Scan, NEW u, Reported(s, u), Apply(u, s, s), UNCHANGED <<generation, receiver, savers>>
  PROVE  ui' \in UI /\ ScreenOK'
<1>1. CASE u = Nil \/ ~Wanted(s)
  <2>1. ui' = ui
    BY <1>1 DEF Apply
  <2> QED
    BY <2>1, ScreenKept DEF AndroidInv, AndroidTypeOK
<1>2. CASE u # Nil /\ Wanted(s)
  <2>1. generation = s /\ generation # 0 /\ ui.state = "scanning" /\ ui \in UI
    BY <1>2, Scans DEF Wanted, AndroidInv, AndroidTypeOK, Scan
  <2>2. ui.data = Nil /\ ui.saved = Nil /\ \A v \in savers : v.data = v.gen /\ v.gen <= generation /\ v.gen # generation
    BY <2>1 DEF AndroidInv, ScreenOK
  <2> DEFINE where == IF u = "complete" THEN "completed" ELSE IF u = "failed" THEN "failed" ELSE "scanning"
             data == IF u = "complete" THEN s ELSE ui.data
  <2>3. ui' = [ui EXCEPT !.state = where, !.data = data, !.waiting = (u = "verified")]
    BY <1>2 DEF Apply
  <2>4. ui' = [state |-> where, data |-> data, saved |-> ui.saved, waiting |-> (u = "verified")]
    BY <2>1, <2>3 DEF UI
  <2>5. where \in {"scanning", "completed", "failed"} /\ data \in Scan \union {Nil} /\ (u = "verified") \in BOOLEAN
    BY <2>2
  <2>6. /\ where = "completed" <=> u = "complete"
        /\ where = "failed" <=> u = "failed"
        /\ u = "complete" => data = s
        /\ u # "complete" => data = Nil
    BY <2>2
  <2> HIDE DEF where, data
  <2>7. ui' \in UI
    BY <2>2, <2>4, <2>5 DEF UI
  <2>8. ui'.state = where /\ ui'.data = data /\ ui'.saved = Nil
    BY <2>2, <2>4
  <2>9. s # Nil
    BY Scans
  <2>10. ScreenOK'
    BY <2>1, <2>2, <2>5, <2>6, <2>8, <2>9 DEF ScreenOK, Reported
  <2> QED
    BY <2>7, <2>10
<1> QED
  BY <1>1, <1>2

(* publish, for a batch.                                                   *)
LEMMA Published ==
  ASSUME AndroidInv, Publish
  PROVE  AndroidInv'
<1>1. /\ processor.at = "publish" /\ processor' = Resting
      /\ Apply(processor.update, processor.batch.gen, processor.batch.session)
      /\ UNCHANGED <<generation, receiver, fed, queue, ticker, savers>>
  BY DEF Publish
<1>2. PICK s \in Scan : processor.batch = [gen |-> s, session |-> s, seen |-> s]
  BY <1>1 DEF AndroidInv, WayOK, Batch
<1>3. processor.batch.gen = s /\ processor.batch.session = s
  BY <1>2
<1>4. Reported(s, processor.update) /\ Apply(processor.update, s, s)
  BY <1>1, <1>3 DEF AndroidInv, WayOK
<1>5. ui' \in UI /\ ScreenOK'
  BY <1>1, <1>4, Applied
<1>6. processor' \in [at : {"idle", "process", "publish"}, batch : Batch \union {Nil}, update : Update]
      /\ processor'.at = "idle"
  BY <1>1 DEF Resting, Update
<1>7. AndroidTypeOK'
  BY <1>1, <1>5, <1>6 DEF AndroidInv, AndroidTypeOK
<1>8. WayOK' /\ FedOK'
  BY <1>1, <1>6 DEF AndroidInv, WayOK, FedOK, Reported
<1> QED
  BY <1>5, <1>7, <1>8 DEF AndroidInv

(* The ticker.                                                             *)
LEMMA Ticked ==
  ASSUME AndroidInv, Tick \/ Ask \/ PublishTick
  PROVE  AndroidInv'
<1> DEFINE Tickers == [at : {"tick", "ask", "publish", "ended"}, gen : 0 .. MaxScan \union {Nil}, update : Update]
<1>1. UNCHANGED <<generation, fed, queue, processor, savers>> /\ ticker \in Tickers
  BY DEF Tick, Ask, PublishTick, AndroidInv, AndroidTypeOK
<1>2. CASE Tick
  <2>1. UNCHANGED <<receiver, ui>>
    BY <1>2 DEF Tick
  <2>2. ticker' \in Tickers /\ ticker'.at # "publish" /\ (ticker'.at = "ask" => ticker'.gen \in Scan)
    <3>1. CASE ui.state = "scanning" /\ ticker' = [ticker EXCEPT !.at = "ask", !.gen = generation]
      <4>1. generation \in Scan /\ generation \in 0 .. MaxScan
        BY <3>1, Scans DEF AndroidInv, AndroidTypeOK, ScreenOK
      <4>2. ticker' = [at |-> "ask", gen |-> generation, update |-> ticker.update]
        BY <1>1, <3>1
      <4> QED
        BY <1>1, <4>1, <4>2
    <3>2. CASE ticker' = [ticker EXCEPT !.at = "ended"]
      BY <1>1, <3>2
    <3> QED
      BY <1>2, <3>1, <3>2 DEF Tick
  <2>3. AndroidTypeOK'
    BY <1>1, <2>1, <2>2 DEF AndroidInv, AndroidTypeOK
  <2>4. WayOK' /\ FedOK'
    BY <1>1, <2>1, <2>2 DEF AndroidInv, WayOK, FedOK, Reported
  <2>5. ScreenOK'
    BY <1>1, <2>1, ScreenKept
  <2> QED
    BY <2>3, <2>4, <2>5 DEF AndroidInv
<1>3. CASE Ask
  <2>1. ticker.gen \in Scan /\ UNCHANGED ui
    BY <1>3 DEF Ask, AndroidInv, WayOK
  <2>2. PICK o \in Outcome(ticker.gen, ticker.gen, FALSE) :
           Accept(ticker.gen, o) /\ ticker' = [ticker EXCEPT !.at = "publish", !.update = o.update]
    BY <1>3 DEF Ask
  <2>3. /\ receiver' \in [Scan -> SessionState]
        /\ \A t \in Scan : receiver[t] \in {"complete", "failed"} => receiver'[t] = receiver[t]
        /\ \A t \in Scan : \A u : Reported(t, u) => Reported(t, u)'
        /\ Reported(ticker.gen, ticker.update)' <=> Reported(ticker.gen, ticker.update)'
        /\ o.update \in Update
    BY <2>1, <2>2, Changed, Accepted
  <2>4. (o.update = "complete" => receiver'[ticker.gen] = "complete")
        /\ (o.update = "failed" => receiver'[ticker.gen] = "failed")
    BY <2>1, <2>2, Changed DEF Reported
  <2>5. ticker' = [at |-> "publish", gen |-> ticker.gen, update |-> o.update]
    BY <1>1, <2>2
  <2>6. ticker' \in Tickers /\ ticker'.at = "publish" /\ ticker'.gen = ticker.gen /\ ticker'.update = o.update
    BY <1>1, <2>3, <2>5
  <2>7. AndroidTypeOK'
    BY <1>1, <2>1, <2>3, <2>6 DEF AndroidInv, AndroidTypeOK
  <2>8. processor.at = "publish" => Reported(processor.batch.session, processor.update)'
    <3>1. processor.at = "publish" => processor.batch.session \in Scan
      BY DEF AndroidInv, WayOK, Batch
    <3> QED
      BY <1>1, <2>3, <3>1 DEF AndroidInv, WayOK, Reported
  <2>9. WayOK' /\ FedOK'
    BY <1>1, <2>1, <2>4, <2>6, <2>8 DEF AndroidInv, WayOK, FedOK, Reported
  <2>10. ScreenOK'
    BY <1>1, <2>1, <2>3, ScreenKept
  <2> QED
    BY <2>7, <2>9, <2>10 DEF AndroidInv
<1>4. CASE PublishTick
  <2>1. ticker.gen \in Scan /\ Reported(ticker.gen, ticker.update) /\ ticker' = Ticking /\ UNCHANGED receiver
        /\ Apply(ticker.update, ticker.gen, ticker.gen)
    BY <1>4 DEF PublishTick, AndroidInv, WayOK
  <2>2. ui' \in UI /\ ScreenOK'
    BY <1>1, <2>1, Applied
  <2>3. ticker' \in Tickers /\ ticker'.at = "tick"
    BY <2>1 DEF Ticking, Update
  <2>4. AndroidTypeOK'
    BY <1>1, <2>1, <2>2, <2>3 DEF AndroidInv, AndroidTypeOK
  <2>5. WayOK' /\ FedOK'
    BY <1>1, <2>1, <2>3 DEF AndroidInv, WayOK, FedOK, Reported
  <2> QED
    BY <2>2, <2>4, <2>5 DEF AndroidInv
<1> QED
  BY <1>2, <1>3, <1>4

(* The user starts another scan.                                           *)
LEMMA Started ==
  ASSUME AndroidInv, StartScan
  PROVE  AndroidInv'
<1>1. /\ generation \in 1 .. MaxScan - 1 /\ generation' = generation + 1
      /\ ui' = Empty /\ ticker' = Ticking
      /\ UNCHANGED <<receiver, fed, queue, processor, savers>>
  BY DEF StartScan
<1>2. generation \in Nat /\ generation' \in Scan /\ generation' \in 0 .. MaxScan /\ generation' # 0
      /\ generation # 0 /\ generation' # Nil
  BY <1>1, Scans DEF Scan
<1>3. ui' \in UI /\ ui'.state = "scanning" /\ ui'.data = Nil /\ ui'.saved = Nil
  BY <1>1 DEF Empty, UI
<1>4. ticker' \in [at : {"tick", "ask", "publish", "ended"}, gen : 0 .. MaxScan \union {Nil}, update : Update]
      /\ ticker'.at = "tick"
  BY <1>1 DEF Ticking, Update
<1>5. AndroidTypeOK'
  BY <1>1, <1>2, <1>3, <1>4 DEF AndroidInv, AndroidTypeOK
<1>6. WayOK' /\ FedOK'
  BY <1>1, <1>4 DEF AndroidInv, WayOK, FedOK, Reported
<1>7. \A v \in savers : v.data = v.gen /\ v.gen <= generation' /\ v.gen # generation'
  <2>1. \A v \in savers : v.data = v.gen /\ v.gen <= generation /\ v.gen \in Nat
    BY Scans DEF AndroidInv, AndroidTypeOK, ScreenOK, Scan
  <2> QED
    BY <1>1, <1>2, <2>1
<1>8. ScreenOK'
  BY <1>1, <1>2, <1>3, <1>7 DEF ScreenOK
<1> QED
  BY <1>5, <1>6, <1>8 DEF AndroidInv

(* The user saves what has been received, and the save ends.               *)
LEMMA Saved ==
  ASSUME AndroidInv, SaveDataToFile \/ SaveEnds
  PROVE  AndroidInv'
<1>1. UNCHANGED <<generation, receiver, fed, queue, processor, ticker>> /\ ui \in UI
  BY DEF SaveDataToFile, SaveEnds, AndroidInv, AndroidTypeOK
<1>2. WayOK' /\ FedOK'
  BY <1>1 DEF AndroidInv, WayOK, FedOK, Reported
<1>3. CASE SaveDataToFile
  <2>1. /\ ui.state = "completed" /\ ui.data # Nil /\ ui' = [ui EXCEPT !.state = "saving"]
        /\ savers' = savers \union {[gen |-> generation, data |-> ui.data]}
    BY <1>3 DEF SaveDataToFile
  <2>2. generation # 0 /\ ui.data = generation /\ generation \in Scan /\ ui.saved = Nil /\ generation <= generation
    BY <2>1, Scans DEF AndroidInv, AndroidTypeOK, ScreenOK
  <2>3. ui' \in UI /\ ui'.state = "saving" /\ ui'.data = ui.data /\ ui'.saved = ui.saved
    BY <1>1, <2>1 DEF UI
  <2>4. AndroidTypeOK'
    BY <1>1, <2>1, <2>2, <2>3 DEF AndroidInv, AndroidTypeOK
  <2>5. ScreenOK'
    <3> DEFINE new == [gen |-> generation, data |-> ui.data]
    <3>1. new.gen = generation /\ new.data = generation
      BY <2>2
    <3>2. savers' = savers \union {new}
      BY <2>1
    <3> HIDE DEF new
    <3>3. \A v \in savers' : v.data = v.gen /\ v.gen <= generation
      BY <2>2, <3>1, <3>2, Scans DEF AndroidInv, ScreenOK, Scan
    <3>4. new \in savers' /\ new.gen = generation
      BY <3>1, <3>2
    <3>5. receiver[generation] = "complete"
      BY <2>2 DEF AndroidInv, ScreenOK
    <3>6. {ui'.data, ui'.saved} \subseteq {generation, Nil}
      BY <2>2, <2>3
    <3> QED
      BY <1>1, <2>2, <2>3, <3>3, <3>4, <3>5, <3>6 DEF ScreenOK
  <2> QED
    BY <1>2, <2>4, <2>5 DEF AndroidInv
<1>4. CASE SaveEnds
  <2>1. PICK v \in savers :
          /\ savers' = savers \ {v}
          /\ IF SaverOfThis(v.gen)
             THEN ui' \in {[ui EXCEPT !.state = "completed"], [ui EXCEPT !.state = "idle", !.saved = v.data]}
             ELSE UNCHANGED ui
    BY <1>4 DEF SaveEnds
  <2>2. /\ v \in [gen : Scan, data : Scan] /\ v.data = v.gen /\ generation # 0
        /\ \A x \in savers : x.gen = v.gen => x = v
    BY DEF AndroidInv, AndroidTypeOK, ScreenOK
  <2>3. CASE v.gen = generation
    <3>1. ui.state = "saving" /\ ui.data = generation /\ ui.saved = Nil /\ v.data \in Scan /\ generation # Nil
      BY <2>1, <2>2, <2>3, Scans DEF AndroidInv, ScreenOK
    <3>2. \/ ui' = [ui EXCEPT !.state = "completed"]
          \/ ui' = [ui EXCEPT !.state = "idle", !.saved = v.data]
      BY <2>1, <2>3 DEF SaverOfThis
    <3>3. /\ ui' \in UI /\ ui'.data = generation
          /\ \/ ui'.state = "completed" /\ ui'.saved = Nil
             \/ ui'.state = "idle" /\ ui'.saved = generation
      BY <1>1, <2>2, <2>3, <3>1, <3>2 DEF UI
    <3>4. \A x \in savers' : x.data = x.gen /\ x.gen <= generation /\ x.gen # generation
      BY <2>1, <2>2, <2>3 DEF AndroidInv, ScreenOK
    <3>5. AndroidTypeOK'
      BY <1>1, <2>1, <3>3 DEF AndroidInv, AndroidTypeOK
    <3>6. ScreenOK'
      BY <1>1, <2>2, <3>1, <3>3, <3>4 DEF AndroidInv, ScreenOK
    <3> QED
      BY <1>2, <3>5, <3>6 DEF AndroidInv
  <2>4. CASE v.gen # generation
    <3>1. UNCHANGED ui
      BY <2>1, <2>4 DEF SaverOfThis
    <3>2. AndroidTypeOK'
      BY <1>1, <2>1, <3>1 DEF AndroidInv, AndroidTypeOK
    <3>3. ScreenOK'
      BY <1>1, <2>1, <2>2, <2>4, <3>1 DEF AndroidInv, ScreenOK
    <3> QED
      BY <1>2, <3>2, <3>3 DEF AndroidInv
  <2> QED
    BY <2>3, <2>4
<1> QED
  BY <1>3, <1>4

(* onCleared.                                                              *)
LEMMA Cleared ==
  ASSUME AndroidInv, OnCleared
  PROVE  AndroidInv'
<1>1. /\ generation' = 0 /\ ui' = [ui EXCEPT !.state = "idle"] /\ queue' = Nil /\ processor' = Resting
      /\ savers' = {} /\ ticker' = [Ticking EXCEPT !.at = "ended"] /\ UNCHANGED <<receiver, fed>>
  BY DEF OnCleared
<1>2. ui' \in UI /\ ui'.state = "idle"
  BY <1>1 DEF AndroidInv, AndroidTypeOK, UI
<1>3. processor' \in [at : {"idle", "process", "publish"}, batch : Batch \union {Nil}, update : Update]
      /\ processor'.at = "idle"
  BY <1>1 DEF Resting, Update
<1>4. ticker' \in [at : {"tick", "ask", "publish", "ended"}, gen : 0 .. MaxScan \union {Nil}, update : Update]
      /\ ticker'.at = "ended"
  BY <1>1 DEF Ticking, Update
<1>5. AndroidTypeOK'
  BY <1>1, <1>2, <1>3, <1>4, Scans DEF AndroidInv, AndroidTypeOK
<1>6. WayOK' /\ FedOK' /\ ScreenOK'
  BY <1>1, <1>2, <1>3, <1>4 DEF AndroidInv, WayOK, FedOK, ScreenOK
<1> QED
  BY <1>5, <1>6 DEF AndroidInv

(* AndroidInv is an inductive invariant of the Android receiver.           *)
THEOREM AndroidInvariant == AndroidSpec => []AndroidInv
<1>1. AndroidInv /\ [AndroidNext]_androidVars => AndroidInv'
  <2>1. AndroidInv /\ UNCHANGED androidVars => AndroidInv'
    BY DEF androidVars, AndroidInv, AndroidTypeOK, WayOK, FedOK, ScreenOK, Reported
  <2> QED
    BY <2>1, Seen, Taken, Processed, Published, Ticked, Started, Saved, Cleared
       DEF AndroidNext, FrameProcessor, UiTicker
<1> QED
  BY <1>1, AndroidInitInv, PTL DEF AndroidSpec

(* A new scan is independent of what is left of the old ones (startScan,   *)
(* ReceiveSession.accept, saveDataToFile).                                 *)
THEOREM ScansAreApart == AndroidSpec => []ScanIsolated
<1>1. AndroidInv => ScanIsolated
  BY DEF AndroidInv, FedOK, ScreenOK, ScanIsolated
<1> QED
  BY <1>1, AndroidInvariant, PTL
=============================================================================
