--------------------------- MODULE ServerLifecycle ---------------------------
(***************************************************************************)
(* Starting and stopping the sender's server: Start, Close, the Serve and  *)
(* cleanup goroutines of each run (internal/sender), and their callers in  *)
(* the window, a goroutine of the button and the shutdown (cmd/qrt-pro).   *)
(* A Serve may also fail by itself, and port 9000 may belong to another    *)
(* program.                                                                *)
(*                                                                         *)
(* Requests, prefetching and their part in Close are FrameRequests'.       *)
(***************************************************************************)
EXTENDS Naturals, FiniteSets

CONSTANTS
  MaxRuns,      \* bound of an instance: successful Starts
  Nobody

Run == 1 .. MaxRuns
Opener == {"toggle", "exit"}      \* the goroutine of the button, and shutdown

ASSUME RunsAssumption == MaxRuns \in Nat \ {0} /\ Nobody \notin Opener \union {"9000", "other"}

VARIABLES
  listener,     \* Server.listener and srv: the run they belong to, or 0
  serve,        \* of each run: its Serve goroutine, whose return closes done
  port,         \* of each run: the port its listener holds, or Nobody
  failed,       \* runs whose Serve failed by itself (history)
  cleaner,      \* of each run: its cleanup goroutine
  foreign,      \* whether another program has port 9000
  lifecycle,    \* who holds Server.lifecycle
  at, closing,  \* where each caller of Start or Close is; the run it closes
  busy, status  \* senderBusy, and the end of the last start or stop

serverVars == <<listener, serve, port, failed, cleaner, foreign, lifecycle, at, closing, busy, status>>

ServerInit ==
  /\ listener = 0 /\ serve = [r \in Run |-> "none"] /\ port = [r \in Run |-> Nobody]
  /\ failed = {} /\ cleaner = [r \in Run |-> "none"] /\ foreign = FALSE
  /\ lifecycle = Nobody /\ at = [t \in Opener |-> "idle"] /\ closing = [t \in Opener |-> 0]
  /\ busy = FALSE /\ status = "none"

Go(t, where) == at' = [at EXCEPT ![t] = where]

-----------------------------------------------------------------------------
(* Start and Close.                                                         *)

Unlocked(t) == lifecycle' = Nobody

Lock(t) ==
  /\ lifecycle = Nobody /\ lifecycle' = t
  /\ \/ at[t] = "start9000" /\ Go(t, "listen9000")
     \/ at[t] = "start0" /\ Go(t, "listen0")
     \/ at[t] = "close" /\ Go(t, "take")
  /\ UNCHANGED <<listener, serve, port, failed, cleaner, foreign, closing, busy, status>>

Taken(p) == p = "9000" /\ (foreign \/ \E r \in Run : port[r] = "9000")

\* Start, holding the lock: nothing when there is a listener; an error when net.
\* Listen has one, and the button tries another port once; or a new run.
Listen(t) ==
  /\ at[t] \in {"listen9000", "listen0"} /\ Unlocked(t)
  /\ LET p == IF at[t] = "listen0" THEN "other" ELSE "9000"
         n == Cardinality({r \in Run : serve[r] # "none"}) + 1
     IN \/ /\ listener # 0 /\ Go(t, "started")
           /\ UNCHANGED <<listener, serve, port, cleaner>>
        \/ /\ listener = 0 /\ Go(t, IF p = "9000" THEN "start0" ELSE "error")
           /\ UNCHANGED <<listener, serve, port, cleaner>>
        \/ /\ listener = 0 /\ ~Taken(p) /\ n \in Run /\ Go(t, "started")
           /\ listener' = n /\ port' = [port EXCEPT ![n] = p]
           /\ serve' = [serve EXCEPT ![n] = "serving"]
           /\ cleaner' = [cleaner EXCEPT ![n] = "ticking"]
  /\ UNCHANGED <<failed, foreign, closing, busy, status>>

\* A bug to be caught: Close leaves the listener set.
ListenerStays == listener
ListenerGone == 0

\* Close takes the run away from the server.
TakeRun(t) ==
  /\ at[t] = "take" /\ closing' = [closing EXCEPT ![t] = listener]
  /\ IF listener = 0
     THEN Go(t, "closed") /\ Unlocked(t) /\ UNCHANGED listener
     ELSE Go(t, "shut") /\ listener' = ListenerGone /\ UNCHANGED lifecycle
  /\ UNCHANGED <<serve, port, failed, cleaner, foreign, busy, status>>

\* Shutdown, srv.Close and ln.Close, perhaps with an error.
CloseRun(t) ==
  /\ at[t] = "shut" /\ port' = [port EXCEPT ![closing[t]] = Nobody]
  /\ Go(t, "wait") \/ Go(t, "waitError")
  /\ UNCHANGED <<listener, serve, failed, cleaner, foreign, lifecycle, closing, busy, status>>

\* done is closed, or three seconds are over.
WaitDone(t) ==
  /\ at[t] \in {"wait", "waitError"} /\ Unlocked(t)
  /\ Go(t, IF at[t] = "wait" THEN "closed" ELSE "error")
  /\ UNCHANGED <<listener, serve, port, failed, cleaner, foreign, closing, busy, status>>

\* Serve returns when its listener is closed; or by itself, and closes it.
ServeReturns(r) ==
  /\ serve[r] = "serving" /\ port[r] = Nobody /\ serve' = [serve EXCEPT ![r] = "returned"]
  /\ UNCHANGED <<listener, port, failed, cleaner, foreign, lifecycle, at, closing, busy, status>>

ServeFails(r) ==
  /\ serve[r] = "serving" /\ port[r] # Nobody /\ serve' = [serve EXCEPT ![r] = "returned"]
  /\ port' = [port EXCEPT ![r] = Nobody] /\ failed' = failed \union {r}
  /\ UNCHANGED <<listener, cleaner, foreign, lifecycle, at, closing, busy, status>>

\* A bug to be caught: cleanup watches the done channel of the newest run.
NewestDone(r) == listener # 0 /\ serve[listener] = "returned"
OwnDone(r) == serve[r] = "returned"

\* cleanup ends with its run.  (Its ticks are in SenderSessions.)
CleanupEnds(r) ==
  /\ cleaner[r] = "ticking" /\ OwnDone(r) /\ cleaner' = [cleaner EXCEPT ![r] = "gone"]
  /\ UNCHANGED <<listener, serve, port, failed, foreign, lifecycle, at, closing, busy, status>>

-----------------------------------------------------------------------------
(* The button of the sender page, and the end of the window.                *)

NotBusy == ~busy

\* toggleSender.  The direction is read before the goroutine runs.
Toggle ==
  /\ at["exit"] = "idle" /\ NotBusy /\ busy' = TRUE
  /\ Go("toggle", IF listener = 0 THEN "start9000" ELSE "close")
  /\ UNCHANGED <<listener, serve, port, failed, cleaner, foreign, lifecycle, closing, status>>

\* startSender and stopSender report; a stop is not reported while Listening.
Report ==
  /\ at["toggle"] \in {"started", "closed", "error"} /\ Go("toggle", "idle") /\ busy' = FALSE
  /\ status' = IF at["toggle"] = "closed" /\ listener # 0 THEN "error" ELSE at["toggle"]
  /\ UNCHANGED <<listener, serve, port, failed, cleaner, foreign, lifecycle, closing>>

\* The message loop has ended: shutdown.
Exit ==
  /\ at["exit"] = "idle" /\ Go("exit", "close")
  /\ UNCHANGED <<listener, serve, port, failed, cleaner, foreign, lifecycle, closing, busy, status>>

ForeignProgram ==
  /\ \A r \in Run : port[r] # "9000"
  /\ foreign' = ~foreign
  /\ UNCHANGED <<listener, serve, port, failed, cleaner, lifecycle, at, closing, busy, status>>

Call(t) == Lock(t) \/ Listen(t) \/ TakeRun(t) \/ CloseRun(t) \/ WaitDone(t)
Goroutine(r) == ServeReturns(r) \/ CleanupEnds(r)
ServerNext ==
  \/ \E t \in Opener : Call(t)
  \/ \E r \in Run : Goroutine(r) \/ ServeFails(r)
  \/ Toggle \/ Report \/ Exit \/ ForeignProgram

\* Goroutines run, and calls of the system return.
ServerFairness ==
  /\ \A t \in Opener : SF_serverVars(Lock(t)) /\ WF_serverVars(Call(t))
  /\ \A r \in Run : WF_serverVars(Goroutine(r))
  /\ WF_serverVars(Report)

ServerSpec == ServerInit /\ [][ServerNext]_serverVars /\ ServerFairness

-----------------------------------------------------------------------------
\* "Never report success on a port that is still bound": one run at most has a
\* port; without a listener none has, so that a start never finds its own old port
\* taken; and the listener the window shows is a run that serves, unless its
\* Serve failed by itself.  What the button reported is so until the next click.
ServerHonest ==
  /\ \A r \in Run : port[r] # Nobody =>
       r = listener \/ \E t \in Opener : lifecycle = t /\ closing[t] = r
  /\ listener # 0 => port[listener] # Nobody \/ listener \in failed
  /\ ~busy /\ at["exit"] = "idle" =>
       (status = "closed" => listener = 0) /\ (status = "started" => listener # 0)

\* A click is answered, though a Serve fails or the window is closed meanwhile, and
\* the cleanup of every run ends with it.
ServerSettles ==
  /\ busy ~> ~busy
  /\ \A r \in Run : serve[r] = "returned" ~> cleaner[r] = "gone"
=============================================================================
