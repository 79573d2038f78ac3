---------------------------- MODULE EncodeWorker ----------------------------
(***************************************************************************)
(* One encode in a process of its own (internal/sender/worker.go).  The    *)
(* parent runs encodeIsolated: it starts the program again, limits the     *)
(* memory of the child, sends it the request and the file, and reads back  *)
(* frames and PNGs.  The child runs workerMain: it calls the encoder       *)
(* library, which nothing can interrupt, renders PNGs on several           *)
(* goroutines under one byte budget, and streams the session out.  Either  *)
(* process can die at any time; the request can be cancelled, and after    *)
(* encodeTimeout it is.                                                     *)
(*                                                                         *)
(* A part (a frame or a PNG) is its length in units; a part without bytes  *)
(* is 0.  One write is one token in a pipe.                                *)
(***************************************************************************)
EXTENDS Integers, Sequences, FiniteSets, FiniteSetsExt

CONSTANTS
  MaxFrames,        \* frames the encoder makes of a file, at most
  FrameSize,        \* length of a frame
  PNGSizes,         \* lengths of a PNG
  InitialFrames,    \* initialFrames, rendered when RenderAll is not asked for
  MaxCache,         \* largest CacheBytes of a request
  MaxPNGCacheBytes, \* maxPNGCacheBytes, for the PNGs of one session
  PipeSize,         \* writes that fit into the child's output pipe
  Renderer,         \* goroutines of renderFrameCount
  Nothing

ASSUME WorkerAssumption ==
  /\ {MaxFrames, FrameSize, InitialFrames, MaxCache, MaxPNGCacheBytes, PipeSize}
       \subseteq Nat \ {0}
  /\ PNGSizes \subseteq Nat \ {0}
  /\ Nothing \notin Nat \union {"session", "failed", "configure", "send", "child", "header", "budget", "eof"}

VARIABLES
  platform, req,    \* the operating system; the request: all, cache, fits
  parent, err,      \* where encodeIsolated is; its err
  ctx,              \* the context: "live" or "done"
  result,           \* what encodeIsolated returned
  got, left,        \* the parts read so far; the budget that is left
  child, limited,   \* where workerMain is; whether its memory is limited
  frames, budget,   \* number of frames encoded; session.renderBudget
  next, job, pngs,  \* the jobs channel; each renderer's frame; session.pngs
  bytes, exceeded,  \* renderedBytes; session.renderExceeded
  out,              \* parts written
  stdin, stdout     \* the pipes

parentVars == <<parent, err, result, got, left>>
encoding == <<frames, budget>>
rendering == <<next, job, pngs, bytes, exceeded>>
workerVars == <<platform, req, parentVars, ctx, child, limited, encoding, rendering, out, stdin, stdout>>

Requests == [all : BOOLEAN, cache : 1 .. MaxCache, fits : BOOLEAN]
Reading == {"ack", "header", "parts", "eof"}
Writing == {"writeAck", "encode", "render", "report", "header", "parts"}
Alive == child \in {"line", "body"} \union Writing
Warmup == IF req.all THEN frames ELSE Min({InitialFrames, frames})

WorkerInit ==
  /\ platform \in {"linux", "windows", "other"} /\ req \in Requests
  /\ parent = "start" /\ err = Nothing /\ ctx = "live" /\ result = Nothing
  /\ got = << >> /\ left = req.cache
  /\ child = "none" /\ limited = FALSE /\ frames = 0 /\ budget = 0
  /\ next = 1 /\ job = [r \in Renderer |-> Nothing] /\ pngs = << >>
  /\ bytes = 0 /\ exceeded = FALSE
  /\ out = 0 /\ stdin = << >> /\ stdout = << >>

-----------------------------------------------------------------------------
(* The parent.                                                              *)

Goes(pc) == parent' = pc /\ UNCHANGED <<err, result, got, left>>
Fails(e) == parent' = "kill" /\ err' = e /\ UNCHANGED <<result, got, left>>

\* cmd.Start fails by itself, or because the context is over.
StartChild ==
  /\ parent = "start"
  /\ \/ /\ ctx = "live" /\ child' = "line" /\ Goes("configure")
     \/ /\ parent' = "returned" /\ result' = "failed"
        /\ UNCHANGED <<err, got, left, child>>
  /\ UNCHANGED <<platform, req, ctx, limited, encoding, rendering, out, stdin, stdout>>

\* configureWorker: a job object on Windows, nothing on Linux, an error elsewhere.
Configure ==
  /\ parent = "configure"
  /\ \/ /\ platform = "linux" /\ Goes("send") /\ UNCHANGED limited
     \/ /\ platform = "windows" /\ Goes("send") /\ limited' = TRUE
     \/ /\ platform # "linux" /\ Fails("configure") /\ UNCHANGED limited
  /\ UNCHANGED <<platform, req, ctx, child, encoding, rendering, out, stdin, stdout>>

\* The request, then the file; nobody reads a pipe whose reader has ended.
Send ==
  /\ parent \in {"send", "body"}
  /\ \/ /\ Alive /\ stdin = << >>
        /\ stdin' = <<parent>>
        /\ Goes(IF parent = "send" THEN "body" ELSE "ack")
     \/ /\ ~Alive /\ Fails("send") /\ UNCHANGED stdin
  /\ UNCHANGED <<platform, req, ctx, child, limited, encoding, rendering, out, stdout>>

Read(token) == stdout # << >> /\ Head(stdout)[1] = token /\ stdout' = Tail(stdout)

ReadAck == parent = "ack" /\ Read("ack") /\ Goes("header")

\* A header with an error, or with a warm-up that the parent does not believe.
ReadHeader ==
  /\ parent = "header"
  /\ \/ /\ Read("error") /\ Fails("child")
     \/ /\ Read("header")
        /\ IF Head(stdout)[2] \in {Min({InitialFrames, frames}), frames}
           THEN Goes("parts") ELSE Fails("header")

\* A PNG beyond the warm-up may be missing.
MayBeEmpty(n) == n % 2 = 0 /\ n \div 2 > Warmup

\* A length is checked against the budget before its bytes are read.
ReadPart ==
  /\ parent = "parts" /\ stdout # << >> /\ stdout' = Tail(stdout)
  /\ LET n == Len(got) + 1
         length == Head(stdout)[2]
     IN IF (length = 0 /\ ~MayBeEmpty(n)) \/ length > left
        THEN Fails("budget")
        ELSE /\ got' = Append(got, length) /\ left' = left - length
             /\ parent' = IF n = 2 * frames THEN "eof" ELSE "parts"
             /\ UNCHANGED <<err, result>>

\* The output ends, as it must once the session is there, or too early.
ReadEnd ==
  /\ parent \in Reading /\ stdout = << >> /\ ~Alive
  /\ IF parent = "eof" THEN Goes("wait") ELSE Fails("eof")
  /\ UNCHANGED stdout

Receive ==
  /\ ReadAck \/ ReadHeader \/ ReadPart \/ ReadEnd
  /\ UNCHANGED <<platform, req, ctx, child, limited, encoding, rendering, out, stdin>>

Killed == child' = IF Alive THEN "failed" ELSE child

\* A failed exchange kills the child before it waits for it.
Kill ==
  /\ parent = "kill" /\ Killed /\ Goes("wait")
  /\ UNCHANGED <<platform, req, ctx, limited, encoding, rendering, out, stdin, stdout>>

\* A bug to be caught: the exit code of the child is ignored.
TakenAnyway == ctx = "live" /\ err = Nothing
Accepted == ctx = "live" /\ err = Nothing /\ child = "exited"

\* cmd.Wait, and the checks after it.
Wait ==
  /\ parent = "wait" /\ ~Alive
  /\ parent' = "returned"
  /\ result' = IF Accepted THEN "session" ELSE "failed"
  /\ UNCHANGED <<platform, req, err, got, left, ctx, child, limited, encoding, rendering, out, stdin, stdout>>

-----------------------------------------------------------------------------
(* Cancelling, time-outs and deaths.                                        *)

\* The client goes away, or encodeTimeout is over.
ContextEnds ==
  /\ ctx = "live" /\ parent \notin {"returned", "dead"} /\ ctx' = "done"
  /\ UNCHANGED <<platform, req, parentVars, child, limited, encoding, rendering, out, stdin, stdout>>

\* A bug to be caught: exec.Command in place of exec.CommandContext.
NobodyWatches == FALSE
Watched == ctx = "done" /\ parent \notin {"start", "returned", "dead"}

\* exec.CommandContext kills the child when the context ends.
ContextKills ==
  /\ Watched /\ Alive /\ Killed
  /\ UNCHANGED <<platform, req, parentVars, ctx, limited, encoding, rendering, out, stdin, stdout>>

ParentDies ==
  /\ parent \notin {"start", "returned", "dead"} /\ Goes("dead")
  /\ UNCHANGED <<platform, req, ctx, child, limited, encoding, rendering, out, stdin, stdout>>

\* PR_SET_PDEATHSIG on Linux, KILL_ON_JOB_CLOSE on Windows.
OrphanKilled ==
  /\ parent = "dead" /\ Alive /\ (platform = "linux" \/ limited) /\ Killed
  /\ UNCHANGED <<platform, req, parentVars, ctx, limited, encoding, rendering, out, stdin, stdout>>

\* Out of memory, or killed from outside.
ChildDies ==
  /\ Alive /\ child' = "failed"
  /\ UNCHANGED <<platform, req, parentVars, ctx, limited, encoding, rendering, out, stdin, stdout>>

-----------------------------------------------------------------------------
(* The child.                                                               *)

Ends(code) == child' = IF code = 0 THEN "exited" ELSE "failed"
StdinClosed == parent \notin {"configure", "send", "body"}

\* A bug to be caught: on Linux the child does not limit itself.
LeftUnlimited == limited
LimitedByItself == platform = "linux" \/ limited

\* The request does not parse or is out of range; limitWorkerData fails.
ReadRequest ==
  /\ child = "line"
  /\ \/ /\ stdin # << >> /\ stdin' = << >>
        /\ \/ req.fits /\ child' = "body" /\ limited' = LimitedByItself
           \/ Ends(2) /\ UNCHANGED limited
     \/ stdin = << >> /\ StdinClosed /\ Ends(2) /\ UNCHANGED <<stdin, limited>>
  /\ UNCHANGED <<platform, req, parentVars, ctx, encoding, rendering, out, stdout>>

ReadBody ==
  /\ child = "body"
  /\ \/ stdin # << >> /\ stdin' = << >> /\ child' = "writeAck"
     \/ stdin = << >> /\ StdinClosed /\ Ends(2) /\ UNCHANGED stdin
  /\ UNCHANGED <<platform, req, parentVars, ctx, limited, encoding, rendering, out, stdout>>

\* A write waits for room; without a reader it fails.
Put(token, then) ==
  \/ /\ parent # "dead" /\ Len(stdout) < PipeSize
     /\ stdout' = Append(stdout, token) /\ then
  \/ parent = "dead" /\ Ends(2) /\ UNCHANGED stdout

Available(n) == req.cache - n * FrameSize

\* encodeDecimen or encodeClassic: an error, or frames, and the PNG budget.
Encode ==
  /\ child = "encode"
  /\ \/ child' = "report" /\ UNCHANGED encoding
     \/ \E n \in 1 .. MaxFrames :
          /\ frames' = n
          /\ IF Available(n) > 0
             THEN child' = "render" /\ budget' = Min({MaxPNGCacheBytes, Available(n)})
             ELSE child' = "report" /\ UNCHANGED budget
  /\ pngs' = [i \in 1 .. frames' |-> 0]
  /\ UNCHANGED <<platform, req, parentVars, ctx, limited, next, job, bytes, exceeded, out, stdin, stdout>>

\* After the budget is exceeded the jobs are still taken, and dropped.
TakeJob(r) ==
  /\ child = "render" /\ job[r] = Nothing /\ next <= Warmup
  /\ next' = next + 1
  /\ job' = [job EXCEPT ![r] = IF exceeded THEN Nothing ELSE next]
  /\ UNCHANGED <<platform, req, parentVars, ctx, child, limited, encoding, pngs, bytes, exceeded, out, stdin, stdout>>

Over(total) == budget > 0 /\ total > budget

\* A render that fails has no bytes.  The PNG that exceeds the budget is not kept.
Rendered(r) ==
  /\ child = "render" /\ job[r] # Nothing
  /\ \E size \in PNGSizes \union {0} :
       /\ bytes' = bytes + size
       /\ IF Over(bytes + size)
          THEN exceeded' = TRUE /\ UNCHANGED pngs
          ELSE pngs' = [pngs EXCEPT ![job[r]] = size] /\ UNCHANGED exceeded
  /\ job' = [job EXCEPT ![r] = Nothing]
  /\ UNCHANGED <<platform, req, parentVars, ctx, child, limited, encoding, next, out, stdin, stdout>>

\* wg.Wait, and the checks of the warm-up.
RenderEnds ==
  /\ child = "render" /\ next > Warmup /\ \A r \in Renderer : job[r] = Nothing
  /\ child' = IF exceeded \/ \E i \in 1 .. Warmup : pngs[i] = 0 THEN "report" ELSE "header"
  /\ UNCHANGED <<platform, req, parentVars, ctx, limited, encoding, rendering, out, stdin, stdout>>

\* The n-th part of the session: frame, PNG, frame, PNG.
PartOf(n) == IF n % 2 = 1 THEN FrameSize ELSE pngs[n \div 2]

Write ==
  /\ \/ /\ child = "writeAck" /\ Put(<<"ack">>, child' = "encode") /\ UNCHANGED out
     \/ /\ child = "report" /\ Put(<<"error">>, Ends(0)) /\ UNCHANGED out
     \/ /\ child = "header" /\ Put(<<"header", Warmup>>, child' = "parts") /\ UNCHANGED out
     \/ /\ child = "parts" /\ out < 2 * frames
        /\ Put(<<"part", PartOf(out + 1)>>, UNCHANGED child) /\ out' = out + 1
  /\ UNCHANGED <<platform, req, parentVars, ctx, limited, encoding, rendering, stdin>>

ChildExits ==
  /\ child = "parts" /\ out = 2 * frames /\ Ends(0)
  /\ UNCHANGED <<platform, req, parentVars, ctx, limited, encoding, rendering, out, stdin, stdout>>

-----------------------------------------------------------------------------
Underway == parent # "start"
EncodeIsolated == Configure \/ Send \/ Receive \/ Kill \/ Wait
Render == \E r \in Renderer : TakeJob(r) \/ Rendered(r)
WorkerMain == ReadRequest \/ ReadBody \/ RenderEnds \/ Write \/ ChildExits
System == ContextKills \/ OrphanKilled
WorkerNext == StartChild \/ EncodeIsolated \/ WorkerMain \/ Encode \/ Render \/ System
                \/ ContextEnds \/ ParentDies \/ ChildDies

\* The deadline of the context comes, kills are carried out, and both processes
\* run, once there are two.  The library calls, Encode and Render, may go on for
\* ever.
WorkerFairness ==
  /\ WF_workerVars(EncodeIsolated) /\ WF_workerVars(WorkerMain) /\ WF_workerVars(System)
  /\ WF_workerVars(Underway /\ ContextEnds)

WorkerSpec == WorkerInit /\ [][WorkerNext]_workerVars /\ WorkerFairness

-----------------------------------------------------------------------------
\* The units that parts are made of.
Units(parts) == UNION {{n} \X (1 .. parts[n]) : n \in DOMAIN parts}

\* encodeIsolated never publishes part of a session: what it returns is all that
\* the child encoded, in order, with the PNGs of the warm-up, within the memory
\* the request was given; and the child has ended well.  And the two processes
\* count alike: a session whose child kept to its own budgets is never refused by
\* the parent's budget check ("worker output exceeds cache budget"), although PNGs
\* were added to one counter by several renderers.
SessionWhole ==
  /\ result = "session" =>
       /\ child = "exited" /\ ~exceeded
       /\ got = [n \in 1 .. 2 * frames |-> PartOf(n)]
       /\ \A i \in 1 .. Warmup : pngs[i] # 0
       /\ Cardinality(Units(got)) = req.cache - left /\ left >= 0
  /\ err \notin {"budget", "header"}

\* The library runs only in a process whose memory is limited (the child waits
\* for its input until the job object is installed, or limits itself first), and
\* encodeIsolated leaves no process behind, however it returns.
ChildContained ==
  /\ child \in Writing => limited
  /\ parent = "returned" => ~Alive

\* A library call that never ends, a full pipe or a dead parent keep neither the
\* call nor the child: encodeIsolated returns or its process is dead, and the
\* child ends.
CallEnds == Underway ~> (parent \in {"returned", "dead"} /\ ~Alive)
=============================================================================
