--------------------------- MODULE FrameRequests ---------------------------
(***************************************************************************)
(* Who waits for whom when the sender renders frames (internal/sender).    *)
(* HTTP requests and prefetch goroutines ask framePNG for frames; the      *)
(* first to ask renders, the others follow it.  Requests start the         *)
(* prefetch of the frames ahead.  Clients go away, sessions are deleted,   *)
(* and the server is closed and started again meanwhile.                   *)
(*                                                                         *)
(* A critical section of Server.mu is one step, except the loop in which   *)
(* prefetch queues jobs: the goroutines take jobs while it runs.           *)
(***************************************************************************)
EXTENDS Integers, Sequences, FiniteSets, FiniteSetsExt

CONSTANTS
  Session,                   \* the sessions that are ever encoded
  Frames,                    \* len(session.frames)
  Unrenderable,              \* frames for which rendering fails
  Request,                   \* HTTP requests under way at the same time
  Helper,                    \* the prefetch goroutines of a context
  Epoch,                     \* the prefetch contexts of a session
  Slots,                     \* cap(renderSlots)
  Window,                    \* prefetchFrames, and the capacity of prefetchJobs
  None

Frame == 0 .. Frames - 1
Prefetcher == Session \X Epoch \X Helper
Agent == Request \union Prefetcher

ASSUME RequestsAssumption ==
  /\ Frames \in Nat \ {0} /\ Slots \in Nat \ {0} /\ Window \in Nat \ {0}
  /\ Unrenderable \subseteq Frame
  /\ None \notin Agent \union Epoch
  /\ Request \intersect (Prefetcher \union (Session \X Epoch)) = {}

VARIABLES
  fresh, sessions,           \* not encoded yet; the keys of Server.sessions
  pngs, pending,             \* session.pngs that are set; leader of each render
  context,                   \* session.prefetchContext
  cancelled,                 \* requests and contexts whose Done is closed
  jobs, queued,              \* prefetchJobs and prefetchQueued of each context
  agent,                     \* what each goroutine does
  server,                    \* "up", "closing": Close took it, "down"
  stopped,                   \* Server.stopped
  closer                     \* what Close waits for

caches == <<pngs, pending>>
prefetching == <<context, jobs, queued>>
lifecycle == <<server, stopped, closer>>
vars == <<fresh, sessions, caches, prefetching, cancelled, agent, lifecycle>>

\* An agent that does nothing; one that has not been started or has returned.
Idle == [at |-> "idle", s |-> None, f |-> 0, leader |-> None, result |-> "none", next |-> 0]
Gone == [Idle EXCEPT !.at = "gone"]

Init ==
  /\ fresh = Session /\ sessions = {}
  /\ pngs = [s \in Session |-> {}]
  /\ pending = [s \in Session |-> [f \in Frame |-> None]]
  /\ context = [s \in Session |-> None]
  /\ cancelled = {}
  /\ jobs = [c \in Session \X Epoch |-> << >>]
  /\ queued = [c \in Session \X Epoch |-> {}]
  /\ agent = [a \in Agent |-> IF a \in Request THEN Idle ELSE Gone]
  /\ server = "down" /\ stopped = FALSE /\ closer = "none"

-----------------------------------------------------------------------------
(* The pieces framePNG and prefetch are made of.                           *)

ContextOf(a) == IF a \in Request THEN a ELSE <<a[1], a[2]>>
Cancelled(a) == ContextOf(a) \in cancelled

\* Server.mu is held across steps only while a request queues prefetch jobs.
MuFree == \A r \in Request : agent[r].at # "fill"

\* The context that a deleted session, or every session, is prefetched under.
Contexts(S) == {<<s, context[s]>> : s \in {x \in S : context[x] # None}}

Answer(a, result) ==
  agent' = [agent EXCEPT ![a].at = "answered", ![a].result = result, ![a].leader = None]

Leads(a, s, f) ==
  agent[a].at \in {"slot", "render", "finish"} /\ agent[a].s = s /\ agent[a].f = f

Running(h) == agent[h].at # "gone"
Helpers == {h \in Prefetcher : Running(h)}
InFlight == {r \in Request : agent[r].at # "idle"}
Renderers == {a \in Agent : agent[a].at = "render"}

-----------------------------------------------------------------------------
(* framePNG.                                                               *)

\* The lookup, for the frame the agent has in mind.
Ask(a) ==
  LET s == agent[a].s
      f == agent[a].f
  IN /\ agent[a].at = "ask"
     /\ \/ /\ Cancelled(a)
           /\ Answer(a, "canceled")
           /\ UNCHANGED pending
        \/ /\ ~Cancelled(a) /\ MuFree
           /\ \/ /\ s \notin sessions
                 /\ Answer(a, "missing")
                 /\ UNCHANGED pending
              \/ /\ s \in sessions /\ f \in pngs[s]
                 /\ Answer(a, "png")
                 /\ UNCHANGED pending
              \/ /\ s \in sessions /\ f \notin pngs[s] /\ pending[s][f] # None
                 /\ agent' = [agent EXCEPT ![a].at = "follow", ![a].leader = pending[s][f]]
                 /\ UNCHANGED pending
              \/ /\ s \in sessions /\ f \notin pngs[s] /\ pending[s][f] = None
                 /\ agent' = [agent EXCEPT ![a].at = "slot"]
                 /\ pending' = [pending EXCEPT ![s][f] = a]
     /\ UNCHANGED <<fresh, sessions, pngs, prefetching, cancelled, lifecycle>>

\* A follower gives up when its own context ends, or takes the leader's answer.
FollowEnds(a) ==
  /\ \/ agent[a].at \in {"follow", "woken"} /\ Cancelled(a) /\ Answer(a, "canceled")
     \/ agent[a].at = "woken" /\ Answer(a, agent[a].result)
  /\ UNCHANGED <<fresh, sessions, caches, prefetching, cancelled, lifecycle>>

\* The leader waits for a slot or for the end of its context.
TakeSlot(a) ==
  /\ agent[a].at = "slot"
  /\ \/ /\ Cardinality(Renderers) < Slots
        /\ agent' = [agent EXCEPT ![a].at = "render"]
     \/ /\ Cancelled(a)
        /\ agent' = [agent EXCEPT ![a].at = "finish", ![a].result = "canceled"]
  /\ UNCHANGED <<fresh, sessions, caches, prefetching, cancelled, lifecycle>>

Rendered(a) ==
  /\ agent[a].at = "render"
  /\ agent' = [agent EXCEPT ![a].at = "finish",
                 ![a].result = IF agent[a].f \in Unrenderable THEN "failed" ELSE "png"]
  /\ UNCHANGED <<fresh, sessions, caches, prefetching, cancelled, lifecycle>>

\* What the leader answers, once it has the lock again.
Verdict(a) ==
  IF agent[a].s \notin sessions THEN "missing"
  ELSE IF Cancelled(a) THEN "canceled" ELSE agent[a].result

\* The stores and evictions of a render under memory limits, which are the
\* business of SenderSessions: any PNGs go, and the new one is kept or not.
Caches(s, f, verdict) ==
  IF verdict = "png"
  THEN \E kept \in [sessions -> SUBSET Frame] :
         /\ \A x \in sessions : kept[x] \subseteq pngs[x] \union (IF x = s THEN {f} ELSE {})
         /\ pngs' = [x \in Session |-> IF x \in sessions THEN kept[x] ELSE pngs[x]]
  ELSE UNCHANGED pngs

\* A bug to be caught: followers are not told of an error.
WokenOnSuccess(a, verdict) ==
  [b \in Agent |->
    IF b = a THEN [agent[b] EXCEPT !.at = "answered", !.result = verdict]
    ELSE IF agent[b].at = "follow" /\ agent[b].leader = a /\ verdict = "png"
         THEN [agent[b] EXCEPT !.at = "woken", !.result = verdict]
         ELSE agent[b]]

\* close(call.done): the leader answers, and so may everyone who follows it.
Woken(a, verdict) ==
  [b \in Agent |->
    IF b = a THEN [agent[b] EXCEPT !.at = "answered", !.result = verdict]
    ELSE IF agent[b].at = "follow" /\ agent[b].leader = a
         THEN [agent[b] EXCEPT !.at = "woken", !.result = verdict]
         ELSE agent[b]]

\* A bug to be caught: a render that was cancelled stays registered.
LeftOnCancel(s, f, verdict) ==
  IF verdict = "canceled" THEN pending ELSE [pending EXCEPT ![s][f] = None]

Unregistered(s, f, verdict) == [pending EXCEPT ![s][f] = None]

Finish(a) ==
  /\ agent[a].at = "finish" /\ MuFree
  /\ Caches(agent[a].s, agent[a].f, Verdict(a))
  /\ pending' = Unregistered(agent[a].s, agent[a].f, Verdict(a))
  /\ agent' = Woken(a, Verdict(a))
  /\ UNCHANGED <<fresh, sessions, prefetching, cancelled, lifecycle>>

-----------------------------------------------------------------------------
(* handleFrame: framePNG, then prefetch.                                   *)

NewRequest(r) ==
  /\ agent[r].at = "idle" /\ server \in {"up", "closing"}
  /\ \E s \in Session, f \in Frame :
       agent' = [agent EXCEPT ![r] = [Idle EXCEPT !.at = "ask", !.s = s, !.f = f]]
  /\ UNCHANGED <<fresh, sessions, caches, prefetching, cancelled, lifecycle>>

\* The client goes away.
Disconnect(r) ==
  /\ r \in InFlight /\ r \notin cancelled
  /\ cancelled' = cancelled \union {r}
  /\ UNCHANGED <<fresh, sessions, caches, prefetching, agent, lifecycle>>

\* The handler returns; the next request has a context of its own.
Return(r) ==
  /\ agent' = [agent EXCEPT ![r] = Idle]
  /\ cancelled' = cancelled \ {r}

Refused(r) ==
  /\ agent[r].at = "answered" /\ agent[r].result # "png"
  /\ Return(r)
  /\ UNCHANGED <<fresh, sessions, caches, prefetching, lifecycle>>

Ahead(f, offset) == (f + offset) % Frames
Reach == 1 .. Min({Window, Frames - 1})

\* A bug to be caught: prefetching goes on after Close.
MayPrefetchAnyway(s) == s \in sessions

MayPrefetch(s) == s \in sessions /\ ~stopped

Needed(s, f) == \E o \in Reach : Ahead(f, o) \notin pngs[s]

SkipPrefetch(r) ==
  /\ agent[r].at = "answered" /\ agent[r].result = "png" /\ MuFree
  /\ ~MayPrefetch(agent[r].s) \/ ~Needed(agent[r].s, agent[r].f)
  /\ Return(r)
  /\ UNCHANGED <<fresh, sessions, caches, prefetching, lifecycle>>

HasContext(s) == context[s] # None /\ <<s, context[s]>> \notin cancelled

\* prefetch opens a context with its goroutines unless the session has one.
\* A context whose goroutines have returned stands for a new one.
Prefetch(r) ==
  LET s == agent[r].s
      filling == [agent EXCEPT ![r].at = "fill", ![r].next = 1]
  IN /\ agent[r].at = "answered" /\ agent[r].result = "png" /\ MuFree
     /\ MayPrefetch(s) /\ Needed(s, agent[r].f)
     /\ \/ /\ HasContext(s)
           /\ agent' = filling
           /\ UNCHANGED <<prefetching, cancelled>>
        \/ /\ ~HasContext(s)
           /\ \E e \in Epoch :
                /\ \A h \in Helper : ~Running(<<s, e, h>>)
                /\ context' = [context EXCEPT ![s] = e]
                /\ cancelled' = cancelled \ {<<s, e>>}
                /\ jobs' = [jobs EXCEPT ![<<s, e>>] = << >>]
                /\ queued' = [queued EXCEPT ![<<s, e>>] = {}]
                /\ agent' = [a \in Agent |->
                     IF a \in Request THEN filling[a]
                     ELSE IF a[1] = s /\ a[2] = e THEN Idle ELSE agent[a]]
     /\ UNCHANGED <<fresh, sessions, caches, lifecycle>>

\* The next of the frames ahead that nobody has, renders or will render.
Wanted(r) ==
  LET s == agent[r].s
  IN {o \in Reach :
       LET f == Ahead(agent[r].f, o)
       IN /\ o >= agent[r].next /\ f \notin pngs[s] /\ pending[s][f] = None
          /\ f \notin queued[<<s, context[s]>>]}

Fill(r) ==
  LET c == <<agent[r].s, context[agent[r].s]>>
      f == Ahead(agent[r].f, Min(Wanted(r)))
  IN /\ agent[r].at = "fill"
     /\ \/ /\ Wanted(r) # {} /\ Len(jobs[c]) < Window
           /\ jobs' = [jobs EXCEPT ![c] = Append(@, f)]
           /\ queued' = [queued EXCEPT ![c] = @ \union {f}]
           /\ agent' = [agent EXCEPT ![r].next = Min(Wanted(r)) + 1]
           /\ UNCHANGED cancelled
        \/ /\ Wanted(r) = {} \/ Len(jobs[c]) = Window
           /\ Return(r)
           /\ UNCHANGED <<jobs, queued>>
     /\ UNCHANGED <<fresh, sessions, caches, context, lifecycle>>

-----------------------------------------------------------------------------
(* The goroutines of a prefetch context.  When a job is there and the      *)
(* context has ended, Go's select takes either.                            *)

TakeJob(h) ==
  LET c == ContextOf(h)
  IN /\ agent[h].at = "idle" /\ jobs[c] # << >>
     /\ agent' = [agent EXCEPT ![h] = [Idle EXCEPT !.at = "ask", !.s = h[1], !.f = Head(jobs[c])]]
     /\ jobs' = [jobs EXCEPT ![c] = Tail(@)]
     /\ UNCHANGED <<fresh, sessions, caches, context, cancelled, queued, lifecycle>>

\* A bug to be caught: the mark is removed only when the frame was rendered.
UnmarkedOnSuccess(h) ==
  IF agent[h].result = "png" THEN queued[ContextOf(h)] \ {agent[h].f} ELSE queued[ContextOf(h)]

Unmarked(h) == queued[ContextOf(h)] \ {agent[h].f}

JobDone(h) ==
  /\ agent[h].at = "answered" /\ MuFree
  /\ queued' = [queued EXCEPT ![ContextOf(h)] = Unmarked(h)]
  /\ agent' = [agent EXCEPT ![h] = Idle]
  /\ UNCHANGED <<fresh, sessions, caches, context, jobs, cancelled, lifecycle>>

HelperExit(h) ==
  /\ agent[h].at = "idle" /\ Cancelled(h)
  /\ agent' = [agent EXCEPT ![h] = Gone]
  /\ UNCHANGED <<fresh, sessions, caches, prefetching, cancelled, lifecycle>>

-----------------------------------------------------------------------------
(* Sessions come and go.                                                   *)

\* handleEncode inserts a session with some frames rendered; admitLocked may
\* evict PNGs of the others.
Admit(s) ==
  /\ s \in fresh /\ MuFree
  /\ fresh' = fresh \ {s} /\ sessions' = sessions \union {s}
  /\ \E kept \in [Session -> SUBSET Frame] :
       /\ \A x \in sessions : kept[x] \subseteq pngs[x]
       /\ \A x \in Session \ (sessions \union {s}) : kept[x] = pngs[x]
       /\ kept[s] \intersect Unrenderable = {}
       /\ pngs' = kept
  /\ UNCHANGED <<pending, prefetching, cancelled, agent, lifecycle>>

\* A bug to be caught: the prefetch of a deleted session is left alone.
NothingEnds(S) == {}

Ended(S) == Contexts(S)

\* handleCancel, and cleanup for one session.
Delete(s) ==
  /\ s \in sessions /\ MuFree
  /\ sessions' = sessions \ {s}
  /\ cancelled' = cancelled \union Ended({s})
  /\ UNCHANGED <<fresh, caches, prefetching, agent, lifecycle>>

-----------------------------------------------------------------------------
(* Start and Close, which exclude each other by Server.lifecycle.          *)

Start ==
  /\ closer = "none" /\ server = "down" /\ MuFree
  /\ server' = "up" /\ stopped' = FALSE
  /\ UNCHANGED <<fresh, sessions, caches, prefetching, cancelled, agent, closer>>

CloseBegin ==
  /\ closer = "none" /\ MuFree
  /\ stopped' = TRUE
  /\ cancelled' = cancelled \union Ended(sessions)
  /\ server' = IF server = "up" THEN "closing" ELSE server
  /\ closer' = "prefetch"
  /\ UNCHANGED <<fresh, sessions, caches, prefetching, agent>>

PrefetchDone == Helpers = {}

\* prefetchWG.Wait returns; Shutdown closes the listener.
CloseListener ==
  /\ closer = "prefetch" /\ PrefetchDone
  /\ closer' = IF server = "closing" THEN "shutdown" ELSE "none"
  /\ server' = "down"
  /\ UNCHANGED <<fresh, sessions, caches, prefetching, cancelled, agent, stopped>>

\* Shutdown ends after a second at most; then connections are closed by force.
CloseReturn ==
  /\ closer = "shutdown"
  /\ closer' = "none"
  /\ cancelled' = cancelled \union InFlight
  /\ UNCHANGED <<fresh, sessions, caches, prefetching, agent, server, stopped>>

-----------------------------------------------------------------------------
FramePNG(a) == Ask(a) \/ FollowEnds(a) \/ TakeSlot(a) \/ Rendered(a) \/ Finish(a)

RequestStep(r) == FramePNG(r) \/ Refused(r) \/ SkipPrefetch(r) \/ Prefetch(r) \/ Fill(r)

HelperStep(h) == FramePNG(h) \/ TakeJob(h) \/ JobDone(h) \/ HelperExit(h)

CloseStep == CloseListener \/ CloseReturn

Next ==
  \/ \E r \in Request : RequestStep(r) \/ NewRequest(r) \/ Disconnect(r)
  \/ \E h \in Prefetcher : HelperStep(h)
  \/ \E s \in Session : Admit(s) \/ Delete(s)
  \/ Start \/ CloseBegin \/ CloseStep

Spec == Init /\ [][Next]_vars

(* Goroutines are scheduled.  Waiters for Server.mu and senders into        *)
(* renderSlots are served first come, first served by the Go runtime, so a  *)
(* step that is possible again and again is taken: strong fairness.         *)
Fairness ==
  /\ \A r \in Request : SF_vars(RequestStep(r))
  /\ \A h \in Prefetcher : SF_vars(HelperStep(h))
  /\ WF_vars(CloseStep)

FairSpec == Spec /\ Fairness

-----------------------------------------------------------------------------
TypeOK ==
  /\ fresh \subseteq Session /\ sessions \subseteq Session \ fresh
  /\ pngs \in [Session -> SUBSET Frame]
  /\ pending \in [Session -> [Frame -> Agent \union {None}]]
  /\ context \in [Session -> Epoch \union {None}]
  /\ cancelled \subseteq Request \union (Session \X Epoch)
  /\ jobs \in [Session \X Epoch -> Seq(Frame)]
  /\ queued \in [Session \X Epoch -> SUBSET Frame]
  /\ agent \in [Agent ->
       [at : {"gone", "idle", "ask", "follow", "woken", "slot", "render", "finish",
              "answered", "fill"},
        s : Session \union {None}, f : Frame, leader : Agent \union {None},
        result : {"none", "png", "failed", "canceled", "missing"}, next : Nat]]
  /\ server \in {"up", "closing", "down"} /\ stopped \in BOOLEAN
  /\ closer \in {"none", "prefetch", "shutdown"}

(* Renders are coalesced: whoever renders a frame is registered for it and  *)
(* nobody else is, so no frame is rendered twice at a time; and everyone    *)
(* who follows a render follows one that is still under way.                *)
RendersCoalesced ==
  \A a \in Agent :
    /\ \A s \in Session, f \in Frame : Leads(a, s, f) <=> pending[s][f] = a
    /\ agent[a].at = "follow" =>
         pending[agent[a].s][agent[a].f] = agent[a].leader /\ agent[a].leader # None

(* A frame marked as queued for prefetch is in the queue or being worked    *)
(* on, and no other frame is: one marked for ever would never be prefetched *)
(* again, one not marked would be rendered twice.                           *)
Working(c) ==
  {agent[h].f : h \in {x \in Helpers : ContextOf(x) = c /\ agent[x].at # "idle"}}

PrefetchAccounted ==
  \A c \in Session \X Epoch :
    queued[c] = {jobs[c][i] : i \in DOMAIN jobs[c]} \union Working(c)

(* No prefetch goroutine outlives Close, whatever requests are still under  *)
(* way when it returns; until then only cancelled ones are left.  Nor does   *)
(* one go on for a session that is gone: it has been told to end.           *)
CloseStopsPrefetch ==
  /\ stopped => \A h \in Helpers : Cancelled(h)
  /\ stopped /\ closer # "prefetch" => Helpers = {}
  /\ \A h \in Helpers : h[1] \notin sessions => Cancelled(h)

(* Every request for a frame is answered: whoever it follows answers it,    *)
(* or fails for it.                                                         *)
RequestAnswered ==
  \A r \in Request : (agent[r].at = "ask") ~> (agent[r].at \in {"answered", "idle"})

(* Close returns: the goroutines it waits for end, although they wait for   *)
(* slots, for Server.mu and for renders of requests.                        *)
CloseReturns == (closer # "none") ~> (closer = "none")

(* docs/sender-v2.0.3.md:24 says that cancelling, expiry and stopping cancel *)
(* the prefetch of a session and wait for it to end: no goroutine works for  *)
(* a session that was deleted.                                               *)
PrefetchEndsFirst == \A h \in Helpers : h[1] \in sessions
=============================================================================
