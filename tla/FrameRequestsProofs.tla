------------------------- MODULE FrameRequestsProofs -------------------------
(***************************************************************************)
(* Renders are coalesced, prefetched frames are accounted for, and Close   *)
(* leaves no prefetch goroutine behind, for any numbers of sessions,       *)
(* frames, requests, goroutines, slots and contexts.                       *)
(***************************************************************************)
EXTENDS FrameRequests, TLAPS, SequenceTheorems, WellFoundedInduction

At == {"gone", "idle", "ask", "follow", "woken", "slot", "render", "finish", "answered", "fill"}
Leading == {"slot", "render", "finish"}
Result == {"none", "png", "failed", "canceled", "missing"}
AgentState == [at : At, s : Session \union {None}, f : Frame, leader : Agent \union {None}, result : Result, next : Nat]
Key == Session \X Epoch

\* Who asks for a frame asks for a frame of a session; who fills a queue is a request
\* of a session with a context.
AskersOK ==
  /\ \A a \in Agent : agent[a].at \notin {"idle", "gone"} => agent[a].s \in Session
  /\ \A r \in Request : agent[r].at = "fill" => context[agent[r].s] \in Epoch
  /\ \A h \in Prefetcher : agent[h].at # "fill"

\* The goroutines of a context that have a job.
Workers(c) == {h \in Prefetcher : ContextOf(h) = c /\ agent[h].at \notin {"idle", "gone"}}
Elements(q) == {q[i] : i \in DOMAIN q}
Distinct(q) == \A i, j \in DOMAIN q : q[i] = q[j] => i = j

\* A frame that is marked is once in the queue, or in the hands of one goroutine.
QueueOK ==
  \A c \in Key :
    /\ queued[c] = Elements(jobs[c]) \union {agent[h].f : h \in Workers(c)}
    /\ Distinct(jobs[c])
    /\ \A h \in Workers(c) : agent[h].f \notin Elements(jobs[c])
    /\ \A h, g \in Workers(c) : agent[h].f = agent[g].f => h = g

\* A goroutine that has not been told to end is of the context of a session that is
\* there, and the server has not been closed.
HelpersOK ==
  /\ \A h \in Prefetcher : Running(h) =>
       Cancelled(h) \/ (h[1] \in sessions /\ context[h[1]] = h[2] /\ ~stopped)
  /\ stopped /\ closer # "prefetch" => \A h \in Prefetcher : ~Running(h)

FrameInv == TypeOK /\ AskersOK /\ RendersCoalesced /\ QueueOK /\ HelpersOK

-----------------------------------------------------------------------------
(* Agents and contexts.                                                    *)

(* A goroutine of a prefetch context is no request, and neither is its      *)
(* context (framePNG is called with either's).                              *)
LEMMA HelperContext ==
  ASSUME NEW h \in Prefetcher
  PROVE  /\ h \in Agent /\ h \notin Request /\ h[1] \in Session /\ h[2] \in Epoch
         /\ ContextOf(h) = <<h[1], h[2]>> /\ ContextOf(h) \in Key /\ ContextOf(h) \notin Request
BY RequestsAssumption DEF Prefetcher, Agent, ContextOf, Key

(* The fields of an agent.                                                  *)
LEMMA AgentFields ==
  ASSUME NEW x \in AgentState
  PROVE  /\ x.at \in At /\ x.s \in Session \union {None} /\ x.f \in Frame
         /\ x.leader \in Agent \union {None} /\ x.result \in Result /\ x.next \in Nat
BY DEF AgentState

(* The type invariant, with the names of this module.                       *)
LEMMA AgentsTyped == TypeOK => agent \in [Agent -> AgentState]
BY DEF TypeOK, AgentState, At, Result

(* An agent that starts is well-formed.                                     *)
LEMMA IdleTyped == Idle \in AgentState /\ Gone \in AgentState /\ Idle.at = "idle" /\ Gone.at = "gone"
<1>1. 0 \in Frame
  BY RequestsAssumption DEF Frame
<1> QED
  BY <1>1 DEF Idle, Gone, AgentState, At, Result

(* One agent moves and the others stay.                                     *)
LEMMA AgentMoved ==
  ASSUME agent \in [Agent -> AgentState], NEW a \in Agent, NEW c \in AgentState,
         agent' = [agent EXCEPT ![a] = c]
  PROVE  /\ agent' \in [Agent -> AgentState] /\ agent'[a] = c
         /\ \A b \in Agent : b # a => agent'[b] = agent[b]
OBVIOUS

(* A queue loses and gains nothing when the goroutines of its context keep  *)
(* their jobs.                                                              *)
LEMMA QueuesKept ==
  ASSUME QueueOK, UNCHANGED <<jobs, queued>>,
         \A h \in Prefetcher :
           /\ (agent'[h].at \in {"idle", "gone"}) <=> (agent[h].at \in {"idle", "gone"})
           /\ agent'[h].f = agent[h].f \/ agent'[h].at \in {"idle", "gone"}
  PROVE  QueueOK'
<1>1. \A c : Workers(c)' = Workers(c) /\ \A h \in Workers(c) : agent'[h].f = agent[h].f
  BY DEF Workers
<1>2. SUFFICES ASSUME NEW c \in Key
               PROVE  /\ queued[c] = Elements(jobs[c]) \union {agent'[h].f : h \in Workers(c)}
                      /\ Distinct(jobs[c])
                      /\ \A h \in Workers(c) : agent'[h].f \notin Elements(jobs[c])
                      /\ \A h, g \in Workers(c) : agent'[h].f = agent'[g].f => h = g
  BY <1>1 DEF QueueOK
<1>3. {agent'[h].f : h \in Workers(c)} = {agent[h].f : h \in Workers(c)}
  BY <1>1
<1> QED
  BY <1>1, <1>3 DEF QueueOK

(* Goroutines go on being cancelled, or on behalf of a session.             *)
LEMMA HelpersKept ==
  ASSUME HelpersOK, UNCHANGED <<sessions, context, stopped, closer>>,
         \A h \in Prefetcher : (Running(h)' => Running(h)) /\ (Cancelled(h) => Cancelled(h)')
  PROVE  HelpersOK'
BY DEF HelpersOK

\* An agent that moves within framePNG keeps its session and its frame.
AtWork(x) == x.at \notin {"gone", "idle", "fill"}
SameJob(x, y) == y = x \/ (AtWork(x) /\ AtWork(y) /\ y.s = x.s /\ y.f = x.f)

(* What framePNG does to agents disturbs no queue and no context.           *)
LEMMA JobsKept ==
  ASSUME FrameInv, agent' \in [Agent -> AgentState],
         \A b \in Agent : SameJob(agent[b], agent'[b]),
         UNCHANGED <<sessions, prefetching, cancelled, lifecycle>>
  PROVE  AskersOK' /\ QueueOK' /\ HelpersOK'
<1>1. AskersOK'
  <2>1. AskersOK /\ context' = context
    BY DEF FrameInv, prefetching
  <2>2. Request \subseteq Agent /\ Prefetcher \subseteq Agent
    BY DEF Agent
  <2> QED
    BY <2>1, <2>2 DEF AskersOK, SameJob, AtWork
<1>2. \A h \in Prefetcher : /\ (agent'[h].at \in {"idle", "gone"}) <=> (agent[h].at \in {"idle", "gone"})
                            /\ agent'[h].f = agent[h].f \/ agent'[h].at \in {"idle", "gone"}
                            /\ Running(h)' <=> Running(h)
  BY HelperContext DEF SameJob, AtWork, Running
<1>4. QueueOK'
  BY <1>2, QueuesKept DEF FrameInv, prefetching
<1>5. HelpersOK'
  <2>1. \A h \in Prefetcher : Cancelled(h)' <=> Cancelled(h)
    BY DEF Cancelled
  <2> QED
    BY <1>2, <2>1, HelpersKept DEF FrameInv, prefetching, lifecycle
<1> QED
  BY <1>1, <1>4, <1>5

-----------------------------------------------------------------------------
(* framePNG.                                                                *)

(* Nobody takes up or gives up a render, and whoever begins to follow one   *)
(* follows its leader.                                                      *)
LEMMA LeadersKept ==
  ASSUME RendersCoalesced, pending' = pending,
         \A b \in Agent :
           /\ (agent'[b].at \in Leading) <=> (agent[b].at \in Leading)
           /\ agent'[b].at \in Leading => agent'[b].s = agent[b].s /\ agent'[b].f = agent[b].f
           /\ agent'[b].at = "follow" =>
                \/ agent'[b] = agent[b]
                \/ pending[agent'[b].s][agent'[b].f] = agent'[b].leader /\ agent'[b].leader # None
  PROVE  RendersCoalesced'
<1>1. \A b \in Agent, s \in Session, f \in Frame : Leads(b, s, f)' <=> Leads(b, s, f)
  BY DEF Leads, Leading
<1> QED
  BY <1>1 DEF RendersCoalesced

(* The rest of the state keeps its type when only agents and renders move.  *)
LEMMA TypeKept ==
  ASSUME TypeOK, agent' \in [Agent -> AgentState],
         pending' \in [Session -> [Frame -> Agent \union {None}]],
         pngs' \in [Session -> SUBSET Frame],
         UNCHANGED <<fresh, sessions, prefetching, cancelled, lifecycle>>
  PROVE  TypeOK'
BY DEF TypeOK, AgentState, At, Result, prefetching, lifecycle

(* An agent that gives its answer.                                          *)
LEMMA AnswerMoves ==
  ASSUME FrameInv, NEW a \in Agent, NEW v \in Result, Answer(a, v), AtWork(agent[a]),
         agent[a].at \notin Leading, pending' = pending
  PROVE  /\ agent' \in [Agent -> AgentState] /\ RendersCoalesced'
         /\ \A b \in Agent : SameJob(agent[b], agent'[b])
<1> DEFINE c == [agent[a] EXCEPT !.at = "answered", !.result = v, !.leader = None]
<1>1. agent \in [Agent -> AgentState] /\ RendersCoalesced
  BY AgentsTyped DEF FrameInv
<1>2. /\ c \in AgentState /\ c.at = "answered" /\ c.s = agent[a].s /\ c.f = agent[a].f
  BY <1>1 DEF AgentState, At
<1>3. agent' = [agent EXCEPT ![a] = c]
  BY <1>1 DEF Answer
<1> HIDE DEF c
<1>4. /\ agent' \in [Agent -> AgentState] /\ agent'[a] = c
      /\ \A b \in Agent : b # a => agent'[b] = agent[b]
  BY <1>1, <1>2, <1>3, AgentMoved
<1>5. \A b \in Agent : SameJob(agent[b], agent'[b])
  BY <1>2, <1>4 DEF SameJob, AtWork
<1>6. RendersCoalesced'
  <2>1. \A b \in Agent :
           /\ (agent'[b].at \in Leading) <=> (agent[b].at \in Leading)
           /\ agent'[b].at \in Leading => agent'[b].s = agent[b].s /\ agent'[b].f = agent[b].f
           /\ agent'[b].at = "follow" =>
                \/ agent'[b] = agent[b]
                \/ pending[agent'[b].s][agent'[b].f] = agent'[b].leader /\ agent'[b].leader # None
    BY <1>2, <1>4 DEF Leading
  <2> QED
    BY <1>1, <2>1, LeadersKept
<1> QED
  BY <1>4, <1>5, <1>6

(* An agent that goes on with its job, in the same role.                    *)
LEMMA SameRole ==
  ASSUME FrameInv, NEW a \in Agent, NEW c \in AgentState, agent' = [agent EXCEPT ![a] = c],
         AtWork(agent[a]), AtWork(c), c.s = agent[a].s, c.f = agent[a].f,
         (c.at \in Leading) <=> (agent[a].at \in Leading),
         c.at = "follow" => pending[c.s][c.f] = c.leader /\ c.leader # None,
         UNCHANGED <<fresh, sessions, caches, prefetching, cancelled, lifecycle>>
  PROVE  FrameInv'
<1>1. agent \in [Agent -> AgentState] /\ TypeOK /\ RendersCoalesced
  BY AgentsTyped DEF FrameInv
<1>2. /\ agent' \in [Agent -> AgentState] /\ agent'[a] = c
      /\ \A b \in Agent : b # a => agent'[b] = agent[b]
  BY <1>1, AgentMoved
<1>3. AskersOK' /\ QueueOK' /\ HelpersOK'
  <2>1. \A b \in Agent : SameJob(agent[b], agent'[b])
    BY <1>2 DEF SameJob
  <2> QED
    BY <1>2, <2>1, JobsKept
<1>4. TypeOK'
  <2>1. /\ pending \in [Session -> [Frame -> Agent \union {None}]]
        /\ pngs \in [Session -> SUBSET Frame]
    BY <1>1 DEF TypeOK
  <2> QED
    BY <1>1, <1>2, <2>1, TypeKept DEF caches
<1>5. RendersCoalesced'
  <2>1. \A b \in Agent :
           /\ (agent'[b].at \in Leading) <=> (agent[b].at \in Leading)
           /\ agent'[b].at \in Leading => agent'[b].s = agent[b].s /\ agent'[b].f = agent[b].f
           /\ agent'[b].at = "follow" =>
                \/ agent'[b] = agent[b]
                \/ pending[agent'[b].s][agent'[b].f] = agent'[b].leader /\ agent'[b].leader # None
    BY <1>2
  <2> QED
    BY <1>1, <2>1, LeadersKept DEF caches
<1> QED
  BY <1>3, <1>4, <1>5 DEF FrameInv

(* An agent that answers without having rendered keeps the invariant.       *)
LEMMA AnswerKeeps ==
  ASSUME FrameInv, NEW a \in Agent, NEW v \in Result, Answer(a, v), AtWork(agent[a]),
         agent[a].at \notin Leading,
         UNCHANGED <<fresh, sessions, caches, prefetching, cancelled, lifecycle>>
  PROVE  FrameInv'
<1>1. /\ agent' \in [Agent -> AgentState] /\ RendersCoalesced'
      /\ \A b \in Agent : SameJob(agent[b], agent'[b])
  BY AnswerMoves DEF caches
<1>2. TypeOK /\ pending \in [Session -> [Frame -> Agent \union {None}]] /\ pngs \in [Session -> SUBSET Frame]
  BY DEF FrameInv, TypeOK
<1>3. TypeOK'
  BY <1>1, <1>2, TypeKept DEF caches
<1> QED
  BY <1>1, <1>3, JobsKept DEF FrameInv

(* The lookup.  Whoever registers finds nobody registered.                  *)
LEMMA AskKeeps == ASSUME FrameInv, NEW a \in Agent, Ask(a) PROVE FrameInv'
<1> DEFINE s == agent[a].s
           f == agent[a].f
<1>1. /\ agent \in [Agent -> AgentState] /\ TypeOK /\ RendersCoalesced /\ AskersOK
      /\ agent[a] \in AgentState /\ agent[a].at = "ask" /\ s \in Session /\ f \in Frame
  BY AgentsTyped, AgentFields DEF FrameInv, AskersOK, Ask
<1>2. UNCHANGED <<fresh, sessions, pngs, prefetching, cancelled, lifecycle>>
  BY DEF Ask
<1>3. AtWork(agent[a]) /\ agent[a].at \notin Leading
  BY <1>1 DEF AtWork, Leading
<1>4. CASE /\ UNCHANGED pending
           /\ Answer(a, "canceled") \/ Answer(a, "missing") \/ Answer(a, "png")
  <2>1. UNCHANGED <<fresh, sessions, caches, prefetching, cancelled, lifecycle>>
    BY <1>2, <1>4 DEF caches
  <2> QED
    BY <1>3, <1>4, <2>1, AnswerKeeps DEF Result
<1>5. CASE /\ pending[s][f] # None /\ UNCHANGED pending
           /\ agent' = [agent EXCEPT ![a].at = "follow", ![a].leader = pending[s][f]]
  <2> DEFINE l == pending[s][f]
             c == [agent[a] EXCEPT !.at = "follow", !.leader = l]
  <2>1. l \in Agent
    BY <1>1, <1>5 DEF TypeOK
  <2>2. agent' = [agent EXCEPT ![a] = c]
    BY <1>1, <1>5
  <2>3. /\ c \in AgentState /\ c.at = "follow" /\ c.s = s /\ c.f = f /\ c.leader = l
    BY <1>1, <2>1 DEF AgentState, At
  <2>4. UNCHANGED <<fresh, sessions, caches, prefetching, cancelled, lifecycle>>
    BY <1>2, <1>5 DEF caches
  <2>5. l # None
    BY <1>5
  <2> HIDE DEF c
  <2> QED
    BY <1>1, <1>3, <2>2, <2>3, <2>4, <2>5, SameRole DEF AtWork, Leading
<1>6. CASE /\ pending[s][f] = None /\ pending' = [pending EXCEPT ![s][f] = a]
           /\ agent' = [agent EXCEPT ![a].at = "slot"]
  <2> DEFINE c == [agent[a] EXCEPT !.at = "slot"]
  <2>1. agent' = [agent EXCEPT ![a] = c]
    BY <1>1, <1>6
  <2>2. /\ c \in AgentState /\ c.at = "slot" /\ c.s = s /\ c.f = f
    BY <1>1 DEF AgentState, At
  <2> HIDE DEF c
  <2>3. /\ agent' \in [Agent -> AgentState] /\ agent'[a] = c
        /\ \A b \in Agent : b # a => agent'[b] = agent[b]
    BY <1>1, <2>1, <2>2, AgentMoved
  <2>4. AskersOK' /\ QueueOK' /\ HelpersOK'
    <3>1. \A b \in Agent : SameJob(agent[b], agent'[b])
      BY <1>3, <2>2, <2>3 DEF SameJob, AtWork
    <3> QED
      BY <1>2, <2>3, <3>1, JobsKept
  <2>5. /\ pending' \in [Session -> [Frame -> Agent \union {None}]] /\ pending'[s][f] = a
        /\ \A x \in Session, g \in Frame : x # s \/ g # f => pending'[x][g] = pending[x][g]
    BY <1>1, <1>6 DEF TypeOK
  <2>6. TypeOK'
    BY <1>1, <1>2, <2>3, <2>5, TypeKept DEF TypeOK
  <2>7. RendersCoalesced'
    <3>1. \A x \in Session, g \in Frame : Leads(a, x, g)' <=> pending'[x][g] = a
      <4>1. \A x \in Session, g \in Frame : Leads(a, x, g)' <=> x = s /\ g = f
        BY <2>2, <2>3 DEF Leads
      <4>2. \A x \in Session, g \in Frame : pending[x][g] # a
        BY <1>1, <1>3 DEF RendersCoalesced, Leads, Leading
      <4> QED
        BY <2>5, <4>1, <4>2
    <3>2. \A b \in Agent : b # None
      BY RequestsAssumption
    <3>3. \A b \in Agent : b # a => \A x \in Session, g \in Frame : Leads(b, x, g)' <=> pending'[x][g] = b
      <4>1. SUFFICES ASSUME NEW b \in Agent, b # a, NEW x \in Session, NEW g \in Frame
                     PROVE  Leads(b, x, g)' <=> pending'[x][g] = b
        OBVIOUS
      <4>2. Leads(b, x, g)' <=> Leads(b, x, g)
        BY <2>3, <4>1 DEF Leads
      <4>3. Leads(b, x, g) <=> pending[x][g] = b
        BY <1>1 DEF RendersCoalesced
      <4> QED
        BY <1>6, <2>5, <3>2, <4>1, <4>2, <4>3
    <3>4. ASSUME NEW b \in Agent, agent'[b].at = "follow"
          PROVE  pending'[agent'[b].s][agent'[b].f] = agent'[b].leader /\ agent'[b].leader # None
      <4>1. b # a /\ agent'[b] = agent[b]
        BY <2>2, <2>3, <3>4
      <4>2. pending[agent[b].s][agent[b].f] = agent[b].leader /\ agent[b].leader # None
        BY <1>1, <3>4, <4>1 DEF RendersCoalesced
      <4>3. agent[b].s \in Session /\ agent[b].f \in Frame
        BY <1>1, <3>4, <4>1, AgentFields DEF AskersOK
      <4> QED
        BY <1>6, <2>5, <4>1, <4>2, <4>3
    <3> QED
      BY <3>1, <3>3, <3>4 DEF RendersCoalesced
  <2> QED
    BY <2>4, <2>6, <2>7 DEF FrameInv
<1> QED
  BY <1>4, <1>5, <1>6 DEF Ask

(* A follower gives up, or hands on what its leader answered.               *)
LEMMA FollowEndsKeeps == ASSUME FrameInv, NEW a \in Agent, FollowEnds(a) PROVE FrameInv'
<1>1. agent[a] \in AgentState /\ agent[a].at \in {"follow", "woken"}
  BY AgentsTyped DEF FrameInv, FollowEnds
<1>2. AtWork(agent[a]) /\ agent[a].at \notin Leading
  BY <1>1 DEF AtWork, Leading
<1>3. PICK v \in Result : Answer(a, v)
  BY <1>1, AgentFields DEF FollowEnds, Result
<1>4. UNCHANGED <<fresh, sessions, caches, prefetching, cancelled, lifecycle>>
  BY DEF FollowEnds
<1> QED
  BY <1>2, <1>3, <1>4, AnswerKeeps

(* The leader takes a slot, or gives up waiting for one.                    *)
LEMMA TakeSlotKeeps == ASSUME FrameInv, NEW a \in Agent, TakeSlot(a) PROVE FrameInv'
<1>1. agent \in [Agent -> AgentState] /\ agent[a] \in AgentState /\ agent[a].at = "slot"
  BY AgentsTyped DEF FrameInv, TakeSlot
<1>2. PICK c \in AgentState :
        agent' = [agent EXCEPT ![a] = c] /\ c.at \in {"render", "finish"} /\ c.s = agent[a].s /\ c.f = agent[a].f
  <2> DEFINE x == [agent[a] EXCEPT !.at = "render"]
             y == [agent[a] EXCEPT !.at = "finish", !.result = "canceled"]
  <2>1. agent' = [agent EXCEPT ![a] = x] \/ agent' = [agent EXCEPT ![a] = y]
    BY <1>1 DEF TakeSlot
  <2>2. x \in AgentState /\ x.at = "render" /\ x.s = agent[a].s /\ x.f = agent[a].f
    BY <1>1 DEF AgentState, At
  <2>3. y \in AgentState /\ y.at = "finish" /\ y.s = agent[a].s /\ y.f = agent[a].f
    BY <1>1 DEF AgentState, At, Result
  <2> HIDE DEF x, y
  <2> QED
    BY <2>1, <2>2, <2>3
<1>3. UNCHANGED <<fresh, sessions, caches, prefetching, cancelled, lifecycle>>
  BY DEF TakeSlot
<1> QED
  BY <1>1, <1>2, <1>3, SameRole DEF AtWork, Leading

(* The frame is rendered, or cannot be.                                     *)
LEMMA RenderedKeeps == ASSUME FrameInv, NEW a \in Agent, Rendered(a) PROVE FrameInv'
<1> DEFINE v == IF agent[a].f \in Unrenderable THEN "failed" ELSE "png"
           c == [agent[a] EXCEPT !.at = "finish", !.result = v]
<1>1. agent \in [Agent -> AgentState] /\ agent[a] \in AgentState /\ agent[a].at = "render"
  BY AgentsTyped DEF FrameInv, Rendered
<1>2. v \in Result
  BY DEF Result
<1>3. agent' = [agent EXCEPT ![a] = c]
  BY <1>1 DEF Rendered
<1> HIDE DEF v
<1>4. c \in AgentState /\ c.at = "finish" /\ c.s = agent[a].s /\ c.f = agent[a].f
  BY <1>1, <1>2 DEF AgentState, At
<1>5. UNCHANGED <<fresh, sessions, caches, prefetching, cancelled, lifecycle>>
  BY DEF Rendered
<1> HIDE DEF c
<1> QED
  BY <1>1, <1>3, <1>4, <1>5, SameRole DEF AtWork, Leading

(* Whatever is stored and evicted, frames are cached.                       *)
LEMMA CachesTyped ==
  ASSUME TypeOK, NEW s, NEW f, NEW v, Caches(s, f, v)
  PROVE  pngs' \in [Session -> SUBSET Frame]
<1>1. CASE v = "png"
  <2>1. PICK kept \in [sessions -> SUBSET Frame] :
          pngs' = [x \in Session |-> IF x \in sessions THEN kept[x] ELSE pngs[x]]
    BY <1>1 DEF Caches
  <2> QED
    BY <2>1 DEF TypeOK
<1>2. CASE v # "png"
  BY <1>2 DEF Caches, TypeOK
<1> QED
  BY <1>1, <1>2

(* The leader answers: its render is no longer registered, and nobody still *)
(* follows it.                                                              *)
LEMMA FinishKeeps == ASSUME FrameInv, NEW a \in Agent, Finish(a) PROVE FrameInv'
<1> DEFINE s == agent[a].s
           f == agent[a].f
           v == Verdict(a)
           Lead(b) == [agent[b] EXCEPT !.at = "answered", !.result = v]
           Wake(b) == [agent[b] EXCEPT !.at = "woken", !.result = v]
<1>1. /\ agent \in [Agent -> AgentState] /\ TypeOK /\ RendersCoalesced /\ AskersOK
      /\ agent[a] \in AgentState /\ agent[a].at = "finish" /\ s \in Session /\ f \in Frame
  BY AgentsTyped, AgentFields DEF FrameInv, AskersOK, Finish
<1>2. UNCHANGED <<fresh, sessions, prefetching, cancelled, lifecycle>> /\ pngs' \in [Session -> SUBSET Frame]
  BY <1>1, CachesTyped DEF Finish
<1>3. v \in Result
  BY <1>1, AgentFields DEF Verdict, Result
<1>4. /\ pending' = [pending EXCEPT ![s][f] = None]
      /\ agent' = [b \in Agent |-> IF b = a THEN Lead(b)
                                   ELSE IF agent[b].at = "follow" /\ agent[b].leader = a THEN Wake(b) ELSE agent[b]]
  BY DEF Finish, Unregistered, Woken
<1> HIDE DEF v
<1>5. \A b \in Agent : /\ Lead(b) \in AgentState /\ Lead(b).at = "answered" /\ Lead(b).s = agent[b].s /\ Lead(b).f = agent[b].f
                       /\ Wake(b) \in AgentState /\ Wake(b).at = "woken" /\ Wake(b).s = agent[b].s /\ Wake(b).f = agent[b].f
  BY <1>1, <1>3 DEF AgentState, At
<1> HIDE DEF Lead, Wake
<1>6. agent' \in [Agent -> AgentState]
  BY <1>1, <1>4, <1>5
<1>7. /\ agent'[a] = Lead(a)
      /\ \A b \in Agent : b # a =>
           agent'[b] = (IF agent[b].at = "follow" /\ agent[b].leader = a THEN Wake(b) ELSE agent[b])
  BY <1>4
<1>8. AskersOK' /\ QueueOK' /\ HelpersOK'
  <2>1. \A b \in Agent : SameJob(agent[b], agent'[b])
    <3>1. SameJob(agent[a], agent'[a])
      BY <1>1, <1>5, <1>7 DEF SameJob, AtWork
    <3>2. ASSUME NEW b \in Agent, b # a PROVE SameJob(agent[b], agent'[b])
      BY <1>5, <1>7, <3>2 DEF SameJob, AtWork
    <3> QED
      BY <3>1, <3>2
  <2> QED
    BY <1>2, <1>6, <2>1, JobsKept
<1>9. /\ pending' \in [Session -> [Frame -> Agent \union {None}]] /\ pending'[s][f] = None
      /\ \A x \in Session, g \in Frame : x # s \/ g # f => pending'[x][g] = pending[x][g]
  BY <1>1, <1>4 DEF TypeOK
<1>10. TypeOK'
  BY <1>1, <1>2, <1>6, <1>9, TypeKept
<1>11. RendersCoalesced'
  <2>1. pending[s][f] = a
    BY <1>1 DEF RendersCoalesced, Leads
  <2>2. \A b \in Agent : b # None
    BY RequestsAssumption
  <2>3. \A x \in Session, g \in Frame : ~Leads(a, x, g)' /\ pending'[x][g] # a
    <3>1. SUFFICES ASSUME NEW x \in Session, NEW g \in Frame PROVE ~Leads(a, x, g)' /\ pending'[x][g] # a
      OBVIOUS
    <3>2. ~Leads(a, x, g)'
      BY <1>5, <1>7 DEF Leads
    <3>3. pending[x][g] = a => x = s /\ g = f
      BY <1>1 DEF RendersCoalesced, Leads
    <3> QED
      BY <1>9, <2>2, <3>2, <3>3
  <2>4. ASSUME NEW b \in Agent, b # a, NEW x \in Session, NEW g \in Frame
        PROVE  Leads(b, x, g)' <=> pending'[x][g] = b
    <3>1. Leads(b, x, g)' <=> Leads(b, x, g)
      BY <1>5, <1>7, <2>4 DEF Leads
    <3>2. Leads(b, x, g) <=> pending[x][g] = b
      BY <1>1 DEF RendersCoalesced
    <3> QED
      BY <1>9, <2>1, <2>2, <2>4, <3>1, <3>2
  <2>5. ASSUME NEW b \in Agent, agent'[b].at = "follow"
        PROVE  pending'[agent'[b].s][agent'[b].f] = agent'[b].leader /\ agent'[b].leader # None
    <3>1. b # a /\ agent'[b] = agent[b] /\ agent[b].leader # a
      BY <1>5, <1>7, <2>5
    <3>2. pending[agent[b].s][agent[b].f] = agent[b].leader /\ agent[b].leader # None
      BY <1>1, <2>5, <3>1 DEF RendersCoalesced
    <3>3. agent[b].s \in Session /\ agent[b].f \in Frame
      BY <1>1, <2>5, <3>1, AgentFields DEF AskersOK
    <3> QED
      BY <1>9, <2>1, <3>1, <3>2, <3>3
  <2> QED
    BY <2>2, <2>3, <2>4, <2>5 DEF RendersCoalesced
<1> QED
  BY <1>8, <1>10, <1>11 DEF FrameInv

(* framePNG, in a request or in a prefetch goroutine.                       *)
LEMMA FramePNGKeeps == ASSUME FrameInv, NEW a \in Agent, FramePNG(a) PROVE FrameInv'
BY AskKeeps, FollowEndsKeeps, TakeSlotKeeps, RenderedKeeps, FinishKeeps DEF FramePNG

-----------------------------------------------------------------------------
(* handleFrame, and the context of a request.                               *)

(* Taking a request out of the cancelled, or putting it in, tells no        *)
(* goroutine anything.                                                      *)
LEMMA OnlyRequests ==
  ASSUME NEW C \in SUBSET Request, cancelled' = cancelled \ C \/ cancelled' = cancelled \union C,
         NEW h \in Prefetcher
  PROVE  Cancelled(h)' <=> Cancelled(h)
BY HelperContext DEF Cancelled

(* The step of a request that begins or ends, or goes on to prefetch.       *)
LEMMA RequestMoved ==
  ASSUME FrameInv, NEW r \in Request, NEW c \in AgentState, agent' = [agent EXCEPT ![r] = c],
         agent[r].at \in {"idle", "answered", "fill"}, c.at \in {"idle", "ask", "fill"},
         UNCHANGED caches
  PROVE  /\ agent' \in [Agent -> AgentState] /\ agent'[r] = c
         /\ \A b \in Agent : b # r => agent'[b] = agent[b]
         /\ \A h \in Prefetcher : agent'[h] = agent[h]
         /\ RendersCoalesced'
<1>1. agent \in [Agent -> AgentState] /\ RendersCoalesced /\ r \in Agent
  BY AgentsTyped DEF FrameInv, Agent
<1>2. /\ agent' \in [Agent -> AgentState] /\ agent'[r] = c
      /\ \A b \in Agent : b # r => agent'[b] = agent[b]
  BY <1>1, AgentMoved
<1>3. \A h \in Prefetcher : agent'[h] = agent[h]
  BY <1>2, HelperContext
<1>4. \A b \in Agent :
           /\ (agent'[b].at \in Leading) <=> (agent[b].at \in Leading)
           /\ agent'[b].at \in Leading => agent'[b].s = agent[b].s /\ agent'[b].f = agent[b].f
           /\ agent'[b].at = "follow" =>
                \/ agent'[b] = agent[b]
                \/ pending[agent'[b].s][agent'[b].f] = agent'[b].leader /\ agent'[b].leader # None
  BY <1>2 DEF Leading
<1> QED
  BY <1>1, <1>2, <1>3, <1>4, LeadersKept DEF caches

(* A request begins or ends, and no goroutine notices.                      *)
LEMMA RequestKeeps ==
  ASSUME FrameInv, NEW r \in Request, NEW c \in AgentState, agent' = [agent EXCEPT ![r] = c],
         agent[r].at \in {"idle", "answered", "fill"}, c.at \in {"idle", "ask", "fill"},
         c.at # "idle" => c.s \in Session, c.at = "fill" => context[c.s] \in Epoch,
         cancelled' = cancelled \/ cancelled' = cancelled \ {r},
         UNCHANGED <<fresh, sessions, caches, prefetching, lifecycle>>
  PROVE  FrameInv'
<1>1. /\ agent' \in [Agent -> AgentState] /\ agent'[r] = c
      /\ \A b \in Agent : b # r => agent'[b] = agent[b]
      /\ \A h \in Prefetcher : agent'[h] = agent[h]
      /\ RendersCoalesced'
  BY RequestMoved
<1>2. TypeOK'
  <2>1. TypeOK
    BY DEF FrameInv
  <2> QED
    BY <1>1, <2>1 DEF TypeOK, AgentState, At, Result, caches, prefetching, lifecycle
<1>3. AskersOK'
  <2>1. AskersOK /\ context' = context
    BY DEF FrameInv, prefetching
  <2>2. \A x \in Request : x \in Agent
    BY DEF Agent
  <2> QED
    BY <1>1, <2>1, <2>2 DEF AskersOK
<1>4. QueueOK'
  BY <1>1, QueuesKept DEF FrameInv, prefetching
<1>5. HelpersOK'
  <2>1. \A h \in Prefetcher : (Running(h)' <=> Running(h)) /\ (Cancelled(h)' <=> Cancelled(h))
    <3>1. \A h \in Prefetcher : Running(h)' <=> Running(h)
      BY <1>1 DEF Running
    <3>2. {r} \in SUBSET Request /\ {} \in SUBSET Request
      OBVIOUS
    <3>3. cancelled' = cancelled \ {} \/ cancelled' = cancelled \ {r}
      OBVIOUS
    <3>4. \A h \in Prefetcher : Cancelled(h)' <=> Cancelled(h)
      BY <3>2, <3>3, OnlyRequests
    <3> QED
      BY <3>1, <3>4
  <2> QED
    BY <2>1, HelpersKept DEF FrameInv, prefetching, lifecycle
<1> QED
  BY <1>1, <1>2, <1>3, <1>4, <1>5 DEF FrameInv

(* A request for a frame of any session, even one that is not there.        *)
LEMMA NewRequestKeeps == ASSUME FrameInv, NEW r \in Request, NewRequest(r) PROVE FrameInv'
<1>1. PICK s \in Session, f \in Frame :
        agent' = [agent EXCEPT ![r] = [Idle EXCEPT !.at = "ask", !.s = s, !.f = f]]
  BY DEF NewRequest
<1> DEFINE c == [Idle EXCEPT !.at = "ask", !.s = s, !.f = f]
<1>2. c \in AgentState /\ c.at = "ask" /\ c.s = s
  BY IdleTyped DEF AgentState, At
<1>3. /\ agent[r].at = "idle"
      /\ UNCHANGED <<fresh, sessions, caches, prefetching, cancelled, lifecycle>>
  BY DEF NewRequest
<1> HIDE DEF c
<1>4. agent' = [agent EXCEPT ![r] = c]
  BY <1>1 DEF c
<1> QED
  BY <1>2, <1>3, <1>4, RequestKeeps

(* The handler returns.                                                     *)
LEMMA ReturnKeeps ==
  ASSUME FrameInv, NEW r \in Request, Return(r), agent[r].at \in {"answered", "fill"},
         UNCHANGED <<fresh, sessions, caches, prefetching, lifecycle>>
  PROVE  FrameInv'
BY IdleTyped, RequestKeeps DEF Return

(* Answers without a context to open.                                       *)
LEMMA RefusedKeeps == ASSUME FrameInv, NEW r \in Request, Refused(r) PROVE FrameInv'
BY ReturnKeeps DEF Refused

(* Nor when there is nothing to prefetch.                                   *)
LEMMA SkipPrefetchKeeps == ASSUME FrameInv, NEW r \in Request, SkipPrefetch(r) PROVE FrameInv'
BY ReturnKeeps DEF SkipPrefetch

(* The goroutines of an opened context are new: none of it was running, and *)
(* those of the session's other contexts had been told to end.              *)
LEMMA PrefetchKeeps == ASSUME FrameInv, NEW r \in Request, Prefetch(r) PROVE FrameInv'
<1> DEFINE s == agent[r].s
           c == [agent[r] EXCEPT !.at = "fill", !.next = 1]
           filling == [agent EXCEPT ![r] = c]
<1>1. /\ agent \in [Agent -> AgentState] /\ TypeOK /\ RendersCoalesced /\ AskersOK /\ QueueOK /\ HelpersOK
      /\ r \in Agent /\ agent[r] \in AgentState /\ agent[r].at = "answered" /\ s \in Session
  BY AgentsTyped DEF FrameInv, AskersOK, Prefetch, Agent
<1>2. c \in AgentState /\ c.at = "fill" /\ c.s = s
  BY <1>1 DEF AgentState, At
<1>3. /\ UNCHANGED <<fresh, sessions, caches, lifecycle>> /\ MayPrefetch(s)
      /\ [agent EXCEPT ![r].at = "fill", ![r].next = 1] = filling
  BY <1>1 DEF Prefetch
<1>4. CASE HasContext(s) /\ agent' = filling /\ UNCHANGED <<prefetching, cancelled>>
  <2>1. context[s] \in Epoch
    BY <1>1, <1>4 DEF HasContext, TypeOK
  <2> HIDE DEF c
  <2> QED
    BY <1>1, <1>2, <1>3, <1>4, <2>1, RequestKeeps
<1>5. ASSUME NEW e \in Epoch, ~HasContext(s),
             \A h \in Helper : ~Running(<<s, e, h>>),
             context' = [context EXCEPT ![s] = e],
             cancelled' = cancelled \ {<<s, e>>},
             jobs' = [jobs EXCEPT ![<<s, e>>] = << >>],
             queued' = [queued EXCEPT ![<<s, e>>] = {}],
             agent' = [a \in Agent |-> IF a \in Request THEN filling[a]
                                       ELSE IF a[1] = s /\ a[2] = e THEN Idle ELSE agent[a]]
      PROVE  FrameInv'
  <2>1. /\ agent'[r] = c
        /\ \A x \in Request : x # r => agent'[x] = agent[x]
        /\ \A h \in Prefetcher : agent'[h] = (IF h[1] = s /\ h[2] = e THEN Idle ELSE agent[h])
    <3>1. \A a \in Request : agent'[a] = filling[a]
      BY <1>5 DEF Agent
    <3>2. \A a \in Prefetcher : agent'[a] = (IF a[1] = s /\ a[2] = e THEN Idle ELSE agent[a])
      BY <1>5, HelperContext
    <3> HIDE DEF c
    <3>3. filling[r] = c /\ \A x \in Request : x # r => filling[x] = agent[x]
      BY <1>1 DEF Agent
    <3> QED
      BY <3>1, <3>2, <3>3
  <2> HIDE DEF c
  <2>2. agent' \in [Agent -> AgentState]
    <3>1. DOMAIN agent' = Agent /\ agent' = [a \in Agent |-> agent'[a]]
      BY <1>5
    <3>2. \A a \in Agent : agent'[a] \in AgentState
      BY <1>1, <1>2, <2>1, IdleTyped DEF Agent
    <3> QED
      BY <3>1, <3>2
  <2>3. \A h \in Prefetcher : h[1] = s /\ h[2] = e => agent[h].at = "gone" /\ agent'[h].at = "idle"
    <3>1. SUFFICES ASSUME NEW h \in Prefetcher, h[1] = s, h[2] = e
                   PROVE  agent[h].at = "gone" /\ agent'[h].at = "idle"
      OBVIOUS
    <3>2. h = <<s, e, h[3]>> /\ h[3] \in Helper
      BY <3>1 DEF Prefetcher
    <3> QED
      BY <1>5, <2>1, <3>1, <3>2, IdleTyped, SMTT(60) DEF Running
  <2>4. TypeOK'
    <3>1. /\ context' \in [Session -> Epoch \union {None}]
          /\ cancelled' \subseteq Request \union (Session \X Epoch)
          /\ jobs' \in [Session \X Epoch -> Seq(Frame)]
          /\ queued' \in [Session \X Epoch -> SUBSET Frame]
      BY <1>1, <1>5 DEF TypeOK
    <3>2. agent' \in [Agent -> [at : {"gone", "idle", "ask", "follow", "woken", "slot", "render", "finish",
              "answered", "fill"},
            s : Session \union {None}, f : Frame, leader : Agent \union {None},
            result : {"none", "png", "failed", "canceled", "missing"}, next : Nat]]
      BY <2>2 DEF AgentState, At, Result
    <3> QED
      BY <1>1, <1>3, <3>1, <3>2 DEF TypeOK, caches, lifecycle
  <2>5. RendersCoalesced'
    <3>1. \A b \in Agent :
           /\ (agent'[b].at \in Leading) <=> (agent[b].at \in Leading)
           /\ agent'[b].at \in Leading => agent'[b].s = agent[b].s /\ agent'[b].f = agent[b].f
           /\ agent'[b].at = "follow" =>
                \/ agent'[b] = agent[b]
                \/ pending[agent'[b].s][agent'[b].f] = agent'[b].leader /\ agent'[b].leader # None
      <4>1. SUFFICES ASSUME NEW b \in Agent
                     PROVE  agent'[b] = agent[b] \/
                            (agent[b].at \in {"gone", "answered"} /\ agent'[b].at \in {"idle", "fill"})
        BY DEF Leading
      <4>2. CASE b \in Request
        BY <1>1, <1>2, <2>1, <4>2
      <4>3. CASE b \in Prefetcher
        BY <2>1, <2>3, <4>3
      <4> QED
        BY <4>2, <4>3 DEF Agent
    <3> QED
      BY <1>1, <1>3, <3>1, LeadersKept DEF caches
  <2>6. AskersOK'
    <3>1. context' \in [Session -> Epoch \union {None}] /\ \A x \in Session : context[x] \in Epoch => context'[x] \in Epoch
      BY <1>1, <1>5 DEF TypeOK
    <3>2. context'[s] = e
      BY <1>1, <1>5 DEF TypeOK
    <3>3. ASSUME NEW b \in Agent, agent'[b].at \notin {"idle", "gone"} PROVE agent'[b].s \in Session
      <4>1. CASE b \in Request
        BY <1>1, <1>2, <2>1, <3>3, <4>1 DEF AskersOK
      <4>2. CASE b \in Prefetcher
        BY <1>1, <2>1, <2>3, <3>3, <4>2 DEF AskersOK
      <4> QED
        BY <4>1, <4>2 DEF Agent
    <3>4. ASSUME NEW x \in Request, agent'[x].at = "fill" PROVE context'[agent'[x].s] \in Epoch
      <4>1. CASE x = r
        BY <1>2, <2>1, <3>2, <4>1
      <4>2. CASE x # r
        <5>1. agent[x].at = "fill" /\ agent'[x].s = agent[x].s /\ x \in Agent
          BY <2>1, <3>4, <4>2 DEF Agent
        <5>2. agent[x].s \in Session /\ context[agent[x].s] \in Epoch
          BY <1>1, <5>1 DEF AskersOK
        <5> QED
          BY <3>1, <5>1, <5>2
      <4> QED
        BY <4>1, <4>2
    <3>5. \A h \in Prefetcher : agent'[h].at # "fill"
      BY <1>1, <2>1, <2>3 DEF AskersOK
    <3> QED
      BY <3>3, <3>4, <3>5 DEF AskersOK
  <2>7. QueueOK'
    <3>1. SUFFICES ASSUME NEW k \in Key
                   PROVE  /\ queued'[k] = Elements(jobs'[k]) \union {agent'[h].f : h \in Workers(k)'}
                          /\ Distinct(jobs'[k])
                          /\ \A h \in Workers(k)' : agent'[h].f \notin Elements(jobs'[k])
                          /\ \A h, g \in Workers(k)' : agent'[h].f = agent'[g].f => h = g
      BY DEF QueueOK
    <3>2. CASE k = <<s, e>>
      <4>1. Workers(k)' = {}
        BY <2>3, <3>2, HelperContext DEF Workers
      <4>2. jobs'[k] = << >> /\ queued'[k] = {}
        BY <1>1, <1>5, <3>2 DEF TypeOK, Key
      <4> QED
        BY <4>1, <4>2 DEF Elements, Distinct
    <3>3. CASE k # <<s, e>>
      <4>1. \A h \in Prefetcher : ContextOf(h) = k => agent'[h] = agent[h]
        BY <2>1, <3>3, HelperContext
      <4>2. Workers(k)' = Workers(k) /\ \A h \in Workers(k) : agent'[h].f = agent[h].f
        BY <4>1 DEF Workers
      <4>3. jobs'[k] = jobs[k] /\ queued'[k] = queued[k]
        BY <1>1, <1>5, <3>3 DEF TypeOK, Key
      <4>4. {agent'[h].f : h \in Workers(k)} = {agent[h].f : h \in Workers(k)}
        BY <4>2
      <4> QED
        BY <1>1, <4>2, <4>3, <4>4 DEF QueueOK
    <3> QED
      BY <3>2, <3>3
  <2>8. HelpersOK'
    <3>1. UNCHANGED <<sessions, stopped, closer>> /\ s \in sessions /\ ~stopped
      BY <1>3 DEF lifecycle, MayPrefetch
    <3>2. /\ context'[s] = e
          /\ \A x \in Session : x # s => context'[x] = context[x]
      BY <1>1, <1>5 DEF TypeOK
    <3>3. ASSUME NEW h \in Prefetcher, Running(h)'
          PROVE  Cancelled(h)' \/ (h[1] \in sessions /\ context'[h[1]] = h[2] /\ ~stopped)
      <4>1. CASE h[1] = s /\ h[2] = e
        BY <3>1, <3>2, <4>1
      <4>2. CASE ~(h[1] = s /\ h[2] = e)
        <5>1. agent'[h] = agent[h] /\ Running(h)
          BY <2>1, <3>3, <4>2 DEF Running
        <5>2. Cancelled(h) \/ (h[1] \in sessions /\ context[h[1]] = h[2] /\ ~stopped)
          BY <1>1, <5>1 DEF HelpersOK
        <5>3. Cancelled(h) => Cancelled(h)'
          BY <1>5, <4>2, HelperContext DEF Cancelled
        <5>4. CASE h[1] = s /\ context[s] = h[2]
          BY <1>5, <5>3, <5>4, HelperContext, RequestsAssumption DEF HasContext, Cancelled
        <5>5. CASE h[1] # s
          BY <3>2, <5>2, <5>3, <5>5, HelperContext
        <5> QED
          BY <5>2, <5>3, <5>4, <5>5
      <4> QED
        BY <4>1, <4>2
    <3> QED
      BY <3>1, <3>3 DEF HelpersOK
  <2> QED
    BY <2>4, <2>5, <2>6, <2>7, <2>8 DEF FrameInv
<1>6. QED
  <2>1. CASE HasContext(s)
    BY <1>3, <1>4, <2>1 DEF Prefetch
  <2>2. CASE ~HasContext(s)
    <3>1. PICK e \in Epoch :
             /\ \A h \in Helper : ~Running(<<s, e, h>>)
             /\ context' = [context EXCEPT ![s] = e]
             /\ cancelled' = cancelled \ {<<s, e>>}
             /\ jobs' = [jobs EXCEPT ![<<s, e>>] = << >>]
             /\ queued' = [queued EXCEPT ![<<s, e>>] = {}]
             /\ agent' = [a \in Agent |-> IF a \in Request THEN [agent EXCEPT ![r].at = "fill", ![r].next = 1][a]
                                       ELSE IF a[1] = s /\ a[2] = e THEN Idle ELSE agent[a]]
      BY <2>2 DEF Prefetch
    <3> HIDE DEF c
    <3> QED
      BY <1>3, <1>5, <2>2, <3>1
  <2> QED
    BY <2>1, <2>2

-----------------------------------------------------------------------------
(* The queues of prefetch.                                                  *)

(* A set of numbers has a least one.                                        *)
LEMMA MinNat == ASSUME NEW S \in SUBSET Nat, S # {} PROVE Min(S) \in S /\ \A y \in S : Min(S) <= y
<1> DEFINE R == OpToRel(<, Nat)
<1>1. \A y, x \in Nat : <<y, x>> \in R \/ x <= y
  BY DEF OpToRel
<1>2. IsWellFoundedOn(R, Nat)
  BY NatLessThanWellFounded
<1> HIDE DEF R
<1>3. PICK x \in S : \A y \in S : ~(<<y, x>> \in R)
  BY <1>2, WFMin
<1>4. \A y \in S : x <= y
  BY <1>1, <1>3
<1> QED
  BY <1>4 DEF Min

(* The frames ahead are frames.                                             *)
LEMMA WantedAhead ==
  ASSUME NEW r \in Request, agent[r].f \in Frame, Wanted(r) # {}
  PROVE  /\ Min(Wanted(r)) \in Wanted(r) /\ Min(Wanted(r)) \in Nat
         /\ Ahead(agent[r].f, Min(Wanted(r))) \in Frame
<1>1. Reach \subseteq Nat
  BY DEF Reach
<1>2. Wanted(r) \subseteq Reach
  BY DEF Wanted
<1>3. Min(Wanted(r)) \in Wanted(r) /\ Min(Wanted(r)) \in Nat
  BY <1>1, <1>2, MinNat
<1> DEFINE o == Min(Wanted(r))
<1> HIDE DEF o
<1>4. \A x, y \in Nat : (x + y) % Frames \in Frame
  BY RequestsAssumption DEF Frame
<1>5. agent[r].f \in Nat /\ o \in Nat
  BY <1>3 DEF Frame, o
<1> QED
  BY <1>3, <1>4, <1>5 DEF Ahead, o

(* A frame joins the queue behind the others.                               *)
LEMMA Appended ==
  ASSUME NEW S, NEW q \in Seq(S), NEW x \in S, Distinct(q), x \notin Elements(q)
  PROVE  /\ Append(q, x) \in Seq(S) /\ Elements(Append(q, x)) = Elements(q) \union {x}
         /\ Distinct(Append(q, x))
<1> DEFINE n == Len(q)
           z == Append(q, x)
<1>1. /\ n \in Nat /\ DOMAIN q = 1 .. n /\ z \in Seq(S) /\ DOMAIN z = 1 .. (n + 1)
      /\ z[n + 1] = x /\ \A i \in 1 .. n : z[i] = q[i]
  BY AppendProperties, LenProperties
<1> HIDE DEF z, n
<1>2. \A i \in DOMAIN z : i = n + 1 \/ i \in DOMAIN q
  BY <1>1
<1>3. n + 1 \in DOMAIN z /\ \A i \in DOMAIN q : i \in DOMAIN z /\ z[i] = q[i]
  BY <1>1
<1>4. Elements(z) = Elements(q) \union {x}
  BY <1>1, <1>2, <1>3 DEF Elements
<1>5. \A i \in DOMAIN q : q[i] # x
  BY DEF Elements
<1>6. Distinct(z)
  BY <1>1, <1>2, <1>3, <1>5 DEF Distinct
<1> QED
  BY <1>1, <1>4, <1>6 DEF z

(* The first of a queue leaves it.                                          *)
LEMMA Taken ==
  ASSUME NEW S, NEW q \in Seq(S), q # << >>, Distinct(q)
  PROVE  /\ Head(q) \in S /\ Tail(q) \in Seq(S) /\ Elements(q) = Elements(Tail(q)) \union {Head(q)}
         /\ Head(q) \notin Elements(Tail(q)) /\ Distinct(Tail(q))
<1> DEFINE n == Len(q)
           z == Tail(q)
<1>1. /\ n \in Nat \ {0} /\ DOMAIN q = 1 .. n /\ z \in Seq(S) /\ DOMAIN z = 1 .. (n - 1)
      /\ Head(q) = q[1] /\ \A i \in 1 .. (n - 1) : z[i] = q[i + 1]
  <2>1. n \in Nat /\ DOMAIN q = 1 .. n /\ n # 0
    BY LenProperties, EmptySeq
  <2>2. z \in Seq(S) /\ Len(z) = n - 1 /\ Head(q) = q[1] /\ \A i \in 1 .. Len(z) : z[i] = q[i + 1]
    BY HeadTailProperties
  <2> QED
    BY <2>1, <2>2, LenProperties
<1> HIDE DEF z, n
<1>2. 1 \in DOMAIN q /\ Head(q) \in S
  BY <1>1, ElementOfSeq
<1>3. \A i \in DOMAIN z : i + 1 \in DOMAIN q /\ i + 1 # 1 /\ z[i] = q[i + 1] /\ i \in Int
  BY <1>1
<1>4. \A i \in DOMAIN q : i = 1 \/ (i - 1 \in DOMAIN z /\ z[i - 1] = q[i])
  BY <1>1
<1>5. Elements(q) = Elements(z) \union {Head(q)}
  <2>1. \A i \in DOMAIN q : q[i] \in Elements(z) \union {Head(q)}
    BY <1>1, <1>4 DEF Elements
  <2>2. \A i \in DOMAIN z : z[i] \in Elements(q)
    BY <1>3 DEF Elements
  <2>3. Head(q) \in Elements(q)
    BY <1>1, <1>2 DEF Elements
  <2> QED
    BY <2>1, <2>2, <2>3 DEF Elements
<1>6. Head(q) \notin Elements(z)
  <2>1. \A i \in DOMAIN z : z[i] # q[1]
    BY <1>2, <1>3 DEF Distinct
  <2> QED
    BY <1>1, <2>1 DEF Elements
<1>7. Distinct(z)
  <2>1. SUFFICES ASSUME NEW i \in DOMAIN z, NEW j \in DOMAIN z, z[i] = z[j] PROVE i = j
    BY DEF Distinct
  <2>2. i + 1 = j + 1
    BY <1>3, <2>1 DEF Distinct
  <2> QED
    BY <1>3, <2>2
<1> QED
  BY <1>1, <1>2, <1>5, <1>6, <1>7 DEF z

(* A request queues a frame that nobody has, renders or has queued, or ends. *)
LEMMA FillKeeps == ASSUME FrameInv, NEW r \in Request, Fill(r) PROVE FrameInv'
<1> DEFINE s == agent[r].s
           k == <<s, context[s]>>
           n == Min(Wanted(r))
           f == Ahead(agent[r].f, n)
           c == [agent[r] EXCEPT !.next = n + 1]
<1>1. /\ agent \in [Agent -> AgentState] /\ TypeOK /\ AskersOK /\ QueueOK /\ HelpersOK
      /\ agent[r] \in AgentState /\ agent[r].at = "fill" /\ agent[r].f \in Frame
      /\ s \in Session /\ k \in Key
  <2>1. agent \in [Agent -> AgentState] /\ TypeOK /\ AskersOK /\ QueueOK /\ HelpersOK /\ r \in Agent
    BY AgentsTyped DEF FrameInv, Agent
  <2>2. agent[r].at = "fill" /\ agent[r] \in AgentState /\ agent[r].f \in Frame
    BY <2>1, AgentFields DEF Fill
  <2> QED
    BY <2>1, <2>2 DEF AskersOK, Key
<1>2. UNCHANGED <<fresh, sessions, caches, context, lifecycle>>
  BY DEF Fill
<1>3. CASE Return(r) /\ UNCHANGED <<jobs, queued>>
  BY <1>1, <1>2, <1>3, ReturnKeeps DEF prefetching
<1>4. CASE /\ Wanted(r) # {}
           /\ jobs' = [jobs EXCEPT ![k] = Append(@, f)]
           /\ queued' = [queued EXCEPT ![k] = @ \union {f}]
           /\ agent' = [agent EXCEPT ![r].next = n + 1]
           /\ UNCHANGED cancelled
  <2>1. n \in Wanted(r) /\ n \in Nat /\ f \in Frame
    BY <1>1, <1>4, WantedAhead
  <2>2. f \notin queued[k]
    BY <2>1 DEF Wanted
  <2>3. jobs[k] \in Seq(Frame) /\ queued[k] \in SUBSET Frame
    BY <1>1 DEF TypeOK, Key
  <2>4. Distinct(jobs[k]) /\ f \notin Elements(jobs[k]) /\ \A h \in Workers(k) : agent[h].f # f
    BY <1>1, <2>2 DEF QueueOK
  <2> DEFINE q == Append(jobs[k], f)
  <2>5. q \in Seq(Frame) /\ Elements(q) = Elements(jobs[k]) \union {f} /\ Distinct(q)
    BY <2>1, <2>3, <2>4, Appended
  <2>6. c \in AgentState /\ c.at = "fill" /\ c.s = s
    BY <1>1, <2>1 DEF AgentState
  <2>7. agent' = [agent EXCEPT ![r] = c]
    BY <1>1, <1>4
  <2> HIDE DEF c, n, f
  <2>8. /\ agent' \in [Agent -> AgentState] /\ agent'[r] = c
        /\ \A b \in Agent : b # r => agent'[b] = agent[b]
        /\ \A h \in Prefetcher : agent'[h] = agent[h]
        /\ RendersCoalesced'
    BY <1>1, <1>2, <2>6, <2>7, RequestMoved
  <2>9. /\ jobs' = [jobs EXCEPT ![k] = q] /\ queued' = [queued EXCEPT ![k] = queued[k] \union {f}]
    BY <1>4
  <2> HIDE DEF q
  <2>10. TypeOK'
    <3>1. jobs' \in [Session \X Epoch -> Seq(Frame)] /\ queued' \in [Session \X Epoch -> SUBSET Frame]
      BY <1>1, <2>1, <2>5, <2>9 DEF TypeOK
    <3> QED
      BY <1>1, <1>2, <1>4, <2>8, <3>1 DEF TypeOK, AgentState, At, Result, caches, lifecycle
  <2>11. AskersOK'
    <3>1. context[s] \in Epoch /\ context' = context
      BY <1>1, <1>2 DEF AskersOK
    <3>2. \A x \in Request : x \in Agent
      BY DEF Agent
    <3> QED
      BY <1>1, <2>6, <2>8, <3>1, <3>2 DEF AskersOK
  <2>12. QueueOK'
    <3>1. \A x : Workers(x)' = Workers(x) /\ \A h \in Workers(x) : agent'[h] = agent[h]
      BY <2>8 DEF Workers
    <3>2. SUFFICES ASSUME NEW x \in Key
                   PROVE  /\ queued'[x] = Elements(jobs'[x]) \union {agent'[h].f : h \in Workers(x)}
                          /\ Distinct(jobs'[x])
                          /\ \A h \in Workers(x) : agent'[h].f \notin Elements(jobs'[x])
                          /\ \A h, g \in Workers(x) : agent'[h].f = agent'[g].f => h = g
      BY <3>1 DEF QueueOK
    <3>3. {agent'[h].f : h \in Workers(x)} = {agent[h].f : h \in Workers(x)}
      BY <3>1
    <3>4. /\ queued[x] = Elements(jobs[x]) \union {agent[h].f : h \in Workers(x)}
          /\ Distinct(jobs[x])
          /\ \A h \in Workers(x) : agent[h].f \notin Elements(jobs[x])
          /\ \A h, g \in Workers(x) : agent[h].f = agent[g].f => h = g
      BY <1>1 DEF QueueOK
    <3>5. CASE x = k
      <4>1. jobs'[x] = q /\ queued'[x] = queued[x] \union {f}
        BY <1>1, <2>9, <3>5 DEF TypeOK, Key
      <4>2. queued'[x] = Elements(jobs'[x]) \union {agent'[h].f : h \in Workers(x)}
        BY <2>5, <3>3, <3>4, <3>5, <4>1
      <4>3. \A h \in Workers(x) : agent'[h].f = agent[h].f /\ agent[h].f # f
        BY <2>4, <3>1, <3>5
      <4>4. \A h \in Workers(x) : agent'[h].f \notin Elements(jobs'[x])
        BY <2>5, <3>4, <3>5, <4>1, <4>3
      <4> QED
        BY <2>5, <3>4, <4>1, <4>2, <4>3, <4>4
    <3>6. CASE x # k
      <4>1. jobs'[x] = jobs[x] /\ queued'[x] = queued[x]
        BY <1>1, <2>9, <3>6 DEF TypeOK, Key
      <4> QED
        BY <3>1, <3>3, <3>4, <4>1
    <3> QED
      BY <3>5, <3>6
  <2>13. HelpersOK'
    <3>1. \A h \in Prefetcher : (Running(h)' <=> Running(h)) /\ (Cancelled(h)' <=> Cancelled(h))
      BY <1>4, <2>8 DEF Running, Cancelled
    <3> QED
      BY <1>1, <1>2, <3>1, HelpersKept DEF lifecycle
  <2> QED
    BY <2>8, <2>10, <2>11, <2>12, <2>13 DEF FrameInv
<1> QED
  BY <1>3, <1>4 DEF Fill

(* A goroutine begins or ends a job, or returns; everyone else stays.       *)
LEMMA HelperMoved ==
  ASSUME FrameInv, NEW h \in Prefetcher, NEW c \in AgentState, agent' = [agent EXCEPT ![h] = c],
         agent[h].at \in {"idle", "answered"}, c.at \in {"idle", "ask", "gone"},
         c.at = "ask" => c.s \in Session,
         UNCHANGED <<fresh, sessions, caches, context, cancelled, lifecycle>>,
         jobs' \in [Key -> Seq(Frame)], queued' \in [Key -> SUBSET Frame]
  PROVE  /\ agent' \in [Agent -> AgentState] /\ agent'[h] = c
         /\ \A b \in Agent : b # h => agent'[b] = agent[b]
         /\ TypeOK' /\ AskersOK' /\ RendersCoalesced' /\ HelpersOK'
<1>1. /\ agent \in [Agent -> AgentState] /\ TypeOK /\ AskersOK /\ RendersCoalesced /\ HelpersOK
      /\ h \in Agent /\ h \notin Request
  BY AgentsTyped, HelperContext DEF FrameInv
<1>2. /\ agent' \in [Agent -> AgentState] /\ agent'[h] = c
      /\ \A b \in Agent : b # h => agent'[b] = agent[b]
  BY <1>1, AgentMoved
<1>3. TypeOK'
  BY <1>1, <1>2 DEF TypeOK, AgentState, At, Result, Key, caches, lifecycle
<1>4. AskersOK'
  <2>1. \A x \in Request : x \in Agent /\ x # h
    BY <1>1 DEF Agent
  <2>2. \A g \in Prefetcher : g \in Agent
    BY DEF Agent
  <2> QED
    BY <1>1, <1>2, <2>1, <2>2 DEF AskersOK
<1>5. RendersCoalesced'
  <2>1. \A b \in Agent :
           /\ (agent'[b].at \in Leading) <=> (agent[b].at \in Leading)
           /\ agent'[b].at \in Leading => agent'[b].s = agent[b].s /\ agent'[b].f = agent[b].f
           /\ agent'[b].at = "follow" =>
                \/ agent'[b] = agent[b]
                \/ pending[agent'[b].s][agent'[b].f] = agent'[b].leader /\ agent'[b].leader # None
    BY <1>2 DEF Leading
  <2> QED
    BY <1>1, <2>1, LeadersKept DEF caches
<1>6. HelpersOK'
  <2>1. \A g \in Prefetcher : g \in Agent
    BY DEF Agent
  <2>2. \A g \in Prefetcher : (Running(g)' => Running(g)) /\ (Cancelled(g) => Cancelled(g)')
    BY <1>2, <2>1 DEF Running, Cancelled
  <2> QED
    BY <1>1, <2>2, HelpersKept DEF lifecycle
<1> QED
  BY <1>2, <1>3, <1>4, <1>5, <1>6

(* The first of the queue passes into the hands of a goroutine.             *)
LEMMA TakeJobKeeps == ASSUME FrameInv, NEW h \in Prefetcher, TakeJob(h) PROVE FrameInv'
<1> DEFINE k == ContextOf(h)
           f == Head(jobs[k])
           c == [Idle EXCEPT !.at = "ask", !.s = h[1], !.f = f]
<1>1. /\ agent \in [Agent -> AgentState] /\ TypeOK /\ QueueOK /\ h \in Agent /\ h[1] \in Session /\ k \in Key
      /\ agent[h].at = "idle" /\ jobs[k] # << >>
      /\ jobs \in [Key -> Seq(Frame)] /\ queued \in [Key -> SUBSET Frame]
  BY AgentsTyped, HelperContext DEF FrameInv, TakeJob, TypeOK, Key
<1>2. /\ UNCHANGED <<fresh, sessions, caches, context, cancelled, queued, lifecycle>>
      /\ agent' = [agent EXCEPT ![h] = c] /\ jobs' = [jobs EXCEPT ![k] = Tail(jobs[k])]
  BY DEF TakeJob
<1>3. /\ f \in Frame /\ Tail(jobs[k]) \in Seq(Frame) /\ Elements(jobs[k]) = Elements(Tail(jobs[k])) \union {f}
      /\ f \notin Elements(Tail(jobs[k])) /\ Distinct(Tail(jobs[k]))
  <2>1. jobs[k] \in Seq(Frame) /\ Distinct(jobs[k])
    BY <1>1 DEF QueueOK
  <2> QED
    BY <1>1, <2>1, Taken
<1> HIDE DEF f, k
<1>4. c \in AgentState /\ c.at = "ask" /\ c.s = h[1] /\ c.f = f
  BY <1>1, <1>3, IdleTyped DEF AgentState, At
<1> HIDE DEF c
<1>5. jobs' \in [Key -> Seq(Frame)] /\ queued' \in [Key -> SUBSET Frame]
  BY <1>1, <1>2, <1>3
<1>6. /\ agent' \in [Agent -> AgentState] /\ agent'[h] = c
      /\ \A b \in Agent : b # h => agent'[b] = agent[b]
      /\ TypeOK' /\ AskersOK' /\ RendersCoalesced' /\ HelpersOK'
  BY <1>1, <1>2, <1>4, <1>5, HelperMoved
<1>7. QueueOK'
  <2>1. \A g \in Prefetcher : g \in Agent
    BY DEF Agent
  <2>2. SUFFICES ASSUME NEW x \in Key
                 PROVE  /\ queued'[x] = Elements(jobs'[x]) \union {agent'[g].f : g \in Workers(x)'}
                        /\ Distinct(jobs'[x])
                        /\ \A g \in Workers(x)' : agent'[g].f \notin Elements(jobs'[x])
                        /\ \A g, i \in Workers(x)' : agent'[g].f = agent'[i].f => g = i
    BY DEF QueueOK
  <2>3. /\ queued[x] = Elements(jobs[x]) \union {agent[g].f : g \in Workers(x)}
        /\ Distinct(jobs[x])
        /\ \A g \in Workers(x) : agent[g].f \notin Elements(jobs[x])
        /\ \A g, i \in Workers(x) : agent[g].f = agent[i].f => g = i
    BY <1>1 DEF QueueOK
  <2>4. h \notin Workers(x) /\ \A g \in Workers(x) : agent'[g] = agent[g]
    BY <1>1, <1>6, <2>1 DEF Workers
  <2>5. CASE x = k
    <3>1. Workers(x)' = Workers(x) \union {h}
      BY <1>4, <1>6, <2>1, <2>4, <2>5 DEF Workers, k
    <3>2. jobs'[x] = Tail(jobs[x]) /\ queued'[x] = queued[x]
      BY <1>1, <1>2, <2>5
    <3>3. {agent'[g].f : g \in Workers(x)'} = {agent[g].f : g \in Workers(x)} \union {f}
      BY <1>4, <1>6, <2>4, <3>1
    <3>4. f \in Elements(jobs[x])
      BY <1>3, <2>5
    <3> QED
      BY <1>3, <1>4, <1>6, <2>3, <2>4, <2>5, <3>1, <3>2, <3>3, <3>4
  <2>6. CASE x # k
    <3>1. Workers(x)' = Workers(x)
      BY <1>6, <2>1, <2>4, <2>6 DEF Workers, k
    <3>2. jobs'[x] = jobs[x] /\ queued'[x] = queued[x]
      BY <1>1, <1>2, <2>6
    <3>3. {agent'[g].f : g \in Workers(x)'} = {agent[g].f : g \in Workers(x)}
      BY <2>4, <3>1
    <3> QED
      BY <2>3, <2>4, <3>1, <3>2, <3>3
  <2> QED
    BY <2>5, <2>6
<1> QED
  BY <1>6, <1>7 DEF FrameInv

(* The job of a goroutine is done, and its frame no longer marked.          *)
LEMMA JobDoneKeeps == ASSUME FrameInv, NEW h \in Prefetcher, JobDone(h) PROVE FrameInv'
<1> DEFINE k == ContextOf(h)
           f == agent[h].f
<1>1. /\ agent \in [Agent -> AgentState] /\ TypeOK /\ QueueOK /\ h \in Agent /\ k \in Key
      /\ agent[h].at = "answered"
      /\ jobs \in [Key -> Seq(Frame)] /\ queued \in [Key -> SUBSET Frame]
  BY AgentsTyped, HelperContext DEF FrameInv, JobDone, TypeOK, Key
<1>2. /\ UNCHANGED <<fresh, sessions, caches, context, jobs, cancelled, lifecycle>>
      /\ agent' = [agent EXCEPT ![h] = Idle] /\ queued' = [queued EXCEPT ![k] = queued[k] \ {f}]
  BY DEF JobDone, Unmarked
<1> HIDE DEF f, k
<1>3. jobs' \in [Key -> Seq(Frame)] /\ queued' \in [Key -> SUBSET Frame]
  BY <1>1, <1>2
<1>4. /\ agent' \in [Agent -> AgentState] /\ agent'[h] = Idle
      /\ \A b \in Agent : b # h => agent'[b] = agent[b]
      /\ TypeOK' /\ AskersOK' /\ RendersCoalesced' /\ HelpersOK'
  BY <1>1, <1>2, <1>3, IdleTyped, HelperMoved
<1>5. QueueOK'
  <2>1. \A g \in Prefetcher : g \in Agent
    BY DEF Agent
  <2>2. SUFFICES ASSUME NEW x \in Key
                 PROVE  /\ queued'[x] = Elements(jobs'[x]) \union {agent'[g].f : g \in Workers(x)'}
                        /\ Distinct(jobs'[x])
                        /\ \A g \in Workers(x)' : agent'[g].f \notin Elements(jobs'[x])
                        /\ \A g, i \in Workers(x)' : agent'[g].f = agent'[i].f => g = i
    BY DEF QueueOK
  <2>3. /\ queued[x] = Elements(jobs[x]) \union {agent[g].f : g \in Workers(x)}
        /\ Distinct(jobs[x])
        /\ \A g \in Workers(x) : agent[g].f \notin Elements(jobs[x])
        /\ \A g, i \in Workers(x) : agent[g].f = agent[i].f => g = i
    BY <1>1 DEF QueueOK
  <2>4. Workers(x)' = Workers(x) \ {h} /\ \A g \in Workers(x) \ {h} : agent'[g] = agent[g]
    BY <1>4, <2>1, IdleTyped DEF Workers
  <2>5. jobs'[x] = jobs[x]
    BY <1>2
  <2>6. {agent'[g].f : g \in Workers(x)'} = {agent[g].f : g \in Workers(x) \ {h}}
    BY <2>4
  <2>7. CASE x = k
    <3>1. h \in Workers(x)
      BY <1>1, <2>7 DEF Workers, k
    <3>2. queued'[x] = queued[x] \ {f}
      BY <1>1, <1>2, <2>7
    <3>3. {agent[g].f : g \in Workers(x) \ {h}} = {agent[g].f : g \in Workers(x)} \ {f}
      BY <2>3, <3>1 DEF f
    <3>4. f \notin Elements(jobs[x])
      BY <2>3, <3>1 DEF f
    <3> QED
      BY <2>3, <2>4, <2>5, <2>6, <3>2, <3>3, <3>4
  <2>8. CASE x # k
    <3>1. h \notin Workers(x)
      BY <2>8 DEF Workers, k
    <3>2. queued'[x] = queued[x] /\ Workers(x) \ {h} = Workers(x)
      BY <1>1, <1>2, <2>8, <3>1
    <3> QED
      BY <2>3, <2>4, <2>5, <2>6, <3>2
  <2> QED
    BY <2>7, <2>8
<1> QED
  BY <1>4, <1>5 DEF FrameInv

(* A goroutine of a cancelled context returns.                              *)
LEMMA HelperExitKeeps == ASSUME FrameInv, NEW h \in Prefetcher, HelperExit(h) PROVE FrameInv'
<1>1. /\ agent \in [Agent -> AgentState] /\ QueueOK
      /\ agent[h].at = "idle" /\ agent' = [agent EXCEPT ![h] = Gone]
      /\ jobs \in [Key -> Seq(Frame)] /\ queued \in [Key -> SUBSET Frame]
  BY AgentsTyped DEF FrameInv, HelperExit, TypeOK, Key
<1>2. UNCHANGED <<fresh, sessions, caches, context, jobs, queued, cancelled, lifecycle>>
  BY DEF HelperExit, prefetching
<1>3. /\ agent' \in [Agent -> AgentState] /\ agent'[h] = Gone
      /\ \A b \in Agent : b # h => agent'[b] = agent[b]
      /\ TypeOK' /\ AskersOK' /\ RendersCoalesced' /\ HelpersOK'
  BY <1>1, <1>2, IdleTyped, HelperMoved
<1>4. QueueOK'
  <2>1. \A g \in Prefetcher : /\ g \in Agent
                              /\ (agent'[g].at \in {"idle", "gone"}) <=> (agent[g].at \in {"idle", "gone"})
                              /\ agent'[g].f = agent[g].f \/ agent'[g].at \in {"idle", "gone"}
    BY <1>1, <1>3, IdleTyped DEF Agent
  <2> QED
    BY <1>1, <1>2, <2>1, QueuesKept
<1> QED
  BY <1>3, <1>4 DEF FrameInv

-----------------------------------------------------------------------------
(* Clients, sessions and the server.                                        *)

(* Nobody moves: renders and queues stay as they are.                       *)
LEMMA NobodyMoves ==
  ASSUME FrameInv, UNCHANGED <<pending, prefetching, agent>>
  PROVE  AskersOK' /\ RendersCoalesced' /\ QueueOK'
<1>1. \A b \in Agent, s \in Session, f \in Frame : Leads(b, s, f)' <=> Leads(b, s, f)
  BY DEF Leads
<1> QED
  BY <1>1, QueuesKept DEF FrameInv, AskersOK, RendersCoalesced, prefetching

(* The client goes away.                                                    *)
LEMMA DisconnectKeeps == ASSUME FrameInv, NEW r \in Request, Disconnect(r) PROVE FrameInv'
<1>1. cancelled' = cancelled \union {r} /\ UNCHANGED <<fresh, sessions, caches, prefetching, agent, lifecycle>>
  BY DEF Disconnect
<1>2. TypeOK'
  BY <1>1 DEF FrameInv, TypeOK, caches, prefetching, lifecycle
<1>3. AskersOK' /\ RendersCoalesced' /\ QueueOK'
  BY <1>1, NobodyMoves DEF caches
<1>4. HelpersOK'
  <2>1. \A h \in Prefetcher : (Running(h)' <=> Running(h)) /\ (Cancelled(h) => Cancelled(h)')
    BY <1>1 DEF Running, Cancelled
  <2> QED
    BY <1>1, <2>1, HelpersKept DEF FrameInv, prefetching, lifecycle
<1> QED
  BY <1>2, <1>3, <1>4 DEF FrameInv

(* A new session has no goroutines yet, and takes none from the others.     *)
LEMMA AdmitKeeps == ASSUME FrameInv, NEW s \in Session, Admit(s) PROVE FrameInv'
<1>1. /\ s \in fresh /\ fresh' = fresh \ {s} /\ sessions' = sessions \union {s}
      /\ pngs' \in [Session -> SUBSET Frame]
      /\ UNCHANGED <<pending, prefetching, cancelled, agent, lifecycle>>
  BY DEF Admit
<1>2. TypeOK'
  BY <1>1 DEF FrameInv, TypeOK, prefetching, lifecycle
<1>3. AskersOK' /\ RendersCoalesced' /\ QueueOK'
  BY <1>1, NobodyMoves
<1>4. HelpersOK'
  <2>1. \A h \in Prefetcher : (Running(h)' <=> Running(h)) /\ (Cancelled(h)' <=> Cancelled(h))
    BY <1>1 DEF Running, Cancelled
  <2> QED
    BY <1>1, <2>1 DEF FrameInv, HelpersOK, prefetching, lifecycle
<1> QED
  BY <1>2, <1>3, <1>4 DEF FrameInv

(* What ends with sessions is their contexts.                               *)
LEMMA ContextsTyped ==
  ASSUME TypeOK, NEW S \in SUBSET Session
  PROVE  /\ Ended(S) \subseteq Key
         /\ \A s \in S : context[s] # None => <<s, context[s]>> \in Ended(S)
BY DEF TypeOK, Ended, Contexts, Key

(* The goroutines of a deleted session are told to end.                     *)
LEMMA DeleteKeeps == ASSUME FrameInv, NEW s \in Session, Delete(s) PROVE FrameInv'
<1>1. /\ s \in sessions /\ sessions' = sessions \ {s} /\ cancelled' = cancelled \union Ended({s})
      /\ UNCHANGED <<fresh, caches, prefetching, agent, lifecycle>>
      /\ TypeOK /\ HelpersOK
  BY DEF Delete, FrameInv
<1>2. /\ Ended({s}) \subseteq Session \X Epoch
      /\ context[s] # None => <<s, context[s]>> \in Ended({s})
  BY <1>1, ContextsTyped DEF Key
<1>3. TypeOK'
  BY <1>1, <1>2 DEF TypeOK, caches, prefetching, lifecycle
<1>4. AskersOK' /\ RendersCoalesced' /\ QueueOK'
  BY <1>1, NobodyMoves DEF caches
<1>5. HelpersOK'
  <2>1. UNCHANGED <<context, stopped, closer, agent>>
    BY <1>1 DEF prefetching, lifecycle
  <2>2. \A h \in Prefetcher : (Running(h)' <=> Running(h)) /\ (Cancelled(h) => Cancelled(h)')
    BY <1>1 DEF Running, Cancelled
  <2>3. ASSUME NEW h \in Prefetcher, Running(h)'
        PROVE  Cancelled(h)' \/ (h[1] \in sessions' /\ context'[h[1]] = h[2] /\ ~stopped')
    <3>1. CASE h[1] = s /\ context[s] = h[2]
      <4>1. <<h[1], h[2]>> \in Ended({s})
        BY <1>2, <3>1, HelperContext, RequestsAssumption
      <4> QED
        BY <1>1, <4>1, HelperContext DEF Cancelled
    <3>2. CASE ~(h[1] = s /\ context[s] = h[2])
      BY <1>1, <2>1, <2>2, <2>3, <3>2 DEF HelpersOK
    <3> QED
      BY <3>1, <3>2
  <2> QED
    BY <1>1, <2>1, <2>2, <2>3 DEF HelpersOK
<1> QED
  BY <1>3, <1>4, <1>5 DEF FrameInv

(* Start, when nothing is being closed.                                     *)
LEMMA StartKeeps == ASSUME FrameInv, Start PROVE FrameInv'
<1>1. /\ server' = "up" /\ stopped' = FALSE /\ closer' = closer
      /\ UNCHANGED <<fresh, sessions, caches, prefetching, cancelled, agent>>
      /\ TypeOK /\ HelpersOK
  BY DEF Start, FrameInv
<1>2. TypeOK'
  BY <1>1 DEF TypeOK, caches, prefetching
<1>3. AskersOK' /\ RendersCoalesced' /\ QueueOK'
  BY <1>1, NobodyMoves DEF caches
<1>4. HelpersOK'
  <2>1. \A h \in Prefetcher : (Running(h)' <=> Running(h)) /\ (Cancelled(h)' <=> Cancelled(h))
    BY <1>1 DEF Running, Cancelled
  <2> QED
    BY <1>1, <2>1 DEF HelpersOK, prefetching
<1> QED
  BY <1>2, <1>3, <1>4 DEF FrameInv

(* Close tells every goroutine to end.                                      *)
LEMMA CloseBeginKeeps == ASSUME FrameInv, CloseBegin PROVE FrameInv'
<1>1. /\ stopped' = TRUE /\ cancelled' = cancelled \union Ended(sessions)
      /\ server' = (IF server = "up" THEN "closing" ELSE server) /\ closer' = "prefetch"
      /\ UNCHANGED <<fresh, sessions, caches, prefetching, agent>>
      /\ TypeOK /\ HelpersOK
  BY DEF CloseBegin, FrameInv
<1>2. /\ Ended(sessions) \subseteq Session \X Epoch
      /\ \A s \in sessions : context[s] # None => <<s, context[s]>> \in Ended(sessions)
  <2>1. sessions \in SUBSET Session
    BY <1>1 DEF TypeOK
  <2> QED
    BY <1>1, <2>1, ContextsTyped DEF Key
<1>3. TypeOK'
  BY <1>1, <1>2 DEF TypeOK, caches, prefetching
<1>4. AskersOK' /\ RendersCoalesced' /\ QueueOK'
  BY <1>1, NobodyMoves DEF caches
<1>5. HelpersOK'
  <2>1. \A h \in Prefetcher : Running(h)' => Cancelled(h)'
    <3>1. SUFFICES ASSUME NEW h \in Prefetcher, Running(h)' PROVE Cancelled(h)'
      OBVIOUS
    <3>2. Cancelled(h) \/ (h[1] \in sessions /\ context[h[1]] = h[2])
      BY <1>1, <3>1 DEF HelpersOK, Running
    <3>3. h[2] # None
      BY HelperContext, RequestsAssumption
    <3> QED
      BY <1>1, <1>2, <3>2, <3>3, HelperContext DEF Cancelled
  <2> QED
    BY <1>1, <2>1 DEF HelpersOK
<1> QED
  BY <1>3, <1>4, <1>5 DEF FrameInv

(* Close has waited for the goroutines, and goes on.                        *)
LEMMA CloseStepKeeps == ASSUME FrameInv, CloseStep PROVE FrameInv'
<1>1. /\ UNCHANGED <<fresh, sessions, caches, prefetching, agent, stopped>> /\ TypeOK /\ HelpersOK
      /\ closer' \in {"none", "shutdown"} /\ server' \in {"up", "closing", "down"}
  BY DEF CloseStep, CloseListener, CloseReturn, FrameInv, TypeOK
<1>2. cancelled \subseteq cancelled' /\ cancelled' \subseteq Request \union (Session \X Epoch)
  BY <1>1 DEF CloseStep, CloseListener, CloseReturn, InFlight, TypeOK
<1>3. TypeOK'
  BY <1>1, <1>2 DEF TypeOK, caches, prefetching
<1>4. AskersOK' /\ RendersCoalesced' /\ QueueOK'
  BY <1>1, NobodyMoves DEF caches
<1>5. HelpersOK'
  <2>1. \A h \in Prefetcher : (Running(h)' <=> Running(h)) /\ (Cancelled(h) => Cancelled(h)')
    BY <1>1, <1>2 DEF Running, Cancelled
  <2>2. stopped => \A h \in Prefetcher : ~Running(h)
    BY <1>1 DEF CloseStep, CloseListener, CloseReturn, PrefetchDone, Helpers, HelpersOK
  <2> QED
    BY <1>1, <2>1, <2>2 DEF HelpersOK, prefetching
<1> QED
  BY <1>3, <1>4, <1>5 DEF FrameInv

(* Every step keeps the invariant.                                          *)
LEMMA FrameStep == FrameInv /\ [Next]_vars => FrameInv'
<1> SUFFICES ASSUME FrameInv, [Next]_vars PROVE FrameInv'
  OBVIOUS
<1>1. ASSUME NEW r \in Request, RequestStep(r) \/ NewRequest(r) \/ Disconnect(r) PROVE FrameInv'
  BY <1>1, FramePNGKeeps, RefusedKeeps, SkipPrefetchKeeps, PrefetchKeeps, FillKeeps, NewRequestKeeps,
     DisconnectKeeps DEF RequestStep, Agent
<1>2. ASSUME NEW h \in Prefetcher, HelperStep(h) PROVE FrameInv'
  BY <1>2, FramePNGKeeps, TakeJobKeeps, JobDoneKeeps, HelperExitKeeps DEF HelperStep, Agent
<1>3. ASSUME NEW s \in Session, Admit(s) \/ Delete(s) PROVE FrameInv'
  BY <1>3, AdmitKeeps, DeleteKeeps
<1>4. CASE UNCHANGED vars
  <2>1. UNCHANGED <<fresh, sessions, pngs, pending, context, cancelled, jobs, queued, agent, server, stopped, closer>>
    BY <1>4 DEF vars, caches, prefetching, lifecycle
  <2>2. TypeOK'
    BY <2>1 DEF FrameInv, TypeOK
  <2>3. AskersOK' /\ RendersCoalesced' /\ QueueOK'
    BY <2>1, NobodyMoves DEF prefetching
  <2>4. HelpersOK'
    BY <2>1, HelpersKept DEF FrameInv, Running, Cancelled
  <2> QED
    BY <2>2, <2>3, <2>4 DEF FrameInv
<1> QED
  BY <1>1, <1>2, <1>3, <1>4, StartKeeps, CloseBeginKeeps, CloseStepKeeps DEF Next

-----------------------------------------------------------------------------
(* The invariant holds, and says what the runs check.                       *)

(* The strengthening that is inductive: who renders is registered, a queued *)
(* frame is once in the queue or with one goroutine, and a goroutine that   *)
(* has not been told to end belongs to the session's own context.           *)
THEOREM FrameInvariant == Spec => []FrameInv
<1>1. Init => FrameInv
  <2> SUFFICES ASSUME Init PROVE FrameInv
    OBVIOUS
  <2>1. /\ \A r \in Request : agent[r] = Idle /\ r \in Agent
        /\ \A h \in Prefetcher : agent[h] = Gone
    BY HelperContext DEF Init, Agent
  <2>2. agent \in [Agent -> AgentState]
    BY IdleTyped DEF Init
  <2>3. TypeOK
    <3>1. << >> \in Seq(Frame)
      BY EmptySeq
    <3>2. /\ jobs \in [Session \X Epoch -> Seq(Frame)] /\ queued \in [Session \X Epoch -> SUBSET Frame]
          /\ pngs \in [Session -> SUBSET Frame] /\ pending \in [Session -> [Frame -> Agent \union {None}]]
          /\ context \in [Session -> Epoch \union {None}]
      BY <3>1 DEF Init
    <3> QED
      BY <2>2, <3>2 DEF Init, TypeOK, AgentState, At, Result
  <2>4. AskersOK
    BY <2>1, IdleTyped DEF AskersOK, Agent
  <2>5. RendersCoalesced
    <3>1. \A a \in Agent : agent[a].at \in {"idle", "gone"} /\ a # None
      BY <2>1, IdleTyped, RequestsAssumption DEF Agent
    <3> QED
      BY <3>1 DEF Init, RendersCoalesced, Leads
  <2>6. QueueOK
    <3>1. \A k : Workers(k) = {}
      BY <2>1, IdleTyped DEF Workers
    <3> QED
      BY <3>1 DEF Init, QueueOK, Elements, Distinct, Key
  <2>7. HelpersOK
    BY <2>1, IdleTyped DEF HelpersOK, Running
  <2> QED
    BY <2>3, <2>4, <2>5, <2>6, <2>7 DEF FrameInv
<1> QED
  BY <1>1, FrameStep, PTL DEF Spec

(* framePNG coalesces renders: no frame is rendered twice at a time, and    *)
(* nobody follows a render that has ended.                                  *)
THEOREM RendersAreCoalesced == Spec => []RendersCoalesced
<1>1. FrameInv => RendersCoalesced
  BY DEF FrameInv
<1> QED
  BY <1>1, FrameInvariant, PTL

(* prefetchQueued holds the frames that are queued or worked on, and no     *)
(* others.                                                                  *)
THEOREM QueuesAreExact == Spec => []PrefetchAccounted
<1>1. FrameInv => PrefetchAccounted
  <2> SUFFICES ASSUME FrameInv, NEW c \in Key
               PROVE  queued[c] = {jobs[c][i] : i \in DOMAIN jobs[c]} \union Working(c)
    BY DEF PrefetchAccounted, Key
  <2>1. Working(c) = {agent[h].f : h \in Workers(c)}
    BY DEF Working, Workers, Helpers, Running
  <2> QED
    BY <2>1 DEF FrameInv, QueueOK, Elements
<1> QED
  BY <1>1, FrameInvariant, PTL

\* A frame is in one place: once in the queue, or with one goroutine.
Exclusive ==
  \A c \in Key :
    /\ Distinct(jobs[c])
    /\ \A h \in Workers(c) : agent[h].f \notin Elements(jobs[c])
    /\ \A h, g \in Workers(c) : agent[h].f = agent[g].f => h = g

(* No frame of a context is prefetched twice: not queued again while it is  *)
(* queued or with a goroutine, nor with two goroutines at a time.           *)
THEOREM PrefetchedOnce == Spec => []Exclusive
<1>1. FrameInv => Exclusive
  BY DEF FrameInv, QueueOK, Exclusive
<1> QED
  BY <1>1, FrameInvariant, PTL

(* No prefetch goroutine outlives Close, or goes on for a session that is   *)
(* gone without having been told to end.                                    *)
THEOREM NobodyOutlivesClose == Spec => []CloseStopsPrefetch
<1>1. FrameInv => CloseStopsPrefetch
  <2>1. \A h \in Helpers : h \in Prefetcher /\ Running(h)
    BY DEF Helpers
  <2> QED
    BY <2>1 DEF FrameInv, HelpersOK, CloseStopsPrefetch, Helpers
<1> QED
  BY <1>1, FrameInvariant, PTL
=============================================================================
