-------------------------- MODULE MCFrameRequests --------------------------
(***************************************************************************)
(* Instances of FrameRequests for TLC with one session and one render      *)
(* slot.  Safety: two requests, two frames, and the two goroutines of each *)
(* of two prefetch contexts.  Liveness: one request, three frames, and one *)
(* context with its two goroutines.                                        *)
(***************************************************************************)
EXTENDS FrameRequests, TLC

CONSTANTS s1, q1, q2, g1, g2, e1, e2

OneSession == {s1}
OneRequest == {q1}
TwoRequests == {q1, q2}
TwoHelpers == {g1, g2}
TwoEpochs == {e1, e2}
OneEpoch == {e1}
Symmetry ==
  Permutations(TwoRequests) \union Permutations(TwoHelpers) \union Permutations(TwoEpochs)

\* Nothing depends on what is left of a context without goroutines.
Used(c) == \E h \in Helpers : ContextOf(h) = c
Contents(f) == [c \in DOMAIN f |-> IF Used(c) THEN f[c] ELSE None]
LiveView ==
  <<fresh, sessions, caches, Contents(jobs), Contents(queued), agent, lifecycle,
    [s \in Session |-> IF HasContext(s) THEN context[s] ELSE None],
    {c \in cancelled : c \in Request \/ Used(c)}>>
=============================================================================
