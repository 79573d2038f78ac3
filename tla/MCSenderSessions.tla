------------------------- MODULE MCSenderSessions -------------------------
(***************************************************************************)
(* An instance of SenderSessions for TLC: room for two sessions of two     *)
(* frames each and for five bytes, three of them PNGs of one session, and  *)
(* an allocator that hands out one to four bytes at a time, lowest first.  *)
(* Which bytes they are makes no difference: SizesView forgets it.         *)
(***************************************************************************)
EXTENDS SenderSessions, TLC

CONSTANTS s1, s2, s3, h1, h2

Ids == {s1, s2, s3}
Handlers == {h1, h2}
Bytes == 1 .. 10
LowestFirst(S) ==
  {B \in SUBSET S : Cardinality(B) \in 1 .. 4 /\ \A b \in B, c \in S : c < b => c \in B}

Sizes(s) ==
  <<Cardinality(raw[s]), [i \in Index |-> Cardinality(pngs[s][i])]>>
SizesView ==
  <<slot, handler, used, sessions, [s \in Id |-> Sizes(s)], order, pending,
    [mu EXCEPT !.png = {}], Cardinality(mu.png)>>

Symmetry == Permutations(Ids) \union Permutations(Handlers)
=============================================================================
