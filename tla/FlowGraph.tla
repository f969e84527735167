----------------------------- MODULE FlowGraph ------------------------------
(***************************************************************************)
(* Control-flow graphs as the decompiler stores them                       *)
(* (decompiler/src/cli/cfg): blocks are the numbers 1 .. n with the entry  *)
(* first, and an edge is a record whose "to" is NoBlock when it leaves the *)
(* function.  Reachability and dominance are defined here by the sets of   *)
(* blocks that are closed under the edges, so that they do not depend on   *)
(* any algorithm; the walks of the code along immediate dominators are     *)
(* defined next to them.                                                   *)
(***************************************************************************)
EXTENDS Naturals, Sequences, FiniteSets

NoBlock == 0
Entry == 1

Arrows(edges) == {edges[i] : i \in {j \in DOMAIN edges : edges[j].to # NoBlock}}

\* The edges, or the targets, that a loop over the array keeps, in their order.
Chosen(list, indices) ==
  LET kept[n \in 0 .. Len(list)] ==
        IF n = 0 THEN <<>>
        ELSE IF n \in indices THEN Append(kept[n - 1], list[n]) ELSE kept[n - 1]
  IN  kept[Len(list)]

-----------------------------------------------------------------------------
(* What the words mean *)

\* S holds the entry and whatever its blocks lead to, passing over a.
ClosedWithout(S, E, a) ==
  /\ Entry # a => Entry \in S
  /\ \A e \in E : (e.from \in S /\ e.to # a) => e.to \in S

\* The blocks some path from the entry reaches without going through a.
Without(Blocks, E, a) ==
  {b \in Blocks : \A S \in SUBSET Blocks : ClosedWithout(S, E, a) => b \in S}

Reachable(Blocks, E) == Without(Blocks, E, NoBlock)

\* Every path from the entry to b goes through a.
Dominates(Blocks, E, a, b) ==
  b \in Reachable(Blocks, E) /\ b \notin Without(Blocks, E, a)

-----------------------------------------------------------------------------
(* What the code walks *)

\* The blocks met on the way up from b: b, idom[b], idom[idom[b]], ...
Chain(idom, b) ==
  LET above[x \in DOMAIN idom] ==
        IF idom[x] \in {x, NoBlock} THEN {x} ELSE {x} \cup above[idom[x]]
  IN  above[b]

\* bug: the same with the edges that arrive at the header itself.
ReachesLoop(E, above, headers) ==
  \E h \in headers, e \in E : h \in above[e.to] /\ h \notin above[e.from]

\* detect_irreducible: some edge enters what a loop header is above of,
\* other than at the header, from where the header is not above.
EntersLoopBody(E, above, headers) ==
  \E h \in headers, e \in E :
    e.to # h /\ h \in above[e.to] /\ h \notin above[e.from]
=============================================================================
