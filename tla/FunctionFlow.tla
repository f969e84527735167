---------------------------- MODULE FunctionFlow ----------------------------
(***************************************************************************)
(* The control-flow pass of the decompiler (decompiler/src/cli/cfg) over   *)
(* the instructions of one function: cfg_build splits the range in blocks, *)
(* wires their edges, computes immediate dominators by iteration, marks    *)
(* loops, recovers jump tables and classifies regions.  An address is the  *)
(* number of an instruction of the function, from 0; a target outside is   *)
(* any other number.  Which instructions a function has is chosen.         *)
(***************************************************************************)
EXTENDS FlowGraph, Integers, SequencesExt

CONSTANTS
  Programs   \* [code: a sequence of instructions, table: jump table words]

\* A decoded instruction (PpcInsn), with the fields the passes look at.
Insn(op, rd, ra, imm, to) == [op |-> op, rd |-> rd, ra |-> ra, imm |-> imm, to |-> to]
Instructions == [op : STRING, rd : 0..31, ra : 0..31, imm : Int, to : Int]

\* cfg_build is given at least one instruction.
ASSUME ProgramsAssumption ==
  Programs \subseteq [code : Seq(Instructions) \ {<<>>}, table : Seq(Int)]

VARIABLES
  prog,         \* the function and the words of its jump table
  stage,        \* the pass that has just ended
  blocks,       \* Cfg.blocks: [start, end] of each
  edges,        \* Cfg.edges, in the order they are added
  path, seen,   \* the calls of dfs_post that are open, and its marks
  order,        \* reverse post-order of the blocks
  idom,         \* CfgBlock.idom, NoBlock for CFG_INVALID
  ri, changed,  \* the loop of cfg_compute_dominance
  loops,        \* headers, depth and exits
  switches,     \* blocks that end in a recovered table
  regions       \* kind and merge of each block, and the flag

flowVars == <<prog, stage, blocks, edges, path, seen, order, idom, ri, changed,
              loops, switches, regions>>

code == prog.code
Here == 0 .. Len(code) - 1
At(va) == code[va + 1]
BlockIds == DOMAIN blocks
Ending(b) == At(blocks[b].end - 1)

Nothing == <<>>

FlowInit ==
  /\ prog \in Programs
  /\ stage = "none"
  /\ blocks = <<>> /\ edges = <<>>
  /\ path = <<>> /\ seen = {} /\ order = <<>> /\ idom = <<>>
  /\ ri = 0 /\ changed = FALSE
  /\ loops = Nothing /\ switches = {} /\ regions = Nothing

-----------------------------------------------------------------------------
(* Blocks and edges *)

\* collect_leaders, sorted and without duplicates
Leaders ==
  {0}
  \cup {At(va).to : va \in {v \in Here : At(v).op \in {"B", "BC"} /\ At(v).to \in Here}}
  \cup {va + 1 : va \in {v \in Here : At(v).op \in {"B", "BC", "BLR", "BCTR"}
                                      /\ v + 1 \in Here}}

\* The first leader from va on, the end of the function where there is none.
LeaderFrom(va) ==
  LET after == {l \in Leaders \cup {Len(code)} : l >= va}
  IN  CHOOSE l \in after : \A m \in after : l <= m

Split ==
  LET starts[i \in 1 .. Cardinality(Leaders)] ==
        IF i = 1 THEN LeaderFrom(0) ELSE LeaderFrom(starts[i - 1] + 1)
  IN  [i \in 1 .. Cardinality(Leaders) |->
         [start |-> starts[i], end |-> LeaderFrom(starts[i] + 1)]]

\* cfg_block_of_vaddr: only the first address of a block finds it.
BlockOf(bs, va) ==
  LET found == {i \in DOMAIN bs : bs[i].start = va}
  IN  IF found = {} THEN NoBlock ELSE CHOOSE i \in found : TRUE

Edge(b, to, kind) == [from |-> b, to |-> to, kind |-> kind]

\* The edges the last instruction of a block gives rise to.
EdgesFrom(bs, b) ==
  LET in == At(bs[b].end - 1)
      target == BlockOf(bs, in.to)
      next == BlockOf(bs, bs[b].end)
  IN  CASE in.op = "B" ->
             <<Edge(b, target, IF target = NoBlock THEN "return" ELSE "uncond")>>
        [] in.op = "BC" ->
             (IF target = NoBlock THEN <<>> ELSE <<Edge(b, target, "taken")>>)
             \o (IF next = NoBlock THEN <<>> ELSE <<Edge(b, next, "not_taken")>>)
        [] in.op = "BLR" -> <<Edge(b, NoBlock, "return")>>
        [] in.op = "BCTR" -> <<Edge(b, NoBlock, "unknown")>>
        [] OTHER -> <<Edge(b, next, IF next = NoBlock THEN "return" ELSE "fall")>>

SplitAndWire ==
  /\ stage = "none"
  /\ blocks' = Split
  /\ edges' = FlattenSeq([b \in DOMAIN Split |-> EdgesFrom(Split, b)])
  /\ stage' = "wired"
  /\ UNCHANGED <<prog, path, seen, order, idom, ri, changed, loops, switches, regions>>

-----------------------------------------------------------------------------
(* Dominance *)

\* build_rpo: the search starts from the entry.
StartOrder ==
  /\ stage = "wired"
  /\ path' = <<Entry>>
  /\ seen' = {Entry}
  /\ stage' = "order"
  /\ UNCHANGED <<prog, blocks, edges, order, idom, ri, changed, loops, switches, regions>>

\* Edge i leads from the block the search is in to one it has not met.
LeadsOn(i) == edges[i].from = Last(path) /\ edges[i].to \notin seen \cup {NoBlock}

\* dfs_post calls itself for the first such edge ...
Descend ==
  /\ stage = "order" /\ path # <<>>
  /\ \E i \in DOMAIN edges :
       /\ LeadsOn(i) /\ \A j \in 1 .. i - 1 : ~LeadsOn(j)
       /\ path' = Append(path, edges[i].to)
       /\ seen' = seen \cup {edges[i].to}
  /\ UNCHANGED <<prog, stage, blocks, edges, order, idom, ri, changed, loops, switches, regions>>

\* ... and writes the block down when there is none.  The list is turned round
\* at the end: what is written later comes first.
Leave ==
  /\ stage = "order" /\ path # <<>>
  /\ \A i \in DOMAIN edges : ~LeadsOn(i)
  /\ order' = <<Last(path)>> \o order
  /\ path' = Front(path)
  /\ UNCHANGED <<prog, stage, blocks, edges, seen, idom, ri, changed, loops, switches, regions>>

StartDominance ==
  /\ stage = "order" /\ path = <<>>
  /\ idom' = [b \in BlockIds |-> IF b = Entry THEN Entry ELSE NoBlock]
  /\ ri' = 1
  /\ changed' = FALSE
  /\ stage' = "dominance"
  /\ UNCHANGED <<prog, blocks, edges, path, seen, order, loops, switches, regions>>

Position(b) == CHOOSE i \in DOMAIN order : order[i] = b

\* The blocks that have an immediate dominator.
Placed == {b \in BlockIds : idom[b] # NoBlock}

\* intersect: two fingers walk up, the one further down the order first.
Intersect(b1, b2) ==
  LET meet[p \in Placed \X Placed] ==
        IF p[1] = p[2] THEN p[1]
        ELSE IF Position(p[1]) > Position(p[2]) THEN meet[<<idom[p[1]], p[2]>>]
        ELSE meet[<<p[1], idom[p[2]]>>]
  IN  meet[<<b1, b2>>]

\* What the predecessors that have an idom agree on.
NewIdom(b) ==
  LET agreed[n \in 0 .. Len(edges)] ==
        IF n = 0 THEN NoBlock
        ELSE IF edges[n].to # b \/ edges[n].from \notin Placed THEN agreed[n - 1]
        ELSE IF agreed[n - 1] = NoBlock THEN edges[n].from
        ELSE Intersect(edges[n].from, agreed[n - 1])
  IN  agreed[Len(edges)]

\* One round of the inner loop.
VisitBlock ==
  /\ stage = "dominance" /\ ri <= Len(order)
  /\ LET b == order[ri] IN
       IF b # Entry /\ NewIdom(b) \notin {NoBlock, idom[b]}
       THEN idom' = [idom EXCEPT ![b] = NewIdom(b)] /\ changed' = TRUE
       ELSE UNCHANGED <<idom, changed>>
  /\ ri' = ri + 1
  /\ UNCHANGED <<prog, stage, blocks, edges, path, seen, order, loops, switches, regions>>

\* bug: a loop that does not go round again.
NeverAgain(c) == stage' = "dominated" /\ UNCHANGED <<ri, changed>>

\* The outer loop goes round until nothing changes.
AgainIf(c) ==
  IF c THEN ri' = 1 /\ changed' = FALSE /\ UNCHANGED stage
  ELSE stage' = "dominated" /\ UNCHANGED <<ri, changed>>

EndRound ==
  /\ stage = "dominance" /\ ri > Len(order)
  /\ AgainIf(changed)
  /\ UNCHANGED <<prog, blocks, edges, path, seen, order, idom, loops, switches, regions>>

-----------------------------------------------------------------------------
(* Loops *)

IsAbove(a, b) == a \in Chain(idom, b)

\* cfg_classify_loops.  The depth of a block counts the headers above it,
\* itself not included, whether or not the block can return to them.
Headers == {e.to : e \in {x \in Arrows(edges) : IsAbove(x.to, x.from)}}
DepthOf(b) == Cardinality({h \in Headers \ {b} : IsAbove(h, b)})
Exits == {e.from : e \in {x \in Arrows(edges) : DepthOf(x.to) < DepthOf(x.from)}}

ClassifyLoops ==
  /\ stage = "dominated"
  /\ loops' = [headers |-> Headers, depth |-> [b \in BlockIds |-> DepthOf(b)],
               exits |-> Exits]
  /\ stage' = "loops"
  /\ UNCHANGED <<prog, blocks, edges, path, seen, order, idom, ri, changed, switches, regions>>

-----------------------------------------------------------------------------
(* Jump tables *)

WalkMax == 16   \* instructions find_table_base looks at
CasesMax == 256  \* words recover_cases reads

\* find_table_base walks back from the bctr: the addi or ori it accepts is
\* met after an addis to the same register, the last one it has passed, so
\* that it stands before it.  (The comment of cfg_switch.c has them the other
\* way round; that order is never accepted.)
HasTable(b) ==
  /\ Ending(b).op = "BCTR"
  /\ \E lo \in blocks[b].start .. blocks[b].end - 2 :
       \E hi \in lo + 1 .. blocks[b].end - 2 :
         /\ lo >= blocks[b].end - 1 - WalkMax
         /\ At(hi).op = "ADDIS" /\ At(hi).ra = 0
         /\ \A v \in lo + 1 .. hi - 1 : ~(At(v).op = "ADDIS" /\ At(v).ra = 0)
         /\ At(lo).op \in {"ADDI", "ORI"}
         /\ At(lo).ra = At(hi).rd /\ At(lo).rd = At(hi).rd

\* recover_cases: the words up to the first that is no address of code, or
\* past the sanity limit
Cases ==
  LET stops == {Len(prog.table) + 1, CasesMax + 1}
               \cup {i \in DOMAIN prog.table : prog.table[i] < 0}
  IN  SubSeq(prog.table, 1, (CHOOSE i \in stops : \A j \in stops : i <= j) - 1)

Tables == IF Cases = <<>> THEN {} ELSE {b \in BlockIds : HasTable(b)}

\* register_switch: entries that are not the start of a block are skipped.
CaseEdges(b) ==
  LET all == [i \in DOMAIN Cases |-> Edge(b, BlockOf(blocks, Cases[i]), "case")]
  IN  Chosen(all, {i \in DOMAIN all : all[i].to # NoBlock})

Unresolved == {i \in DOMAIN edges : ~(edges[i].from \in Tables /\ edges[i].kind = "unknown")}

RecoverSwitches ==
  /\ stage = "loops"
  /\ switches' = Tables
  /\ edges' = Chosen(edges, Unresolved)
              \o FlattenSeq([b \in BlockIds |-> IF b \in Tables THEN CaseEdges(b) ELSE <<>>])
  /\ stage' = "switches"
  /\ UNCHANGED <<prog, blocks, path, seen, order, idom, ri, changed, loops, regions>>

-----------------------------------------------------------------------------
(* Regions *)

\* The edges, by their index, that lead from b to a block.
Successors(b) == {i \in DOMAIN edges : edges[i].from = b /\ edges[i].to # NoBlock}

\* bug: the arms of a switch followed like any other edge.
ForwardToArms(b) == {i \in Successors(b) : ~IsAbove(edges[i].to, b)}

\* Back edges and the arms of a switch are not followed.
Forward(b) ==
  {i \in Successors(b) : edges[i].kind # "case" /\ ~IsAbove(edges[i].to, b)}

\* forward_succs: where the followed edges of b lead, in their order.
Arms(b) == Chosen([i \in DOMAIN edges |-> edges[i].to], Forward(b))

\* One block taken from the stack of forward_reach.
Popped(s) ==
  LET b == Last(s.stack)
      rest == Front(s.stack)
      grown == rest \o Chosen([i \in DOMAIN edges |-> edges[i].to],
                              {i \in Forward(b) : edges[i].to \notin s.mark \cup {b}})
  IN  CASE s.stack = <<>> -> s
        [] s.stack # <<>> /\ b \in s.mark -> [s EXCEPT !.stack = rest]
        [] OTHER -> [stack |-> grown, mark |-> s.mark \cup {b},
                     peak |-> IF Len(grown) > s.peak THEN Len(grown) ELSE s.peak]

\* forward_reach: what it marks, and how high its stack has grown.  A block
\* has two such edges at most, so the stack is empty after so many turns.
ForwardReach(b) ==
  LET after[n \in 0 .. 2 * Len(blocks) + 1] ==
        IF n = 0 THEN [stack |-> <<b>>, mark |-> {}, peak |-> 1] ELSE Popped(after[n - 1])
  IN  after[2 * Len(blocks) + 1]

\* One turn of the search of first_common, which stops at a marked block.
Searched(s, mark) ==
  LET b == Head(s.queue)
      new == {i \in Forward(b) : edges[i].to \notin s.seen
                /\ \A j \in Forward(b) : j < i => edges[j].to # edges[i].to}
  IN  IF s.queue = <<>> \/ b \in mark THEN s
      ELSE [queue |-> Tail(s.queue) \o Chosen([i \in DOMAIN edges |-> edges[i].to], new),
            seen |-> s.seen \cup {edges[i].to : i \in new}]

\* Every block enters the queue once, so as many turns as there are blocks will do.
FirstMarked(b, mark) ==
  LET after[n \in 0 .. Len(blocks)] ==
        IF n = 0 THEN [queue |-> <<b>>, seen |-> {b}] ELSE Searched(after[n - 1], mark)
      queue == after[Len(blocks)].queue
  IN  IF queue = <<>> THEN NoBlock ELSE Head(queue)

\* bug: the search begun on the side that is marked.
FirstCommonHere(s1, s2) == FirstMarked(s1, ForwardReach(s1).mark)

FirstCommon(s1, s2) == FirstMarked(s2, ForwardReach(s1).mark)

Region(kind, merge) == [kind |-> kind, merge |-> merge]

RegionOf(b) ==
  LET arms == Arms(b)
      merge == FirstCommon(arms[1], arms[2])
  IN  CASE b \in switches -> Region("switch", NoBlock)
        [] b \notin switches /\ b \in loops.headers -> Region("loop", NoBlock)
        [] b \notin switches \cup loops.headers /\ Len(arms) < 2 -> Region("linear", NoBlock)
        [] OTHER -> IF merge = NoBlock THEN Region("unstructured", NoBlock)
                    ELSE IF merge \in {arms[1], arms[2]} THEN Region("if", merge)
                    ELSE Region("if_else", merge)

Irreducible ==
  EntersLoopBody(Arrows(edges), [b \in BlockIds |-> Chain(idom, b)], loops.headers)

ClassifyRegions ==
  /\ stage = "switches"
  /\ regions' = [flagged |-> Irreducible,
                 of |-> [b \in BlockIds |->
                           IF Irreducible THEN Region("unstructured", NoBlock)
                           ELSE RegionOf(b)]]
  /\ stage' = "flow"
  /\ UNCHANGED <<prog, blocks, edges, path, seen, order, idom, ri, changed, loops, switches>>

FlowNext ==
  \/ SplitAndWire
  \/ StartOrder \/ Descend \/ Leave
  \/ StartDominance \/ VisitBlock \/ EndRound
  \/ ClassifyLoops
  \/ RecoverSwitches
  \/ ClassifyRegions

FlowSpec == FlowInit /\ [][FlowNext]_flowVars

-----------------------------------------------------------------------------
(* Properties *)

\* The graph the dominators were computed from: no jump table was known yet.
DominanceGraph == {e \in Arrows(edges) : e.kind # "case"}

\* cfg_compute_dominance: once the rounds have settled, the chain of a block
\* that can be reached holds exactly the blocks no path from the entry can
\* avoid, however the blocks are laid out and jump; one that cannot be reached
\* has no immediate dominator.
DominanceExact ==
  stage = "dominated" =>
    \A b \in BlockIds :
      IF b \in Reachable(BlockIds, DominanceGraph)
      THEN \A a \in BlockIds : IsAbove(a, b) <=> Dominates(BlockIds, DominanceGraph, a, b)
      ELSE idom[b] = NoBlock

\* forward_reach: its stack has one place per block and is pushed without a
\* look at its height; the arms of a conditional fill it to the last place.
StackFits ==
  stage = "flow" => \A b \in BlockIds : ForwardReach(b).peak <= Len(blocks)

\* What a block leads to without a back edge or the arm of a switch.
Onward(b) ==
  LET Holds(S) == b \in S /\ \A x \in S : \A i \in Forward(x) : edges[i].to \in S
  IN  {x \in BlockIds : \A S \in SUBSET BlockIds : Holds(S) => x \in S}

\* first_common: a conditional gets a merge exactly when its arms lead to a
\* common block, and the merge is one.
ArmsMeetAtMerge ==
  (stage = "flow" /\ ~regions.flagged) =>
    \A b \in BlockIds :
      LET arms == Arms(b)
          merge == regions.of[b].merge
          common == Onward(arms[1]) \cap Onward(arms[2])
      IN  regions.of[b].kind \in {"if", "if_else", "unstructured"} =>
            IF common = {} THEN regions.of[b].kind = "unstructured"
            ELSE merge \in common

\* detect_irreducible, what its test amounts to: code that cannot be reached, or
\* the arm of a switch, which the dominators do not know of, raises the flag; a
\* branch that can be taken never does, not even into a loop with two entries.
\* That is not what the comments say the flag is for: see IrreducibleIsFlagged.
FlagMeansDeadCode ==
  (stage = "flow" /\ regions.flagged) =>
    \E e \in Arrows(edges) :
      e.from \notin Reachable(BlockIds, DominanceGraph) \/ e.kind = "case"

\* The edges that do not lead back to a block no path to their tail avoids.
NotBack ==
  {e \in DominanceGraph : ~Dominates(BlockIds, DominanceGraph, e.to, e.from)}

\* Some loop can be gone round by such edges alone: it has several entries.
IrreducibleLoop ==
  \E S \in SUBSET Reachable(BlockIds, DominanceGraph) \ {{}} :
    \A b \in S : \E e \in NotBack : e.from \in S /\ e.to = b

\* What the comments say of the flag (cfg.h:16, cfg.h:101, cfg_dominance.c:145,
\* cfg_regions.c:87): a function with a loop of several entries gets it.
IrreducibleIsFlagged == (stage = "flow" /\ IrreducibleLoop) => regions.flagged
=============================================================================
