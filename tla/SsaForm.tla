------------------------------ MODULE SsaForm -------------------------------
(***************************************************************************)
(* The analysis the decompiler runs on the control-flow graph of a         *)
(* function (decompiler/src/cli/ssa): what each instruction defines and    *)
(* uses, what is live where blocks begin, where phi functions go, which    *)
(* registers hold constants, which stack slots are accessed and which      *)
(* calls have their result used.  The general registers are modelled; the  *)
(* floating-point ones take the same path through a second set of masks.   *)
(***************************************************************************)
EXTENDS FunctionFlow

CONSTANTS
  Half,         \* 2^16, the weight of an addis immediate
  BitOr(_, _)   \* the bitwise or of two words

ASSUME HalfAssumption == Half \in Nat \ {0}

Word == Half * Half

VARIABLES
  defs, uses,  \* SsaBlockInfo.gpr_defs, gpr_uses_before_def of each block
  live,        \* gpr_live_in
  phis,        \* gpr_phi
  consts,      \* [address -> constant] where const_valid
  slots,       \* accesses to each [off, op] of the stack
  calls        \* [address -> [args, returns]] of the call sites

ssaOwn == <<defs, uses, live, phis, consts, slots, calls>>
vars == <<flowVars, ssaOwn>>

SsaInit ==
  /\ FlowInit
  /\ defs = <<>> /\ uses = <<>> /\ live = <<>> /\ phis = <<>>
  /\ consts = <<>> /\ slots = {} /\ calls = <<>>

-----------------------------------------------------------------------------
(* Definitions, uses and liveness *)

\* compute_insn_effects.  An operand ra of 0 is the number zero, except in
\* a comparison and a move; what is not listed has no recorded effect.
Arithmetic == {"ADDI", "ADDIS", "MULLI"}
Loads == {"LWZ", "LBZ", "LHZ", "LMW"}
Stores == {"STW", "STB", "STH", "STMW"}

GprDef(in) ==
  CASE in.op \in Arithmetic \cup Loads \cup {"MR", "MFLR", "MFCTR"} -> {in.rd}
    [] in.op \in {"ORI", "ANDI_DOT"} -> {in.ra}
    [] in.op \in {"BL", "BLA"} -> {3}
    [] OTHER -> {}

GprUses(in) ==
  CASE in.op \in Arithmetic \cup Loads -> {in.ra} \ {0}
    [] in.op \in Stores -> {in.rd} \cup ({in.ra} \ {0})
    [] in.op \in {"LFS", "LFD", "STFS", "STFD"} -> {in.ra} \ {0}
    [] in.op \in {"ORI", "ANDI_DOT", "MTLR", "MTCTR"} -> {in.rd}
    [] in.op \in {"CMPWI", "MR"} -> {in.ra}
    [] OTHER -> {}

Body(b) == blocks[b].start .. blocks[b].end - 1

DefsOf(b) == UNION {GprDef(At(va)) : va \in Body(b)}
UsesBeforeDef(b) ==
  UNION {GprUses(At(va)) \ UNION {GprDef(At(v)) : v \in blocks[b].start .. va - 1} :
           va \in Body(b)}

Summarise ==
  /\ stage = "flow"
  /\ defs' = [b \in BlockIds |-> DefsOf(b)]
  /\ uses' = [b \in BlockIds |-> UsesBeforeDef(b)]
  /\ live' = uses'
  /\ stage' = "summary"
  /\ UNCHANGED <<prog, blocks, edges, path, seen, order, idom, ri, changed, loops,
                 switches, regions, phis, consts, slots, calls>>

\* live_out of a block
Leaving(l, b) == UNION {l[edges[i].to] : i \in Successors(b)}

\* bug: what leaves the block kept live although the block writes it.
LiveThrough(l, b) == uses[b] \cup Leaving(l, b)

LiveIn(l, b) == uses[b] \cup (Leaving(l, b) \ defs[b])

\* One round of the loop, from the last block to the first.
Sweep ==
  LET swept[n \in 0 .. Len(blocks)] ==
        IF n = 0 THEN live
        ELSE [swept[n - 1] EXCEPT ![Len(blocks) + 1 - n] =
                LiveIn(swept[n - 1], Len(blocks) + 1 - n)]
  IN  swept[Len(blocks)]

SolveLiveness ==
  /\ stage = "summary"
  /\ live' = Sweep
  /\ stage' = IF Sweep = live THEN "live" ELSE stage
  /\ UNCHANGED <<prog, blocks, edges, path, seen, order, idom, ri, changed, loops,
                 switches, regions, defs, uses, phis, consts, slots, calls>>

-----------------------------------------------------------------------------
(* Phi functions *)

Predecessors(b) == {i \in DOMAIN edges : edges[i].to = b}

\* The walk of compute_df, from a predecessor up to the idom of the join.
Below(b, stop) ==
  LET below[x \in BlockIds \cup {NoBlock}] ==
        IF x \in {stop, NoBlock} THEN {}
        ELSE IF idom[x] = x THEN {x} ELSE {x} \cup below[idom[x]]
  IN  below[b]

Frontier(b) ==
  {n \in BlockIds : Cardinality(Predecessors(n)) >= 2 /\
     \E i \in Predecessors(n) : b \in Below(edges[i].from, idom[n])}

\* bug: only the blocks that define the register place phis.
SpreadOnce(r, s) ==
  IF s.work = {} THEN s
  ELSE LET b == CHOOSE x \in s.work : TRUE
       IN  [work |-> s.work \ {b}, has |-> s.has \cup {n \in Frontier(b) : r \in live[n]}]

\* A block taken from the worklist of place_for_register: one that gets a phi
\* is a definition in its turn.
Spread(r, s) ==
  IF s.work = {} THEN s
  ELSE LET b == CHOOSE x \in s.work : TRUE
           new == {n \in Frontier(b) \ s.has : r \in live[n]}
       IN  [work |-> (s.work \ {b}) \cup new, has |-> s.has \cup new]

\* A block is put on the worklist when it defines the register and when it gets
\* a phi, so twice as many turns as there are blocks empty it.
PhiBlocks(r) ==
  LET after[n \in 0 .. 2 * Len(blocks)] ==
        IF n = 0 THEN [work |-> {b \in BlockIds : r \in defs[b]}, has |-> {}]
        ELSE Spread(r, after[n - 1])
  IN  after[2 * Len(blocks)].has

Registers == UNION {defs[b] \cup live[b] : b \in BlockIds}

PlacePhis ==
  /\ stage = "live"
  /\ LET at == [r \in Registers |-> PhiBlocks(r)]
     IN  phis' = [b \in BlockIds |-> {r \in Registers : b \in at[r]}]
  /\ stage' = "phis"
  /\ UNCHANGED <<prog, blocks, edges, path, seen, order, idom, ri, changed, loops,
                 switches, regions, defs, uses, live, consts, slots, calls>>

-----------------------------------------------------------------------------
(* Constants *)

NoConst == -1

\* What ssa_fold_prologue knows of the result, from what it knows of sources.
Folded(in, known) ==
  CASE in.op = "ADDIS" /\ in.ra = 0 -> (in.imm * Half) % Word
    [] in.op = "ADDI" /\ in.ra = 0 -> in.imm % Word
    [] in.op = "ADDIS" /\ in.ra # 0 /\ known[in.ra] # NoConst ->
         (known[in.ra] + in.imm * Half) % Word
    [] in.op = "ADDI" /\ in.ra # 0 /\ known[in.ra] # NoConst ->
         (known[in.ra] + in.imm) % Word
    [] in.op = "ORI" /\ known[in.rd] # NoConst -> BitOr(known[in.rd], in.imm)
    [] OTHER -> NoConst

\* bug: only the instructions that are folded change what is known.
KnownLonger(in, known) ==
  [r \in DOMAIN known |-> IF r \in GprDef(in) /\ in.op \in {"ADDI", "ADDIS", "ORI"}
                          THEN Folded(in, known) ELSE known[r]]

\* A definition replaces what was known of its register.
Known(in, known) == [r \in DOMAIN known |-> IF r \in GprDef(in) THEN Folded(in, known) ELSE known[r]]

\* What is known before each instruction of a block: nothing at its start.
Shadow(b) ==
  LET known[va \in Body(b)] ==
        IF va = blocks[b].start THEN [r \in 0..31 |-> NoConst]
        ELSE Known(At(va - 1), known[va - 1])
  IN  known

FoldPrologue ==
  /\ stage = "phis"
  /\ LET known == [b \in BlockIds |-> Shadow(b)]
         result == [va \in Here |-> LET b == CHOOSE x \in BlockIds : va \in Body(x)
                                    IN  Folded(At(va), known[b][va])]
     IN  consts' = Restrict(result, {va \in Here : result[va] # NoConst})
  /\ stage' = "constants"
  /\ UNCHANGED <<prog, blocks, edges, path, seen, order, idom, ri, changed, loops,
                 switches, regions, defs, uses, live, phis, slots, calls>>

-----------------------------------------------------------------------------
(* Stack slots and calls *)

Width(op) == CASE op \in {"LBZ", "STB"} -> 1 [] op \in {"LHZ", "STH"} -> 2 [] OTHER -> 4

\* ssa_map_stack_slots: one slot per displacement and width.
Access == {va \in Here : At(va).op \in Loads \cup Stores /\ At(va).ra = 1}
SlotAt(va) == [off |-> At(va).imm, width |-> Width(At(va).op)]

MapStackSlots ==
  /\ stage = "constants"
  /\ slots' = {[slot |-> SlotAt(va),
                stores |-> {v \in Access : SlotAt(v) = SlotAt(va) /\ At(v).op \in Stores},
                loads |-> {v \in Access : SlotAt(v) = SlotAt(va) /\ At(v).op \in Loads}] :
                va \in Access}
  /\ stage' = "slots"
  /\ UNCHANGED <<prog, blocks, edges, path, seen, order, idom, ri, changed, loops,
                 switches, regions, defs, uses, live, phis, consts, calls>>

ArgRegisters == 3 .. 10

\* r3 is read before the block writes it again, or leaves the block unwritten.
ResultUsed(b, va) ==
  LET after == va + 1 .. blocks[b].end - 1
      Rewritten(s) == \E v \in s : 3 \in GprDef(At(v))
  IN  \/ \E v \in after : 3 \in GprUses(At(v)) /\ ~Rewritten(va + 1 .. v - 1)
      \/ 3 \in Leaving(live, b) /\ ~Rewritten(after)

CallSite(b, va) ==
  [args |-> ArgRegisters \cap
              (live[b] \cup UNION {GprDef(At(v)) : v \in blocks[b].start .. va - 1}),
   returns |-> ResultUsed(b, va)]

ReconstructCalls ==
  /\ stage = "slots"
  /\ calls' = [va \in {v \in Here : At(v).op \in {"BL", "BLA"}} |->
                 CallSite(CHOOSE x \in BlockIds : va \in Body(x), va)]
  /\ stage' = "ssa"
  /\ UNCHANGED <<prog, blocks, edges, path, seen, order, idom, ri, changed, loops,
                 switches, regions, defs, uses, live, phis, consts, slots>>

SsaNext ==
  \/ FlowNext /\ UNCHANGED ssaOwn
  \/ Summarise \/ SolveLiveness
  \/ PlacePhis \/ FoldPrologue \/ MapStackSlots \/ ReconstructCalls

SsaSpec == SsaInit /\ [][SsaNext]_vars

-----------------------------------------------------------------------------
(* Properties *)

\* The addresses that may be executed after va.
Following(va) ==
  LET b == CHOOSE x \in BlockIds : va \in Body(x)
  IN  IF va + 1 < blocks[b].end THEN {va + 1}
      ELSE {blocks[edges[i].to].start : i \in Successors(b)}

\* The addresses from which some path reads r before it writes r.
ReadFrom(r) ==
  LET Holds(S) == \A va \in Here :
        \/ va \in S
        \/ /\ r \notin GprUses(At(va))
           /\ r \in GprDef(At(va)) \/ Following(va) \cap S = {}
  IN  {va \in Here : \A S \in SUBSET Here : Holds(S) => va \in S}

\* ssa_compute_defuse: the iteration over blocks finds exactly the registers
\* that some path of instructions from the block reads before writing them,
\* and a call is said to return something exactly when some path after it
\* reads r3 first.
LivenessExact ==
  stage = "ssa" =>
    \A r \in Registers :
      LET from == ReadFrom(r) IN
        /\ \A b \in BlockIds : r \in live[b] <=> blocks[b].start \in from
        /\ r = 3 => \A va \in DOMAIN calls : calls[va].returns <=> Following(va) \cap from # {}

\* The definition of r that holds at the end and at the start of a block, by
\* the blocks that define it, the phis and the immediate dominators.
AtStart(b, r) ==
  LET holds[x \in BlockIds] ==
        IF r \in phis[x] THEN <<"phi", x>>
        ELSE IF idom[x] \in {x, NoBlock} THEN <<"caller", x>>
        ELSE IF r \in defs[idom[x]] THEN <<"def", idom[x]>> ELSE holds[idom[x]]
  IN  holds[b]
AtEnd(b, r) == IF r \in defs[b] THEN <<"def", b>> ELSE AtStart(b, r)

\* ssa_place_phis: a register that is live where a block begins and has no
\* phi there has one definition, which every predecessor passes on.  The
\* entry is left out, which no phi is ever given for its second way in, and
\* so are functions with a jump table, whose arms came after the dominators.
OneDefinitionArrives ==
  (stage = "phis" /\ switches = {}) =>
    LET reached == Reachable(BlockIds, Arrows(edges))
    IN  \A e \in Arrows(edges) :
          (e.from \in reached /\ e.to # Entry) =>
            \A r \in live[e.to] \ phis[e.to] : AtEnd(e.from, r) = AtStart(e.to, r)

\* What the processor writes, and a call by the convention of its ABI: r0 and
\* r3 .. r12.  An instruction the decoder does not know may write anything.
WritesRd == Arithmetic \cup {"LWZ", "LBZ", "LHZ", "LHA", "MR", "MFLR", "MFCTR", "ADD",
                             "SUBF", "NEG", "MULLW", "MULHW", "MULHWU", "DIVW", "DIVWU"}
WritesRa == {"ORI", "ANDI_DOT", "RLWINM", "RLWIMI", "RLWNM", "AND", "OR", "XOR", "NAND",
             "NOR", "EQV", "ANDC", "ORC", "SLW", "SRW", "SRAW", "SRAWI", "STWU", "STBU",
             "STHU", "LFSU", "LFDU", "STFSU", "STFDU", "PSQ_LU", "PSQ_STU"}
WritesBoth == {"LWZU", "LBZU", "LHZU", "LHAU"}

Writes(in) ==
  CASE in.op \in WritesRd -> {in.rd}
    [] in.op \in WritesRa -> {in.ra}
    [] in.op \in WritesBoth -> {in.rd, in.ra}
    [] in.op = "LMW" -> in.rd .. 31
    [] in.op \in {"BL", "BLA"} -> {0} \cup 3 .. 12
    [] in.op = "UNKNOWN" -> 0..31
    [] OTHER -> {}

\* What the processor computes; unknown stands for what is loaded or returned,
\* and for the results of operations that are never folded.
Executed(in, file, unknown) ==
  LET base == IF in.ra = 0 THEN 0 ELSE file[in.ra]
      value == CASE in.op = "ADDI" -> (base + in.imm) % Word
                 [] in.op = "ADDIS" -> (base + in.imm * Half) % Word
                 [] in.op = "ORI" -> BitOr(file[in.rd], in.imm)
                 [] in.op = "MR" -> file[in.ra]
                 [] OTHER -> unknown
  IN  [r \in DOMAIN file |-> IF r \in Writes(in) THEN value ELSE file[r]]

\* The registers after va, when the block started with all of them at v.
FileAfter(b, va, v) ==
  LET file[x \in Body(b)] ==
        Executed(At(x), IF x = blocks[b].start THEN [r \in 0..31 |-> v] ELSE file[x - 1], v)
  IN  file[va]

\* The instructions the analysis knows all effects of, and what it misses of
\* the others: of a call all but r3, of a load of many registers all but the
\* first, of register arithmetic, rotates, logic and updates everything.
Followed == Arithmetic \cup {"LWZ", "LBZ", "LHZ", "ORI", "ANDI_DOT", "MR", "MFLR", "MFCTR"}
Unseen(in) ==
  CASE in.op \in Followed -> {}
    [] in.op = "LMW" -> Writes(in) \ {in.rd}
    [] in.op \in {"BL", "BLA"} -> Writes(in) \ {3}
    [] OTHER -> Writes(in)

\* Before x, the block changed r unseen, and not again in a way that is seen.
Stale(b, x, r) ==
  \E v \in blocks[b].start .. x - 1 :
    /\ r \in Unseen(At(v))
    /\ \A w \in v + 1 .. x - 1 : r \notin Writes(At(w)) \ Unseen(At(w))

\* ssa_fold_prologue: the constant attached to an instruction is what the
\* instruction computes, whatever the registers held where the block began and
\* whatever is loaded or returned in it, unless an instruction a constant was
\* attached to, up to this one, reads a register that was changed unseen.
ConstantsAreComputed ==
  stage = "ssa" =>
    \A b \in BlockIds : \A va \in Body(b) \cap DOMAIN consts : \A r \in Writes(At(va)) :
      (\A x \in DOMAIN consts \cap (blocks[b].start .. va) :
         \A q \in GprUses(At(x)) : ~Stale(b, x, q)) =>
        \A v \in {0, 1} : FileAfter(b, va, v)[r] = consts[va]
=============================================================================
