# Calynda for Wii: verification development

TLA+ models of this repository's code, TLC configurations that check them on
small instances, and TLAPS proofs. Paths below are relative to the repository.

Four parts are modelled. The Solite reactive runtime (`solite_runtime/`) is a few
hundred lines in which every call may call back into client code that calls the
library again. The libraries below emitted programs (`libs/`, `c_runtime/`) keep
pools, trees, rings and buffers of fixed size between calls. The compiler checks a
program and emits C, and the C runtime it links runs it. The decompiler computes
the control flow and the registers of a function by fixpoints over small graphs.

## 1. The system

| Component | State it keeps | Operations | Interacts with | What makes it correct |
|---|---|---|---|---|
| **Reactive core** `solite_runtime/src/solite_signal.c`, `solite_effect.c` | value and subscribers of each signal; observer stack (64); pending queue (256); batch depth; `pending`/`disposed` of each effect | create/get/set/dispose a signal; create/dispose an effect; batch start/end; flush | runs effect bodies, which call it again | reads are attributed to the right effect; no update is lost; nothing runs twice for one change, after disposal, or inside a batch; everything scheduled runs |
| **Memos** `solite_effect.c` | cached value | create, get, dispose | a memo is an effect | the cache is current when it matters |
| **Control flow** `solite_control_flow.c` | current child or children of each node, contents of the window | create and dispose `<Show>`, `<For>`; two effect bodies | a node is an effect; calls client render functions in mid-update | the window shows what the signals say, once, and nothing else |
| **Frame loop, click handlers** `solite_runtime.c`, `bridge/solite_gui_bridge.cpp` | mounted/unmount flags, table of 32 handlers, button states | mount, request unmount, register a handler; flush, update, poll, draw | calls client handlers, flushes effects | clicks are handled before the frame is drawn; a request to stop is honoured |
| Styles, GUI widgets `solite_style.c`, bridge | none | parsing, wrappers of libwiigui | | |
| **Physics** `libs/calynda_physics` | body pool (256, swap-remove), contacts (512), constraints (64), grid cells (16) | create/destroy bodies, step, constraints, character, raycast | collision callback runs client code inside the loops | indices and pointers stay valid; each touching pair is one contact |
| **Motion** `libs/calynda_motion`, `c_runtime/calynda_motion_bridge.c` | history ring (30), cooldown, last gesture of each remote | init, feed, thresholds, update once a frame | called with the number of a remote | one gesture per movement; gestures are what the samples say |
| **Scene graph** `libs/calynda_gfx3d/gfx3d_scene.c` | tree of nodes, visibility, queue of transparent nodes (256) | create, destroy, link, unlink, set mesh, cull, render | called by game code | the tree is a tree; a frame draws each node that is to be drawn, once, in order |
| **Miis** `c_runtime/calynda_mii.c`, `mii.c` | static array of Miis, count, read flag | load from file, load from remote, read fields | wiiuse answers a read from its own code, late or never | indices mean Miis of the last load; a wait ends for its own answer |
| Other 3D code `libs/calynda_gfx3d`, math `libs/calynda_math` | textures, particles, models | load, draw; vector algebra | hardware | |
| **Calynda runtime** `compiler/src/c_runtime` | registry of objects, statics of packages | create objects, load members and elements, call a callable by kind | runs emitted code | a word is taken for what it is; a kind reaches its package |
| **Compiler** `compiler/src/{tokenizer,parser,ast,sema,hir,c_emit,cli,backend}` | tokens, trees, symbols, marks of resolution | one pass after the other | emitted code calls the runtime | a program is read as it was written; circular definitions are rejected; a name means what it means by its place in the source; emitted code does what the source says |
| **Decompiler** `decompiler/src` | control-flow graph, registers, types of each function | one pass after the other, each reading what earlier ones stored | | dominators, regions, liveness, phis and constants are right |
| Games, tools, MCP server, editor support | | client programs | | |

Everything in Solite runs on one thread; there is no preemption. What is hard is
re-entrancy. A write flushes the queue, a flush runs effect bodies, a body
writes, creates, disposes, opens batches; render functions run between a test
and the assignment it guards; handlers run while the table of handlers is being
polled. Fixed-size arrays drop what does not fit, and nothing reports it. In the
libraries it is sequences of calls over several frames, and in `calynda_mii.c` an
answer that arrives after its wait was given up. In the compiler and the decompiler
it is order: what a pass has computed when a later one changes the graph below it,
what an initialiser uses before it is set, what a spelling means in the C that is emitted. The
list of these hazards, each at its line, is in `PROJECT.json`.

## 2. Modules

```
SoliteReactive            signals, effects, batches            ReactivePromise (abstract)
  |- SoliteMemo           memos                                       ^
  |- SoliteControlFlow    <Show>, <For>                               | KeepsPromise
  |    `- SoliteApp       frame loop, click handlers           SoliteReactive
  `- SoliteReactiveProofs -> SolitePromiseProofs -> SoliteClientProofs
                                                   (memos, control flow, frame loop)
PhysicsWorld      bodies, collision detection    <- PhysicsProofs  -.
SceneGraph        scene tree, culling, rendering    <-.             | MCLibraries
MotionGestures    history, cooldown, gestures       <- LibraryProofs|
MiiPackage        loading and decoding Miis         <-'            -'
FlowGraph -> FunctionFlow -> SsaForm    the decompiler's passes    -.
                `- DecompilerProofs                                 |
RecursiveCalls (abstract) <- TailCalls   one emitted function       | MCToolchain
               CallsByValue    `- ProgramProofs                     |
CalyndaProgram    type check, start, run   `- ProgramProofs         |
NameScopes        names in the symbol table and in C                |
SourceText -> Parser    characters, tokens, trees  <- MCText        |
Parser -> TypeChecker -> EmittedCode    types and words  <- MCTypes |
Parser -> JsxFile       files with components      <- MCJsx        -'
RecursionFacts    induction and recursion up to a bound, for the proofs
MCReactive MCClients MCApp MCLibraries MCToolchain MCText MCTypes MCJsx    instances for TLC
```

**SoliteReactive.** The variables are the fields and file-scope variables of the
two C files, plus `calls`, the C stack. `calls[1]` is the main program and every
other frame an effect body. A frame's `op` is the library call its code is inside
of (`none`: it runs client code) and `rest` what that call has still to do: the
rest of the notification loop of `solite_signal_set`, or of the snapshot of
`solite_effect_flush_pending`. `base` is the batch depth at which a body was
entered. Client code is arbitrary: whenever the frame on top is in its own code it
may make any legal call, so that every interleaving of nested calls is explored.
One action is one step of the C code up to the next point where client code can
run or a loop goes round: `SignalSet` starts the loop that `EffectSchedule`
iterates and `NotifyDone` ends by entering the flush; `FlushSnapshot`, `FlushNext`
and `FlushReturn` are the two nested loops of the flush; `BodyReturn` is the
return of a body into the flush or out of `solite_create_effect`. `seen` is a
history variable: what each effect read since its latest activation began.

A call that is illegal in C is not enabled: using a signal or an effect before it
is created or a signal after it is disposed, disposing an effect twice or before
its handle is returned. `solite_signal_dispose` only while the signal is
allocated. A creation that returns NULL leaves no trace and is left out.

**ReactivePromise.** What the headers promise, without queues, flags or stack: a
changed signal makes every dependent effect owe a run, runs are paid one at a
time, and none is owed when the main program has control outside a batch.
`SoliteReactive!KeepsPromise` instantiates it with the refinement mapping: an
effect owes a run while it is alive and pending or in the part of a notification
loop still to come.

**SoliteMemo.** A memo is its tracking effect; its function reads signals and
does nothing else, and its result is represented by what it read. `MemoRecompute`
is the return of the function and the store into `cached_value`. `got` is history.

**SoliteControlFlow.** A node is its tracking effect. Its body is split at the
render callback: `ShowReads`/`ForReads` up to the call, then client code in the
same frame, then `ShowRendered`/`ForRendered`. Local variables of bodies are kept
per frame, so that a node may be re-entered. Signal values are numbers: a
condition is false iff 0, a list is its length. `PureRenders` forbids client code
to dispose a node, or write a signal the node reads, while it renders;
`flow_reentrant` shows what happens otherwise.

**SoliteApp.** The frame loop of `solite_mount` and the polling loop of the
bridge are the code of the main program; between frames, in handlers, render
functions and effect bodies client code may do anything. Button states come from
libwiigui, which is external: an update may click any set of buttons.

**PhysicsWorld.** The pool of bodies and `detect_collisions`. A pointer is the number
of a slot of `world->bodies`. A body has an identity (`name`) that moves with it, and
`handle` is the pointer its creation returned, which client code keeps: destroying
another body may move the body elsewhere, and the slot it leaves keeps an active
copy. Client code destroys each body at most once and through that pointer, the
only one it is given; a second destruction through the same pointer is
not modelled. What depends on numbers is chosen, not computed: at the beginning of
a step (`StepBegin`, after integration) each body gets a grid cell and the set of
pairs that touch is fixed. The visiting order is the code's: `GridRows` is what the
loops over cells have to do, a row being one body with the bodies it is tested
against in its cell and in half of the neighbours; `GridTest` is one test, which may
add a contact, end detection, and enter the callback. Until `CallbackReturn` client
code may create and destroy bodies; the rows, which hold slot numbers like the cells
of the grid, stay as they are. Then the loop over planes goes over all bodies. Two
simplifications: a body gets its layer, mask and flags when it is created, and the
callback does not step the world.

A plane is inserted into the grid like any other body, although the comment at
`calynda_physics.c:680` says it is not, and the loop over planes tests it again: a
body near the position of a plane gets two contacts with it. Therefore
`ContactsExact` is about pairs without planes, and `PlanesMet` asks for at least one.

**SceneGraph.** One action per function of `gfx3d_scene.c`. Whether bounds meet the
frustum and how far a node is from the camera is chosen when it is asked. `queue` is
the static array of transparent nodes with its count, which outlive the frame.
Client code adds a node only while it has no parent and never below itself, and
destroys it only while it has no parent: `gfx3d_node_add_child` checks none of this,
and a node in two lists is freed twice. The comment at `gfx3d_scene.c:122` says that
children may be in the frustum although their parent is not; they are marked, but
rendering returns at a node that is not visible. `gfx3d_scene.h:77` says that opaque nodes are
drawn front to back; they are drawn in the order of the tree. `DrawnExactly` says what the code
does, in both respects: a node is drawn iff it and all nodes above it are marked, an opaque one
after those before it in the tree (`Before`), whatever their distances.

**MotionGestures.** The dispatcher of `calynda_motion_bridge.c` and the library
below it. Samples are small integer vectors, so that `Peak`, `ScaledVariance` and
`Swing` are the code's comparisons without rounding (the variance is scaled by the
square of the number of samples). A call for a remote that does not exist is part of the
model (`Reaches`). Frame times are chosen for each update.

**MiiPackage.** A raw Mii is the set of its bits that are 1, and `Layout` says which
bits each number consists of; `Run` is the code's successive shifts. `Exposed` are the 24 numbers that
have a getter; `mole` is one of them although no bit is read into it (`mii.c:325`), so `has_mole` answers 0.
`ToldApart` says that the getters tell two loaded Miis apart exactly if they differ in a bit
that is to be shown. `Load` is
`loadMiis_Wii` from a file; the load from a remote is split at the
busy-wait: `StartRead` (or `RefuseRead`), `WaitFrame`, `TimeOut`, `Header`, `Finish`.
`AnswerRead` is wiiuse, external: it answers a read it has accepted at any time, also
after the program gave up, in which case it sets the flag of the next wait, and the
buffer it writes to was freed (`Abandoned`). The comment at `calynda_mii.c:102`
promises to wait "until the async read completes". `OwnAnswerUnlessStrayed` says
exactly when it does: unless an abandoned read is still to be answered. Two more
observations: the comment at `:117` says the first header offset that yields a Mii is
taken, the code takes the one that yields the most; and a `mii.load` that fails
leaves the count of the load before.

**FlowGraph, FunctionFlow.** The passes of `cfg_build` on a function of abstract
instructions: leaders, blocks and edges, the depth-first search that orders the blocks (`path` is
its stack of calls: `Descend` is a call of `dfs_post`, `Leave` its return), dominators by iteration (one action per
block and round), loops, jump tables, and regions. `FlowGraph` defines reachability and dominance by closed sets
of blocks, independently of any algorithm; the properties compare the passes with it.
What the code does and its comments do not say: dominators and loops are not computed again after
jump tables have added edges; `is_loop_exit` compares loop depths, although `cfg.h:69`
says "outside its loop"; a jump table is recovered only where the `addi` comes before the `addis`, the reverse of
what `cfg_switch.c:12` shows, because the search goes backwards. The flag for irreducible loops: `cfg.h:16`,
`cfg.h:101`, `cfg_dominance.c:145` and `cfg_regions.c:87` say that it marks loops with several entries.
`IrreducibleIsFlagged` says the same, and the run `irreducible` shows that it does not hold: the test asks for an edge that only
unreachable code, or the arm of a switch, can have. `FlagMeansDeadCode` states what is left of the flag.

**SsaForm.** The passes of `ssa_build` on the graph of `FunctionFlow`: definitions
and uses, liveness (one action per sweep), dominance frontiers and phis, constants,
stack slots, call sites. `BitOr` is a constant, the bitwise or that `ori` computes; no proof depends on
what it is. `GprDef` and `GprUses` are what `compute_insn_effects` lists; an instruction it does not list has no
effect on the analysis. What the processor and a called function do is defined apart from it (`Writes`, `Executed`):
`rlwinm`, `add` and the rest of the register arithmetic, the base of `lwzu`, the registers of `lmw` after the first, and
r0 and r4 to r12 across a call change without the analysis seeing it (`Unseen`), and leave a stale constant behind, although
`ssa_fold.c:82` says "Any other defining instruction clears shadow". `ConstantsAreComputed` compares the constants with
what the processor computes, unless an instruction that got one reads such a register (`Stale`).
`LivenessExact` and `OneDefinitionArrives` are about reads and writes as listed. The entry block gets no phi
when it is a loop header, and dominators are stale after a jump table;
`OneDefinitionArrives` leaves these two cases out.

**RecursiveCalls, TailCalls.** The function emitted for a lambda whose last statement
is a call, and how it runs. `Emitted` is `c_emit_lambda_functions`: statement by
statement, with a call to itself turned into assignments and a jump. `RecursiveCalls` is what calls
by value do, and `CallsByValue` maps the state half-way through the assignments to
the call already made. The loop is right only if no argument reads a parameter assigned before it, and no parameter
or local binding has the name of the callee (`LoopIsRight`); the code tests neither.

**CalyndaProgram.** A whole program: the resolution of its bindings by the type
checker with its three marks, `emit_main` with its two entries, the registry and
packages of the runtime, the initialisation of globals, and calls with their dispatch
by kind. Initialisers, lambdas and the entry are sequences of uses. `start` initialises
globals before the runtime, `boot` after it: in a `start` program an initialiser cannot use
a package, although `.github/agents/calynda.agent.md:22` says that the runtime
initializes first. A binding used before its initialiser has run reads 0; the checker accepts that.

**NameScopes.** The symbol table, `symbol_table_build`, pass by pass: imports, top-level names,
then the bodies, item by item in the order in which `st_analyze_expression` and
`st_analyze_statement` meet scopes, declarations and uses. `Meaning` says what a use means by its
place alone, without a table. The second half is what becomes of a name in C: every name is
emitted as `__cal_` and its spelling, only functions and manual blocks have braces, a
module is a macro, a lambda captures nothing. `NamesKeepTheirMeaning` says that the table
and `Meaning` agree, and in which places a program that C accepts reads something else:

- a local in a manual block whose initialiser uses an outer local or parameter of the same name reads itself, uninitialised
  (`c_emit_stmt.c:32`);
- `compiler/COMPILATION_PIPELINE.md:170` says that free variables of a lambda are captured: the emitter passes none
  (`c_emit_expr.c:232`). C rejects the program, unless a global has the name and is read instead;
- the parameters of `boot` are not declared in C (`c_emit.c:168-243`), with the same outcome;
- an imported name that is also the last segment of another module means that module's package.

An alias, or a name imported by itself, has no macro: `RELEASE_NOTES.md:49` lists both forms, but the
C does not compile (`hir.c:186` knows a module by its last segment). The first wildcard takes
every unknown name, misspelt ones included (`symbol_table_analyze_expr.c:18`), and an extern may have the name of an import (`symbol_table_predecl.c:99`).

**SourceText, Parser.** A text is a sequence of characters in which a word is one. The
tokenizer is a state machine, one action per kind of token; what makes it hard is a `}`, which
ends a block or resumes the template around it, so the braces of each open interpolation are
counted. The parser is one operator per parsing function, from the tokens that are left to the
tree and what is left after it; the look-ahead of `parser_lookahead.c` is kept as the
code has it, because it guesses: `(` begins a lambda, and a name begins a local binding, if
what follows has the shape of types. The properties write a tree as text and read it again.
`TreeIsRead` says which trees come back, and names those the look-ahead takes for something else (`Misread`): after
`x < y`, a `>` later in the file may be taken for the end of type arguments, so
`x < f; x > y = 1;` is rejected, two statements away from the cause. Where `calynda_fork.ebnf` and the parser
disagree the model is the parser's: no assignment of a lambda without parentheses,
no lambda in an operand or in the last part of `?:`; `exit;` without a value; `?` and not `*` for any
type; `internal final` in this order only; `start` with at least one parameter; `malloc`, `calloc`, `realloc` and
`free` are tokens that no expression begins with.

**TypeChecker.** `type_resolution` and `type_checker` on trees of `Parser` whose names mean one
thing each, and the tree `hir_lower` makes. A checking operator takes what is known of the
symbols (`TypeCheckSymbolEntry`) and gives its result and what is known afterwards, as a set that is empty for a type
error. A top-level symbol is checked at its first use, in the middle of the declaration that uses it.

**EmittedCode.** Every value of a program is a word that does not tell what it is: the emitter chooses
the C by the types the checker recorded. `words` has what may be in each variable, result
and array; a step executes every expression once more, whichever way conditions go and in whatever order functions
are called. Of a word only its kind is kept. `WordsHaveTheirTypes` says that a word is of the kind its
type says, except where the checker accepts what the emitter has no conversion for. The model marks
those places (`Kept`, `Computed`, `Stepped`, in `EmittedCode.tla`):

- a number is not converted between integer and float at an initialiser, an argument, a `return` or a cast;
- `++` and `+=` on a float compute with its bits, `"a" + "b"` adds addresses;
- `is_float_type` (`c_emit_expr.c:71`) does not look at the depth of an array: `==` and `!=` on two `float32[]`, or on one and
  `null`, which the checker accepts (`type_checker_ops.c:46`), compare the addresses as if they were the bits of floats;
- `float`, which `RELEASE_NOTES.md:51` and `.github/agents/calynda.agent.md:27` list among the types, is an integer to the checker and
  a float to the emitter: with `float a, b`, `(a + b) * a` multiplies the bits of `a + b`;
- an emitted function reads `__arguments[j]` without looking at the count;
- a lambda in a manual block is the word 0, and a manual block without `return` is rejected where a value is expected.

`_ = 1`, `++1`, names of union members and captured names are accepted but are not C.

**JsxFile.** A file in which `component` occurs (`c_emit_jsx_file.c:882` searches the text: a comment that has the word
will do) goes past the parser and the checker. The model is its whole way: the JSX tokenizer around the one of
`SourceText`, one action per kind of token; one action per construct of the emitter; whether C accepts what was
written; and the program, which builds a window once and whose clicks call handlers. `WindowShowsFile` says that the window
is what the file says, after any clicks, and for which files (`ShowsAll`). C refuses:
a reactive text in a button, or in two components; a signal called in braces, as in `{n()}`, or not called in a template or a handler; a literal that
contains the name of a signal; a template that mentions one outside `${}`; an
initialiser that reads one; a text followed by a line break; signals beyond `MAX_SIGNALS`. What is shown is another
window with: a computation in braces, of which the first number is taken; several pieces in one text, of which
one is shown; attributes that are signals or quoted numbers; colours of three digits, although
`calynda_jsx_parser.c:352` gives one as an example; a nested window, an unknown tag or the tag of another component; an
attribute without a value, which swallows the token after it; a comment inside a tag. Handlers beyond `MaxHandlers` are
emitted and never called.

**MCClients** has two kinds of programs: one makes a memo and a plain effect, the other only nodes.

**MCLibraries, MCToolchain** put parts that share no state into one run: the initial
state chooses the part that runs, and the others stay at one state.

### Wrong versions

A definition marked `bug` is a wrong version of the definition after it. No
specification uses it; putting it in the place of the right one breaks a property:

| Wrong version | Property that notices |
|---|---|
| `BatchEndUnguarded` | `TypeOK` |
| `ObserverKept` | `ObserversMatch` |
| `CanScheduleAgain` | `PendingExact` |
| `ObserverOutermost` | `NoLostUpdate` |
| `BatchEndSilently` | `QuietIsFresh` |
| `FlushNextDisposed` | `DisposedNeverRuns` |
| `EffectScheduleUnflagged` | `KeepsPromise` |
| `FlushOpAlways` | `BatchDefers` |
| `NotifyDoneSilently` | `PendingIsServed` |
| `MemoRecomputeDirty` | `MemoIsFresh` |
| `ForReadsEmptyEarly` | `NodesMatch` |
| `NodeDisposeKeeps` | `WindowIsRecorded` |
| `PollDoneEarly` | `ClicksHandled` |
| `FrameDrawnForgets` | `UnmountStops` |
| `Unnumbered` | `PoolExact` |
| `HalfWide` | `ContactsExact` |
| `PlaneRowAfter` | `PlanesMet` |
| `Dropped` | `TreeShape` |
| `EnqueuedAfter` | `DrawnExactly` |
| `WindowAhead` | `RingIsRecent` |
| `CooledEarly` | `NoSampleReportedTwice` |
| `SwingSigned` | `MirrorImage` |
| `LeftInPlace` | `EveryIndexIsAMii` |
| `HairCut` | `ToldApart` |
| `LeftSet` | `OwnAnswerUnlessStrayed` |
| `NeverAgain` | `DominanceExact` |
| `ForwardToArms` | `StackFits` |
| `FirstCommonHere` | `ArmsMeetAtMerge` |
| `ReachesLoop` | `FlagMeansDeadCode` |
| `LiveThrough` | `LivenessExact` |
| `SpreadOnce` | `OneDefinitionArrives` |
| `KnownLonger` | `ConstantsAreComputed` |
| `LastFirst` | `CallsByValue` |
| `MetAgainDirectly` | `CirclesAreFound` |
| `GlobalsFirst` | `StopsOnlyForUnset` |
| `ImportsFirst` | `NamesKeepTheirMeaning` |
| `AnyBraceCloses` | `TokensAreRead` |
| `RightToLeft` | `TreeIsRead` |
| `PromoteLeft` | `WordsHaveTheirTypes` |
| `EffectsOfFirst` | `WindowShowsFile` |

## 3. Runs

Run one with `tlc -config <run>.cfg <module>`.

| Run | Instance | Shows |
|---|---|---|
| `reactive_core` | 2 signals, 2 effects, 2 values, depth 2, batch 1, bodies may leave batches open | the bookkeeping invariants, `NoLostUpdate`, `QuietIsFresh`, `DisposedNeverRuns` and the refinement of `ReactivePromise` |
| `reactive_live` | 1 signal, 2 effects, depth 2, batch 2, balanced batches, subscriber lists may fail to grow, fair | `BatchDefers`, `PendingIsServed` |
| `clients` | a signal with values 0, 1, 2, depth 2; 1 memo and 1 effect, or 1 `<Show>` and 1 `<For>` with 5 elements | `MemoIsFresh`; `NodesMatch`, `WindowIsRecorded` |
| `app` | a `<For>`, 2 buttons, a table of 2 handlers, fair | `ClicksHandled`, `UnmountStops` |
| `libraries` | physics: 3 bodies, each dynamic, static, a plane or colliding with nothing, in 4 cells of a grid of side 3, cells of 2 bodies, 2 contacts; scene: 3 nodes, 2 children, a queue of 2, 2 distances; motion: a remote, 4 kinds of samples, a ring of 4, windows of 2 or 3; Miis: 3 Miis in 3 files, 2 remote memories, 2 remotes, 2 reads | `PoolExact`, `ContactsExact`, `PlanesMet`; `TreeShape`, `DrawnExactly`; `RingIsRecent`, `NoSampleReportedTwice`, `MirrorImage`; `EveryIndexIsAMii`, `ToldApart`, `OwnAnswerUnlessStrayed` |
| `toolchain` | every function of 3 branches or 3 of 13 instructions and an end, of 5 with a jump table, and one of 7 whose jump table leads into a loop; every lambda of 2 parameters for which `LoopIsRight`; every program of 3 bindings with a use each, or 2 with up to two, and every package; every entry with a manual block or lambdas between uses and locals of two names, and every program of up to 2 imports and 2 declarations of one name; texts of small trees, every expression in the place of every operand, with and without spaces and comments, and texts that lack or repeat a token; about 4,260 programs of a function, a global or an array and a use of it, of every kind of type, operator and statement, of which 567 are accepted; 1,130 files with components: one element more than a counter and its button, with and without blanks between the tokens, and a second component | `DominanceExact`, `StackFits`, `ArmsMeetAtMerge`, `FlagMeansDeadCode`; `LivenessExact`, `OneDefinitionArrives`, `ConstantsAreComputed`; `CallsByValue`; `CirclesAreFound`, `StopsOnlyForUnset`; `NamesKeepTheirMeaning`; `TokensAreRead`, `TreeIsRead`; `WordsHaveTheirTypes`; `WindowShowsFile` |

Six runs find a violation; each is a place where the code does not do what a
header or a comment says (`findings` in `PROJECT.json`):

| Run | What happens |
|---|---|
| `reactive_batch_open` | a body opens a batch and returns: the flush around it tests the batch depth only on entry and goes on running effects |
| `memo_reader` | an effect that reads a memo does not re-run when the memo is recomputed |
| `flow_reentrant` | a render function clears its own `<Show>`'s signal: the nested run finds no child to remove, the outer one appends it |
| `physics_handle` | with two bodies, the first is destroyed and a third created: the pointer of the second, which was moved, now means the third, and destroying through it removes the third |
| `irreducible` | a loop is entered in the middle, and the flag for such loops stays down |
| `tail_call` | a lambda `f` of two parameters ends in `f(b, a)`: it becomes `a = b; b = a;`, and the second parameter keeps its value |

Two more findings are on runs that pass, whose properties say what the code does or leave out what it does wrong:
the order and the culling of a frame (`DrawnExactly`), and constants that are stale (`ConstantsAreComputed`).
One more departure needs no run to see: a pending queue that is full (256 effects) drops the
effect without a trace, although `solite_signal.h:52` says that all subscribed effects
are scheduled. `NoLostUpdate` is checked and proved for queues that hold every effect.

`toolchain`, `irreducible` and `tail_call` do not check for deadlock: a compiler, a decompiler and a program end.

**Bounds.** `MaxDepth` is the number of bodies nested on the C stack, `MaxBatch`
the nested batches, `MaxElements` the GUI elements, `ObserverMax`, `PendingMax`,
`ButtonsMax` the fixed arrays and `InitialSubs` the first size of a subscriber
list (1, so that lists grow). Two effects are enough for one to write what
another reads, dispose what another waits in, and to be scheduled by a nested
flush while the outer snapshot holds both; depth 2 is the smallest at which a
flush runs inside a flush. The arrays are as large as these bounds require. A
client call that may run bodies is not made at depth `MaxDepth`: client code does
something else there. That bound is also a parameter of the theorems.

In `PhysicsWorld` three bodies are the fewest with a middle one to take out and one to
be moved, and `Names` bounds the creations. A cell of 2 and 2 contacts overflow with
3 bodies. The four cells of `Spread` are neighbours along one axis, along two and
along all three, or too far apart, and lie at the edge and in the middle of the grid.

In `SceneGraph` three nodes make chains, siblings and a grandchild; a list of 2
children and a queue of 2 transparent nodes overflow with 3. In `MotionGestures` the ring of 4
wraps, a window of 3 is shorter than the ring, and a cooldown of 5 outlasts 2 frames of
length 2, in the unit of `FrameTimes`. In `MiiPackage` `MaxWait` frames stand for
300, and `MaxReads` bounds the reads from remotes: with two, the second can be answered by the first.
Of the raw Miis two differ in numbers that have getters, in bits that straddle two bytes, and a third
from one of them only in bits nothing shows.

In `FunctionFlow` and `SsaForm` four instructions make up to four blocks: nested loops, loops
with two entries, diamonds, dead code. `Half` stands for 2^16, the weight of the immediate of `addis`. In
`CalyndaProgram` three bindings make every circle of up to three; `MaxCalls` bounds the
depth of calls, and a recursion that would pass it stays where it is. In `NameScopes` two names
and three nested functions or blocks are enough to hide, capture and redeclare; two imports of two
modules clash, hide each other, or hide a declaration. In `Parser` every expression stands once in
the place of every operand, and some three deep, so that every pair of levels meets; templates nest
two deep where `MaxTemplateDepth` is 2, so that three are too many. The programs of `TypeChecker` have one
function or global and one or two uses: a type error, a missing conversion or a circular inference needs no more.
`EmittedCode` needs no bound: there are finitely many kinds of words, and `words` only grows. In `JsxFile` `MaxSignals` and
`MaxHandlers` are 2 (32 and 64 in the code), so that files pass them, and a click happens only while the
signals are below `MaxShown`.

**Symmetry** is used for signals, effects, names of bodies and nodes in runs without liveness.

**Fairness.** There is one thread, so `WF(Library)` says only that the program
runs. `SF(Depth = d /\ BodyReturn)` says that a body that is in its own code again
and again returns in the end: bodies contain no endless loops of their own. It
is strong because a body leaves its code whenever it calls the library. In
`SoliteApp` the same is assumed of render functions and handlers, which also end
the batches they open; without that a self-writing effect inside an open batch
keeps the loop of `solite_effect_flush_pending` going for ever. `PendingIsServed`
therefore assumes of bodies that, where batches are balanced, one that may end a batch again
and again does. `BalancedBatches` is what `solite_effect.h` asks of a client: every
`solite_batch_start` has its `solite_batch_end`. The main program may hold a batch open.

The libraries, the compiler and the decompiler have no liveness property: each call
runs to its end without waiting, but for the wait in `calynda_mii.c`, which counts frames.

## 4. Proofs

Each theorem holds for every value of the constants that satisfies the `ASSUME` of the
component's module: every set of signals, effects, values, nodes, bodies, samples, Miis,
programs or functions, every capacity and every depth.

| Theorem | States | Assumes further |
|---|---|---|
| `TypeCorrect` | `Spec => []TypeOK` | |
| `StackShape` | `Spec => []TypeInv` | |
| `ObserversTrackBodies` | `Spec => []ObserversMatch` | `MaxDepth <= ObserverMax` |
| `PendingIsExact` | `Spec => []PendingExact` | |
| `NoUpdateIsLost` | `Spec => []NoLostUpdate` | `EnoughRoom` |
| `QuietStateIsFresh` | `Spec => []QuietIsFresh` | `EnoughRoom` |
| `DisposedStaysSilent` | `Spec => DisposedNeverRuns` | |
| `PromiseIsKept` | `Spec => KeepsPromise`: the C files implement `ReactivePromise` | `EnoughRoom` |
| `BatchesDefer` | `Spec => BatchDefers` | `BalancedBatches` |
| `MemosAreFresh` | `MemoSpec => []MemoIsFresh` | `EnoughRoom` |
| `EveryClickIsHandled` | `AppSpec => []ClicksHandled` | |
| `WindowShowsChildren` | `FlowSpec => []WindowIsRecorded` | `PureRenders` |
| `ChildrenMatchSignals` | `FlowSpec => []NodesMatch` | `PureRenders`, `EnoughRoom` |
| `PoolStaysExact` | `WorldSpec => []PoolExact` | |
| `NothingFallsThrough` | `WorldSpec => []PlanesMet` | |
| `TreeIsKept` | `SceneSpec => []TreeShape` | |
| `WindowIsRecent` | `MotionSpec => []RingIsRecent` | |
| `MovementIsReportedOnce` | `MotionSpec => []NoSampleReportedTwice` | |
| `HandsAreAlike` | `MotionSpec => []MirrorImage` | `TwistsNotNegative` |
| `AnswerIsOwn` | `MiiSpec => []OwnAnswerUnlessStrayed` | |
| `CountedAreMiis` | `MiiSpec => []EveryIndexIsAMii` | |
| `FlowInvariant` | `SsaSpec => []FlowInv` | |
| `DominatorsAreExact` | `SsaSpec => []DominanceExact` | |
| `FlagIsDeadCode` | `SsaSpec => []FlagMeansDeadCode` | |
| `StackAlwaysFits` | `SsaSpec => []StackFits` | |
| `MergesAreCommon` | `SsaSpec => []ArmsMeetAtMerge` | |
| `LivenessIsExact` | `SsaSpec => []LivenessExact` | |
| `PhisAreEnough` | `SsaSpec => []OneDefinitionArrives` | |
| `ConstantsAreRight` | `SsaSpec => []ConstantsAreComputed` | |
| `CirclesAreFoundFirst` | `ProgramSpec => []CirclesAreFound` | |
| `OnlyUnsetStops` | `ProgramSpec => []StopsOnlyForUnset` | |
| `LoopMakesTheCall` | `CallSpec => CallsByValue`: the emitted loop implements the call | `LoopIsRight` of every lambda |

`EnoughRoom`: bodies nest no deeper than the observer stack, the pending queue has
a place for every effect, subscriber lists can grow. `BalancedBatches`: a body ends the
batches it opens; `reactive_batch_open` shows what happens otherwise. `PureRenders`:
client code leaves a node alone while it renders; see `flow_reentrant`.
`TwistsNotNegative`: no script sets a negative threshold for a twist. `LoopIsRight`: see `tail_call`.
Of the functions of the decompiler `ProgramsAssumption` says only that they are sequences of at least one decoded
instruction, with registers below 32, and of the weight of `addis` `HalfAssumption` that it is positive.

### The reactive core

- `TypeInv` is `TypeOK` and the shape of the stack (`StackOK`): below the top every
  frame waits for a body in a flush or a creation. Without it the types are not
  inductive: a return needs to know what it returns into.
- `PendingExact` is inductive given `TypeInv`. The argument follows the backlogs: a
  schedule appends to the queue an effect that waits nowhere, a snapshot moves the
  whole queue into an empty backlog, a visit removes the head of one backlog, which
  by `WaitsOnce` is the effect's only place.
- `NoLostUpdate` is not inductive. `FreshInv` adds `ReadSubscribed` (what a body has
  read it is subscribed to, which needs `ObserversMatch`) and `CreatingOK` (an effect
  being created is on the stack and has one creation). The queue has room by
  counting: its entries are distinct effects other than the one to be added.
- `QuietIsFresh` needs `Drains`: outside a batch a queue that is not empty has a flush
  on the stack, or a write that is about to start one.
- `KeepsPromise` is proved step by step: `SignalSet`, `FlushNext`, `EffectCreate` and so on map to a
  step of `ReactivePromise` or to a stutter. Three facts are needed beyond those above.
  `StartedInv`: only an effect that exists waits, is notified, subscribed, observed or
  runs, and an allocated signal has a value. `ReadSubscribed`, because a write must make every dependent owe a
  run. `QuietIsFresh` of the next state, because the abstract main program may have control only when none is owed.
- `BatchDefers` rests on `FlushesOutside`: a flush on top of the stack goes on only while no batch is
  open, and one further down will be on top with the depth it was left with, because the
  body above it entered with depth 0 and ends what it opened.

### On top of the core

Memos, control flow and the frame loop take only steps of the core, or none
(`MemoIsReactive`, `FlowIsReactive`, `AppIsReactive`), so every invariant of the core holds in them.

- `MemoIsFresh` follows from `QuietIsFresh` by `CacheIsSeen`: the cache of a memo whose
  function is not running is what it read last.
- `ClicksHandled` needs `PolledInv`: no button the loop has polled in this frame is still clicked, the
  one whose handler is running included, and a handler that registers another only appends to the table.
- `WindowIsRecorded` speaks of states in which the main program has control. In between, the
  window holds what render functions have returned and nobody has counted yet. `WindowInv` says
  so: the window is what every living node holds (`Held`: what it recorded and, inside its
  render loop, the children in front of the next one); no two nodes have a pointer to the same element,
  a stale one included (`Apart`); and the children still to be rendered have a place in the array (`RenderInv`).
  `NodeStackInv` is what makes it inductive: a node is on the C stack at most once, below the
  top it is always inside its render function, and while it runs nothing is pending or notified
  that would run it again. Here `PureRenders` is used: a write that would notify it, or its
  disposal, is not made.
- `NodesMatch` adds `MatchInv`: what a node renders, or has recorded, is what it last read
  (`NodesAsRead`), its signal is in use, and the children it counted are different elements, so that
  their number is the cardinality. By `QuietIsFresh` what it last read is the value of its signal.

### The libraries

- `PoolExact` needs `PoolInv`: every active slot knows its index, the abandoned copies
  behind the last body included (`SlotsOK`), because a stale pointer may point there;
  and the bodies still to be destroyed are no more than `body_count` (`OwedOK`), so that
  a destruction that takes the wrong body never makes the count negative.
- `PlanesMet` needs `PlaneInv`: every awaited pair the loop over planes has passed (`Passed`) has a
  contact or found the array full. Only bodies built before the step are awaited: one the callback creates
  is appended and moves no other. A step in which it destroys a body is left out, because the
  last body then moves into a row that may have been passed.
- `TreeShape` needs `TreeInv`: parents and lists of children agree, no list has a node twice, and
  every live node hangs below a root. `Below`, the least closed set, needs no recursion; the work is what
  a link, a move or a removal does to it.
- `RingIsRecent` is inductive with the types (`RingInv`); the work is the arithmetic of indices that wrap.
- `NoSampleReportedTwice` holds when `FastEnough`, which is part of the property:
  the frames of a window together are shorter than the cooldown, as they are at 60 frames a
  second (9 frames, 0.15 s, against 0.3 s). The invariant `CooldownRuns` says that an update takes at
  most one `SlowestFrame` off the cooldown. At 30 frames a second the window is as
  long as the cooldown, and a movement may be reported twice.
- `MirrorImage` compares two runs of the detector, on a window and on its mirror image: the peak of one is
  the mirror image of the peak of the other, their sums and variances are equal. These are
  recursive functions over the window. That they exist is proved (`RecursionFacts`) by an induction over a
  set (`UpTo`), since the library's induction takes an operator as a parameter.
- `OwnAnswerUnlessStrayed` needs `MiiInv`: of the outstanding reads at most one is the
  own read of the wait that is running (`OneOwnRead`), and none is when no wait is. `EveryIndexIsAMii` needs
  `CountInv`, which adds the types of the buffers: the decoder keeps only the slots that pass its
  tests, whatever the buffer holds, and the count it stores is theirs.

### Programs

- `CirclesAreFound` needs `CheckInv`. A binding marked *resolving* is on the stack of the checker, each frame
  of the stack is used by the one below it, and a binding marked *resolved* depends only on resolved ones. So a use of
  a resolving binding is a circle, and a circle cannot be resolved before it is met.
- `StopsOnlyForUnset` needs `RunInv`: where the start sequence stands, which words are set, and that a call
  runs only what was initialised, except for a use in front of its initialiser. `DispatchFinds` is the arithmetic
  of the ranges of kinds: every kind is dispatched to the package that registered it.
- `LoopMakesTheCall` is a refinement, proved step by step: an assignment that makes the
  call maps to a stutter, because an argument still to be evaluated reads no parameter
  assigned before it, except the first, which maps to the call. The invariant says
  where the counter may be. `tail_call` shows that the assumption is needed.

### The decompiler

Each pass is a loop over arrays whose end is a fixpoint. The theorems say that the fixpoint is the
one meant, for graphs of any size; `DecompilerProofs` has them in the order of the passes.

- `FlowInv` is what the graph theorems rest on. `ShapeInv`: edges stay within the blocks, and a
  block has at most two that are no arm of a switch. `OrderInv`: the open calls of the search are a path of the
  graph, what it has met and not written down is on that path, and at the end every block that can be reached but the entry
  has a predecessor in front of it. `DominatorInv`: each immediate dominator is in front of its block, so the
  chains end at the entry; whatever dominates a block dominates its immediate dominator too, so the chain holds all dominators, and a
  round that changes nothing leaves chains that agree with every predecessor. Then
  a block in the chain that some path avoids would have to be avoided by the chain of a predecessor too.
  The search is modelled in steps because of this: its order is what the two fingers of `intersect` rely on.
- `FlagMeansDeadCode`, which says why `irreducible` fails: if a header dominates the end of an edge and not its start, a path that avoids
  the header goes on along that edge, so the start cannot be reached, or the edge came with a jump table.
- `StackFits` counts: twice the marked blocks, less the turns taken, bound the height, because a marked block
  has pushed two at most, and the last block to be marked pushes none. `ArmsMeetAtMerge`: what `forward_reach` marks and
  what the search of `first_common` meets are the least closed sets `Onward` (`ForwardReachFacts`, `FirstMarkedFacts`).
- `LaidInv`: the blocks partition the code. `Split` takes the leaders in their order, and there are
  as many turns as leaders.
- `LivenessExact` needs `LiveInv`: what is marked live is read by some path (`Sound`), in every round and within it;
  a round that changes nothing has found a solution of the block equations (`SweepFacts`), and the blocks of a solution
  hold everything that some path reads (`ReadFromOnly`). `ReadFrom` is about instructions, the equations are about blocks:
  `InBlock` is the step from one to the next.
- `OneDefinitionArrives` needs `PhiInv`, that phis are closed under the frontier (`PhiClosed`: enough turns empty the
  worklist, by counting), and the dominators: a block between a predecessor and the dominator of the join has the join in its
  frontier, so it neither writes the register nor has a phi for it. `SwitchInv` says that no arms are added where there is no table.
- `ConstantsAreComputed` is about the processor, `Known` about the list. `EffectsListed` compares the two instruction by
  instruction. By induction through the block, a register that is known, and was not changed unseen, holds what is
  known, as long as no instruction that got a constant has read one that was (`NothingStale`).

### Checked by TLC only

- `PendingIsServed` and `UnmountStops`: liveness is out of the prover's reach.
- `ContactsExact`: the order of the tests is a fold over the cells of a grid, and that every pair of
  neighbours comes up once needs an induction over it; `DrawnExactly`: rendering recurs over the tree.
- `ToldApart` is true of the Miis of the instance, not of all.
- `NamesKeepTheirMeaning`, `TokensAreRead`, `TreeIsRead`, `WordsHaveTheirTypes`, `WindowShowsFile`: recursions over trees and texts.

## 5. Not modelled

Of the parts above: a second `solite_mount` from a handler, `solite_runtime_shutdown`
called by client code, pointer cursors, failed creations of signals and effects,
render functions that return NULL; the solver, constraints, character and raycasts of
the physics engine; matrices of the scene graph; orientation, infrared pointer and
intensity of gestures; the text of Mii names; floating-point registers and the
text of expressions in the decompiler; overload sets, the names inside unions, the values of numbers and the C text of types and keywords in the
compiler; strings, casts, unions and heterogeneous arrays of the
runtime, and the conversions of arguments in its bridges. One defect in those is plain
from the code: `gfx.scene_create_node` returns a pointer
(`calynda_gfx_bridge.c:462`), while the calls on nodes take an index. Another: a request to
unmount made before `solite_mount` is forgotten (`solite_runtime.c:82`).

Reference counts are not modelled because nothing uses them: emitted code neither retains
nor releases. The texture cache stays empty, because its loaders are stubs.
Of the tokenizer and the parser: the insides of words, positions, the wording of errors, failed
allocations, and the memory of trees. Of files with components: escapes, quotes and percent signs in texts, the 128 bytes
a shown text may have, conditional expressions in braces, roots that are not windows; `calynda_jsx_emit.c` is not
called on the way from a file to C. Numerical code, file formats, hardware calls and printing keep
no state across calls that a model checker could explore.

## 6. Plan

1. Physics: constraints, whose bodies move too, and the contacts that the solver
   reads after a callback destroyed one of their bodies.
2. Compiler: overload sets of `sema`.
3. Theorems: the part of `ContactsExact` that says no pair has two contacts; of `NamesKeepTheirMeaning`
   the scopes of one function, as an invariant of the walk.
