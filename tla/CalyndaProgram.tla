--------------------------- MODULE CalyndaProgram ---------------------------
(***************************************************************************)
(* The top-level bindings of a Calynda program, from the type checker to   *)
(* the running process.  The checker resolves each binding when it is      *)
(* first met (compiler/src/sema/type_checker_resolve.c); the C program     *)
(* that is emitted initialises them in the order of the source             *)
(* (compiler/src/c_emit/c_emit.c); and the runtime tells the untagged      *)
(* words they hold apart by a registry of objects                          *)
(* (compiler/src/c_runtime/calynda_runtime.c).                             *)
(*                                                                         *)
(* A binding is a lambda, an array or a number; its initialiser, or the    *)
(* body of the lambda, uses other bindings and functions of packages: it   *)
(* calls the lambdas, takes an element of the arrays and reads the numbers.*)
(* The entry is declared after the bindings.                               *)
(***************************************************************************)
EXTENDS Integers, Sequences, FiniteSets

CONSTANTS
  Sources,   \* programs: [mode, bindings, body]
  MaxCalls   \* bound: calls of closures that are open at once

\* What code uses: the binding or the callable kind with number n.
G(n) == [what |-> "binding", n |-> n]
X(n) == [what |-> "callable", n |-> n]

\* stdlib, wpad, mii, gfx, physics and motion number their callables from here.
Mii == 200
Packages == {0, 100, Mii, 300, 400, 500}
LastKind(p) == CASE p = 0 -> 0 [] p = 100 -> 118 [] p = Mii -> 240
                 [] p = 300 -> 332 [] p = 400 -> 427 [] p = 500 -> 535
Kinds == UNION {p .. LastKind(p) : p \in Packages}
PackageOf(kind) == CHOOSE p \in Packages : kind \in p .. LastKind(p)

UsesIn(s) ==
  [what : {"binding"}, n : DOMAIN s.bindings] \cup [what : {"callable"}, n : Kinds]
BindingsIn(s) == [kind : {"lambda", "array", "number"}, uses : Seq(UsesIn(s))]

\* A binding uses bindings of its program, above or below it.
ASSUME SourcesAssumption ==
  \A s \in Sources :
    /\ s.mode \in {"boot", "start"}
    /\ s.bindings \in Seq(BindingsIn(s))
    /\ s.body \in Seq(UsesIn(s))

VARIABLES
  source,      \* the program
  verdict,     \* the type checker's: "checking", "accepted" or "rejected"
  mark,        \* TypeCheckSymbolEntry of each binding: unseen, resolving, resolved
  next,        \* the top-level binding that is checked, later initialised
  frames,      \* the C stack: <<[of, left], ...>>, uses that are left to do
  todo,        \* what calynda_program_main has still to do
  word,        \* what each global holds; 0 until it is initialised
  objects,     \* the kinds of the objects created
  registered,  \* OBJECT_REGISTRY
  report       \* the first error the runtime reported, [why, by]

programVars == <<source, verdict, mark, next, frames, todo, word, objects,
                 registered, report>>
checkVars == <<verdict, mark>>
heapVars == <<word, objects, registered>>

Bindings == DOMAIN source.bindings
Kind(b) == source.bindings[b].kind
IsLambda(b) == Kind(b) = "lambda"
Uses(b) == source.bindings[b].uses

Fine == [why |-> "none", by |-> X(0)]
TheBody == 0

Frame(of, left) == [of |-> of, left |-> left]
TopFrame == frames[Len(frames)]
Callers == SubSeq(frames, 1, Len(frames) - 1)
Use == Head(TopFrame.left)
UsesLeft == frames # <<>> /\ TopFrame.left # <<>>
UsesDone == frames # <<>> /\ TopFrame.left = <<>>
Used == Append(Callers, Frame(TopFrame.of, Tail(TopFrame.left)))

ProgramInit ==
  /\ source \in Sources
  /\ verdict = "checking"
  /\ mark = [b \in Bindings |-> "unseen"]
  /\ next = 1
  /\ frames = <<>>
  /\ todo = <<>>
  /\ word = [b \in Bindings |-> 0]
  /\ objects = <<>>
  /\ registered = {}
  /\ report = Fine

-----------------------------------------------------------------------------
(* The type checker *)

Checking == verdict = "checking" /\ UNCHANGED <<source, todo, heapVars, report>>

\* tc_resolve_symbol_info of a binding that is not resolved: its initialiser
\* is checked.
Resolve(b) ==
  /\ mark[b] = "unseen"
  /\ mark' = [mark EXCEPT ![b] = "resolving"]
  /\ frames' = Append(frames, Frame(b, Uses(b)))
  /\ UNCHANGED verdict

\* bug: only the binding that contains the use itself may be met again
MetAgainDirectly(b) ==
  IF IsLambda(b) /\ TopFrame.of = b THEN "checking" ELSE "rejected"

\* A binding that is met again while it is being resolved: for a lambda there
\* is tentative information, anything else is circular.
MetAgain(b) == IF IsLambda(b) THEN "checking" ELSE "rejected"

CheckUse ==
  /\ Checking /\ UsesLeft
  /\ IF Use.what = "binding" /\ mark[Use.n] = "unseen" THEN Resolve(Use.n)
     ELSE /\ frames' = Used
          /\ verdict' = IF Use.what = "binding" /\ mark[Use.n] = "resolving"
                        THEN MetAgain(Use.n) ELSE verdict
          /\ UNCHANGED mark
  /\ UNCHANGED next

Resolved ==
  /\ Checking /\ UsesDone
  /\ mark' = [mark EXCEPT ![TopFrame.of] = "resolved"]
  /\ frames' = Callers
  /\ UNCHANGED <<verdict, next>>

\* The loop over the top-level declarations.
CheckDeclaration ==
  /\ Checking /\ frames = <<>> /\ next \in Bindings
  /\ next' = next + 1
  /\ IF mark[next] = "unseen" THEN Resolve(next) ELSE UNCHANGED <<frames, checkVars>>

-----------------------------------------------------------------------------
(* The entry *)

\* bug: boot initialises the globals first, as start does
GlobalsFirst(mode) == <<"globals", "init", "body">>

\* emit_main
ToDo(mode) ==
  IF mode = "boot" THEN <<"init", "globals", "body">> ELSE <<"globals", "init", "body">>

Accept ==
  /\ verdict = "checking" /\ frames = <<>> /\ next \notin Bindings
  /\ verdict' = "accepted"
  /\ next' = 1
  /\ todo' = ToDo(source.mode)
  /\ UNCHANGED <<source, mark, frames, heapVars, report>>

Executing == verdict = "accepted" /\ report = Fine /\ UNCHANGED <<source, checkVars>>
Doing(what) == Executing /\ todo # <<>> /\ Head(todo) = what

-----------------------------------------------------------------------------
(* The registry *)

\* Addresses, none of them 0.
PackageAt(p) == -1 - p
CallableAt(kind) == -1000 - kind
ObjectAt(i) == i

\* rt_new_string_object and its like: the object is registered at once.
NewObject(kind) ==
  /\ objects' = Append(objects, kind)
  /\ registered' = registered \cup {ObjectAt(Len(objects) + 1)}

\* calynda_rt_as_object accepts some statics whether registered or not.
AlwaysKnown == {PackageAt(p) : p \in Packages \ {Mii}} \cup {CallableAt(0)}
IsObject(w) == w # 0 /\ w \in AlwaysKnown \cup registered
IsA(w, kind) == IsObject(w) /\ w \in DOMAIN objects /\ objects[w] = kind

\* What calynda_wpad_register_objects and its like register.
Statics ==
  {PackageAt(p) : p \in Packages \ {0}} \cup {CallableAt(k) : k \in Kinds \ {0}}

\* calynda_rt_init; start_process then boxes the arguments in an array.
InitRuntime ==
  /\ Doing("init")
  /\ IF source.mode = "boot" THEN registered' = registered \cup Statics /\ UNCHANGED objects
     ELSE /\ objects' = Append(objects, "array")
          /\ registered' = registered \cup Statics \cup {ObjectAt(Len(objects) + 1)}
  /\ todo' = Tail(todo)
  /\ UNCHANGED <<next, frames, word, report>>

-----------------------------------------------------------------------------
(* Code *)

\* __calynda_init_globals: the initialiser of the next binding.  That of a
\* lambda only makes the closure.
InitGlobal ==
  /\ Doing("globals") /\ frames = <<>> /\ next \in Bindings
  /\ frames' = <<Frame(next, IF IsLambda(next) THEN <<>> ELSE Uses(next))>>
  /\ UNCHANGED <<next, todo, heapVars, report>>

GlobalSet ==
  /\ Doing("globals") /\ Len(frames) = 1 /\ UsesDone
  /\ next' = next + 1
  /\ frames' = <<>>
  /\ IF Kind(next) = "number" THEN UNCHANGED heapVars
     ELSE /\ NewObject(Kind(next))
          /\ word' = [word EXCEPT ![next] = ObjectAt(Len(objects) + 1)]
  /\ UNCHANGED <<todo, report>>

GlobalsSet ==
  /\ Doing("globals") /\ frames = <<>> /\ next \notin Bindings
  /\ todo' = Tail(todo)
  /\ UNCHANGED <<next, frames, heapVars, report>>

RunEntry ==
  /\ Doing("body") /\ frames = <<>>
  /\ frames' = <<Frame(TheBody, source.body)>>
  /\ UNCHANGED <<next, todo, heapVars, report>>

EntryReturns ==
  /\ Doing("body") /\ Len(frames) = 1 /\ UsesDone
  /\ frames' = <<>> /\ todo' = <<>>
  /\ UNCHANGED <<next, heapVars, report>>

ClosureReturns ==
  /\ Executing /\ Len(frames) > 1 /\ UsesDone
  /\ frames' = Callers
  /\ UNCHANGED <<next, todo, heapVars, report>>

\* __calynda_rt_call_callable, which tests an external callable's kind from the
\* last package down
Dispatch(kind) ==
  CHOOSE p \in Packages : p <= kind /\ \A q \in Packages : q <= kind => q <= p

\* What the runtime reports of a use: __calynda_rt_member_load on the package
\* and __calynda_rt_call_callable on what it gives, or __calynda_rt_call_callable
\* and __calynda_rt_index_load on what the global holds.
Report(use) ==
  IF use.what = "callable"
  THEN IF ~IsObject(PackageAt(PackageOf(use.n))) THEN "member access on non-object"
       ELSE IF ~IsObject(CallableAt(use.n)) THEN "call of a raw word"
       ELSE IF Dispatch(use.n) # PackageOf(use.n) THEN "unsupported callable kind"
       ELSE "none"
  ELSE CASE IsLambda(use.n) /\ ~IsA(word[use.n], "lambda") -> "call of a raw word"
         [] Kind(use.n) = "array" /\ ~IsA(word[use.n], "array") -> "index load on non-array"
         [] OTHER -> "none"

\* A call that succeeds and returns at once, an element or a number.
Perform ==
  /\ Executing /\ UsesLeft
  /\ Report(Use) = "none" /\ (Use.what = "binding" => ~IsLambda(Use.n))
  /\ frames' = Used
  /\ UNCHANGED <<next, todo, heapVars, report>>

CallClosure ==
  /\ Executing /\ UsesLeft
  /\ Report(Use) = "none" /\ Use.what = "binding" /\ IsLambda(Use.n)
  /\ Len(frames) <= MaxCalls
  /\ frames' = Append(Used, Frame(Use.n, Uses(Use.n)))
  /\ UNCHANGED <<next, todo, heapVars, report>>

\* The program is not followed beyond the first error.
Fail ==
  /\ Executing /\ UsesLeft
  /\ Report(Use) # "none"
  /\ report' = [why |-> Report(Use), by |-> Use]
  /\ UNCHANGED <<next, frames, todo, heapVars>>

ProgramNext ==
  \/ CheckUse \/ Resolved \/ CheckDeclaration \/ Accept
  \/ InitRuntime \/ InitGlobal \/ GlobalSet \/ GlobalsSet \/ RunEntry
  \/ Perform \/ CallClosure \/ ClosureReturns \/ EntryReturns \/ Fail

ProgramSpec == ProgramInit /\ [][ProgramNext]_programVars

-----------------------------------------------------------------------------
(* Properties *)

\* The bindings b uses, and those it depends on through bindings in S.
UsedBy(b) == {Uses(b)[i].n : i \in {j \in DOMAIN Uses(b) : Uses(b)[j].what = "binding"}}
DependsOn(b, S) ==
  {c \in Bindings : \A T \in SUBSET Bindings :
     UsedBy(b) \subseteq T /\ (\A d \in T \cap S : UsedBy(d) \subseteq T) => c \in T}

Circular(b, S) == b \in S /\ b \in DependsOn(b, S)

\* tc_resolve_symbol_info: however the bindings are ordered, a circle without a
\* lambda in it is rejected, and what is rejected has a circle through a binding
\* that is no lambda.  (In between the verdict depends on the order: of a number
\* and a lambda that use each other, the one that comes first decides.)
CirclesAreFound ==
  LET values == {b \in Bindings : ~IsLambda(b)} IN
    /\ verdict = "accepted" => \A b \in values : ~Circular(b, values)
    /\ verdict = "rejected" => \E b \in values : Circular(b, Bindings)

\* No binding is used by one above it; a lambda may use itself.
InOrder ==
  \A b \in Bindings : \A c \in UsedBy(b) : c < b \/ (c = b /\ IsLambda(b))

\* The checker and the runtime together: a program that was accepted is stopped
\* for a value that is no function, no array or no object only because it uses a
\* binding before its initialiser has run, or because it enters by start and an
\* initialiser uses a package, and every call of a package's function reaches
\* the code of that package.  A boot program whose bindings use only those above
\* them is never stopped.
StopsOnlyForUnset ==
  /\ report # Fine =>
       \/ report.by.what = "binding" /\ word[report.by.n] = 0
       \/ report.by.what = "callable" /\ source.mode = "start" /\ Head(todo) = "globals"
  /\ (InOrder /\ source.mode = "boot") => report = Fine
=============================================================================
