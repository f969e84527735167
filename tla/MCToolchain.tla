---------------------------- MODULE MCToolchain -----------------------------
(* Small instances of the compiler and the decompiler.  They share no state,   *)
(* so one part runs at a time, whichever of Running the initial state chooses. *)
EXTENDS SsaForm, Bitwise, TailCalls, CalyndaProgram, NameScopes, EmittedCode, MCText, MCTypes, MCJsx

CONSTANTS Running, OneProgram, OneLambda, OneSource, OneUnit, OneText, OneTyped, OneFile

VARIABLE running

\* FunctionFlow, SsaForm: functions of three instructions and an end, with loops,
\* branches into loops, jumps out of the function and dead code; jump tables that
\* close on themselves, point outside, into a loop or are no table; straight code.
Op(op) == Insn(op, 0, 0, 0, 0)
B(t) == Insn("B", 0, 0, 0, t)
BC(t) == Insn("BC", 0, 0, 0, t)
Li == Insn("ADDI", 3, 0, 3, 0)
Lis(r) == Insn("ADDIS", r, 0, 1, 0)
Addi(r) == Insn("ADDI", r, r, -1, 0)
Copy == Insn("MR", 31, 3, 0, 0)
Add == Insn("ADD", 3, 31, 0, 0)
Ori == Insn("ORI", 3, 31, 2, 0)
Stw == Insn("STW", 3, 1, 8, 0)
Lwz == Insn("LWZ", 3, 1, 8, 0)
Lmw == Insn("LMW", 30, 1, -8, 0)
Lwzu == Insn("LWZU", 4, 3, 8, 0)
Rlwinm == Insn("RLWINM", 3, 31, 0, 0)
Jumps == {B(t) : t \in {0, 2, 3}} \cup {BC(t) : t \in {0, 1, 2, 3}}
Ends == {Op("BLR"), B(1), BC(2), B(9)}
Branching == {c \o <<e>> : c \in [1 .. 3 -> {Li, Stw, Op("BL")} \cup Jumps], e \in Ends}
Switches == {f \o c : f \in {<<Lis(3), Addi(3), Op("BCTR")>>, <<Addi(3), Lis(3), Op("BCTR")>>},
                      c \in [1 .. 2 -> {Li, Op("BLR"), B(5), BC(4), BC(0)}]}
ArmIntoLoop == <<BC(4), Addi(3), Lis(3), Op("BCTR"), BC(6), B(4), Op("BLR")>>
Computing == {c \o <<Op("BLR")>> :
                c \in [1 .. 3 -> {Li, Lwz, Copy, Lis(31), Addi(31), Addi(3), Stw, Op("BL"), Ori, Add,
                             Lmw, Lwzu, Rlwinm}]}
MCPrograms ==
  {[code |-> c, table |-> <<>>] : c \in Branching \cup Computing}
  \cup {[code |-> c, table |-> t] :
          c \in Switches, t \in {<<3, 4, 3, 4, 3, 4>>, <<4, 1, 3, -1>>, <<-1, 3>>}}
  \cup {[code |-> ArmIntoLoop, table |-> t] : t \in {<<4, -1>>, <<5, -1>>}}
MCBitOr(v, w) == v | w
MCOneProgram == [code |-> <<Li, Li, Li, Op("BLR")>>, table |-> <<>>]

\* TailCalls: two parameters; arguments that keep, change, swap or add them; a
\* statement before the call that assigns a parameter or returns; callees that
\* are the owner or not, and names that a parameter takes.
Read(p, f(_)) == [reads |-> {p}, of |-> [e \in [{p} -> Values] |-> f(e[p])]]
Sum == [reads |-> {1, 2},
        of |-> [e \in [{1, 2} -> Values] |-> (e[1] + e[2]) % Cardinality(Values)]]
Same(v) == v
Up(v) == (v + 1) % Cardinality(Values)
ArgumentsRead == {Read(1, Same), Read(2, Same), Read(2, Up), Sum}
BeforeCall == {[returns |-> FALSE, to |-> 1, value |-> Read(2, Up)], [returns |-> TRUE]}
AllLambdas ==
  [owner : {"f", "none"}, taken : {{"x"}, {"f"}}, callee : {"f", "g"}, returned : BOOLEAN,
   before : {<<>>} \cup {<<s>> : s \in BeforeCall}, arguments : [Params -> ArgumentsRead]]
RightLambdas == {l \in AllLambdas : LoopIsRight(l)}
UnshadowedLambdas == {l \in AllLambdas : l.callee \notin l.taken}
MCOneLambda == CHOOSE l \in UnshadowedLambdas : l.returned /\ l.before = <<>>

\* CalyndaProgram: three bindings that use at most one binding or package each,
\* two that use up to two, and one that uses the first and the last callable of
\* a package; the entry uses them all.
BindingThat(kind, used) == [kind |-> kind, uses |-> used]
BindingsUsing(used) == {BindingThat(k, u) : k \in {"lambda", "array", "number"}, u \in used}
UpTo(n, used) == UNION {[1 .. m -> used] : m \in 0 .. n}
Every(n) == [i \in 1 .. n |-> G(i)]
MCSources ==
  [mode : {"boot", "start"}, body : {Every(3)},
   bindings : [1 .. 3 -> BindingsUsing(UpTo(1, {G(1), G(2), G(3), X(118)}))]]
  \cup [mode : {"boot"}, body : {Every(2)},
        bindings : [1 .. 2 -> BindingsUsing(UpTo(2, {G(1), G(2)}))]]
  \cup {[mode |-> m, body |-> <<X(k), G(1)>>, bindings |-> <<BindingThat(b, <<X(k)>>)>>] :
          m \in {"boot", "start"}, b \in {"lambda", "number"},
          k \in UNION {{p, LastKind(p)} : p \in Packages}}
MCOneSource == [mode |-> "boot", body |-> Every(3),
                bindings |-> [i \in 1 .. 3 |-> BindingThat("number", <<>>)]]

\* NameScopes: an entry with a manual block, a lambda or two between uses and
\* locals, below nothing, a global or a wildcard; and every way to import, declare
\* and use one name.
Do(do, n) == <<[do |-> do, name |-> n]>>
UseOf(n) == Do("use", n)
Local(n, initialiser) == Do("let", n) \o initialiser \o Do("local", n)
FunctionBody(f, parameters, b) ==
  Do(f, "") \o parameters \o Do("block", "") \o b \o Do("close", "") \o Do("close", "")
Manual(b) == Do("manual", "") \o b \o Do("close", "")
NoItems == {<<>>}
Simple == {UseOf("x"), UseOf("y"), Local("x", <<>>), Local("x", UseOf("x")), Local("y", UseOf("x"))}
Two == NoItems \cup Simple \cup {s \o r : s, r \in Simple}
WithX == {<<>>, Do("parameter", "x")}
Inner == {Manual(b) : b \in Two}
         \cup {Local("y", FunctionBody("lambda", q, b)) : q \in WithX, b \in Two}
         \cup {Local("y", FunctionBody("lambda", q, Local("y", FunctionBody("lambda", r, UseOf(n))))) :
                  q, r \in WithX, n \in {"x", "y"}}
EntryOf(f, q, b) == [kind |-> f, name |-> "", body |-> FunctionBody(f, q, b)]
Declared(kind, n) == [kind |-> kind, name |-> n, body |-> <<>>]
OneImport(kind, m, names) == [kind |-> kind, module |-> m, names |-> names]
Wild(m) == OneImport("wildcard", m, <<>>)
Nested ==
  [imports : {<<>>, <<Wild("m")>>},
   decls : {t \o <<EntryOf("boot", <<>>, s \o n \o r)>> :
              t \in {<<>>, <<Declared("binding", "x")>>},
              s \in NoItems \cup Simple, n \in Inner, r \in {UseOf("x"), UseOf("y")}}]
Importing ==
  LET one == {OneImport("plain", "m", <<"m">>), OneImport("alias", "m", <<"x">>), Wild("m"), Wild("k"),
              OneImport("selective", "k", <<"x">>), OneImport("selective", "k", <<"m", "x">>),
              OneImport("alias", "k", <<"m">>), OneImport("selective", "k", <<"x", "x">>)}
      top == {Declared(k, n) : k \in {"binding", "extern"}, n \in {"m", "x"}}
             \cup {Declared("union", "x")} IN
    [imports : {<<>>} \cup {<<i>> : i \in one} \cup {<<i, j>> : i, j \in one},
     decls : {t \o <<EntryOf(e[1], e[2], b)>> :
                t \in {<<>>} \cup {<<u>> : u \in top} \cup {<<u, v>> : u, v \in top},
                e \in {<<f, Do("parameter", n)>> : f \in {"start", "boot"}, n \in {"x", "y"}}
                      \cup {<<"boot", q>> : q \in {<<>>, Do("parameter", "y") \o Do("parameter", "x")}},
                b \in {UseOf("m"), UseOf("x"), Local("x", UseOf("x"))}}]
MCUnits == Nested \cup Importing
MCOneUnit == [imports |-> <<>>, decls |-> <<EntryOf("boot", <<>>, UseOf("x"))>>]

\* A part that does not run is at one state.
SsaIdle == prog = OneProgram /\ SsaInit
CallIdle == lambda = OneLambda /\ locals = [p \in Params |-> 0] /\ CallInit
ProgramIdle == source = OneSource /\ ProgramInit
NamesIdle == unit = OneUnit /\ NamesInit
TextIdle == text = OneText /\ ScanStart /\ parsed = NoTree
JsxIdle ==
  /\ file = OneFile /\ meant = <<>> /\ stream = <<>> /\ walk = 1 /\ phase = "tokens"
  /\ lexer = NotInElement /\ output = NoCode /\ screen = NoScreen
TypesIdle == typed = OneTyped /\ turn = 0 /\ known = <<>> /\ judged = "checking" /\ words = <<>>

ToolchainInit ==
  /\ running \in Running
  /\ IF running = "decompiler" THEN SsaInit ELSE SsaIdle
  /\ IF running = "tail calls" THEN CallInit ELSE CallIdle
  /\ IF running = "program" THEN ProgramInit ELSE ProgramIdle
  /\ IF running = "names" THEN NamesInit ELSE NamesIdle
  /\ CASE running = "text" -> ParserInit /\ JsxIdle
       [] running = "components" -> JsxInit /\ parsed = NoTree
       [] OTHER -> TextIdle /\ JsxIdle
  /\ IF running = "types" THEN EmittedInit ELSE TypesIdle

allTextVars == <<parsed, jsxVars>>
ToolchainNext ==
  /\ UNCHANGED running
  /\ \/ running = "decompiler" /\ SsaNext /\ UNCHANGED <<callVars, programVars, nameVars, allTextVars, emitVars>>
     \/ running = "tail calls" /\ CallNext /\ UNCHANGED <<vars, programVars, nameVars, allTextVars, emitVars>>
     \/ running = "program" /\ ProgramNext /\ UNCHANGED <<vars, callVars, nameVars, allTextVars, emitVars>>
     \/ running = "names" /\ NamesNext /\ UNCHANGED <<vars, callVars, programVars, allTextVars, emitVars>>
     \/ running = "text" /\ ParserNext /\ UNCHANGED <<vars, callVars, programVars, nameVars, jsxOwnVars, emitVars>>
     \/ running = "components" /\ JsxNext /\ UNCHANGED <<parsed, vars, callVars, programVars, nameVars, emitVars>>
     \/ running = "types" /\ EmittedNext /\ UNCHANGED <<vars, callVars, programVars, nameVars, allTextVars>>

ToolchainSpec ==
  ToolchainInit /\ [][ToolchainNext]_<<running, vars, callVars, programVars, nameVars, allTextVars, emitVars>>
=============================================================================
