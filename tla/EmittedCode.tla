----------------------------- MODULE EmittedCode -----------------------------
(***************************************************************************)
(* What the C emitter makes of an accepted program, and what the emitted C *)
(* computes with the runtime (compiler/src/c_emit/c_emit*.c and            *)
(* compiler/src/c_runtime/calynda_runtime.c).                              *)
(*                                                                         *)
(* Every value is a CalyndaRtWord that does not tell what it is: a number, *)
(* the bits of a float, a string, an array, a closure.  The emitter        *)
(* chooses the C by the types the checker recorded, and the runtime aborts *)
(* where it can see that the word is of another kind.                      *)
(*                                                                         *)
(* Of a word only its kind is kept.  words has what may be in each place   *)
(* of the program so far; a step executes everything once more, whichever  *)
(* way conditions go and in whatever order functions are called.  Where    *)
(* the checker accepts what the emitter has no conversion for, the word    *)
(* that results is Unknown: these are the places Kept, Computed and        *)
(* Stepped name.  Programs whose C a C compiler refuses are not told       *)
(* apart: a name of a union, a name of an enclosing function in a lambda.  *)
(***************************************************************************)
EXTENDS TypeChecker

VARIABLE words  \* place -> the words that have been there; <<>> before the program runs

emitVars == <<typeVars, words>>

-----------------------------------------------------------------------------
(* Words and places *)

Zero == <<"zero">>          \* also null, false, and what was never assigned
Integer == <<"integer">>    \* also a boolean or a character
Float == <<"float">>        \* __calynda_float_to_word
TextWord == <<"string">>
ClosureOf(lambda) == <<"closure", lambda>>
ArrayOf(literal) == <<"array", literal>>
Unknown == <<"unknown">>    \* from outside, or not what its type says
Wrong == <<"wrong">>        \* C computed with a word of a kind it was not made for

\* A place is the name of a variable, the result of a lambda, or the elements of
\* an array.
ResultOf(lambda) == <<"result", lambda>>
ElementsOf(literal) == <<"elements", literal>>
VariableNamed(n) == <<"variable", n>>

\* is_float_type of c_emit_expr.c: float and double too, and arrays of floats.
IsFloatType(t) == t[1] = "value" /\ t[2] \in Floats \cup {"float", "double"}
\* A word of this type is the bits of a float.
IsFloat(t) == IsFloatType(t) /\ t[3] = 0
\* A type that the checker counts as integral and the emitter as float.
IsTornType(t) == t \in {ValueType("float", 0), ValueType("double", 0)}
\* A type that is an array to the checker and a float to the emitter.
IsFloatArray(t) == IsFloatType(t) /\ t[3] > 0

\* The HIR of the program, with everything in it.
RECURSIVE Within(_)
Within(e) == {e} \cup UNION {Within(e.parts[i]) : i \in DOMAIN e.parts}
Roots == {known[IF d[1] = "entry" THEN d[2] ELSE NameOfDecl(d)].node : d \in {typed[4][i] : i \in DOMAIN typed[4]}}
Nodes == UNION {Within(r) : r \in Roots}

\* c_emit_prescan_program: the lambdas that have a C function; manual blocks are
\* not searched.
RECURSIVE PreScanned(_)
PreScanned(e) ==
  IF e.kind = "manual" THEN {}
  ELSE (IF e.kind = "lambda" THEN {e} ELSE {}) \cup UNION {PreScanned(e.parts[i]) : i \in DOMAIN e.parts}
Registered == UNION {PreScanned(r) : r \in Roots}

ParametersIn(e) == {i \in DOMAIN e.parts : e.parts[i].kind \in {"parameter", "rest"}}

\* emit_forward_decls: what each place has before anything is executed.  The
\* result of a function that is left at its end is 0.
FirstWords ==
  LET variables == {e.text : e \in {f \in Nodes : f.kind \in {"parameter", "rest", "local"}}}
                   \cup {NameOfDecl(d) : d \in {c \in {typed[4][i] : i \in DOMAIN typed[4]} : c[1] = "binding"}}
  IN [p \in {VariableNamed(n) : n \in variables} \cup {ResultOf(l) : l \in Registered} |-> {Zero}]
     @@ [p \in {ElementsOf(e) : e \in {f \in Nodes : f.kind \in {"array", "entry"}}} |->
           IF p[2].kind = "entry" THEN {TextWord} ELSE {}]

-----------------------------------------------------------------------------
(* Expressions *)

TypesOf(params) == IF params = <<>> THEN <<>> ELSE [i \in DOMAIN params[1] |-> TypeNamed(params[1][i][1])]

\* A word is handed on as it is, whatever the types.  It is still what its new
\* type says unless it was of an external type, a float became an integer or the
\* other way round, a function is taken for what it returns, or a function for one
\* with other parameters.
Kept(from, to) ==
  /\ from.returns # External
  /\ IsFloat(from.returns) <=> IsFloat(to.returns)
  /\ from.callable <=> to.callable
  /\ from.callable => TypesOf(from.params) = TypesOf(to.params)
HandedOn(ws, from, to) == IF Kept(from, to) \/ ws = {} THEN ws ELSE {Unknown}

\* __calynda_rt_call_callable, __calynda_rt_index_load: they abort on 0.
AllResults(ws, w) ==
  UNION {CASE c[1] = "closure" -> w[ResultOf(c[2])] [] c = Zero -> {} [] c = Unknown -> {Unknown}
           [] OTHER -> {Wrong} : c \in ws}
AllElements(ws, w) ==
  UNION {CASE a[1] = "array" -> w[ElementsOf(a[2])] [] a = Zero -> {} [] a = Unknown -> {Unknown}
           [] OTHER -> {Wrong} : a \in ws}

\* The C of an operator, for operands of these words; as floats or as words.
Comparisons == {"<", ">", "<=", ">=", "==", "!="}
ArithmeticOps == {"+", "-", "*", "/", "%"}
Operated(op, l, r, a, b, asFloats) ==
  LET fits(n, x) == x \in {Zero, IF asFloats /\ IsFloat(n.type) THEN Float ELSE Integer} IN
    CASE Unknown \in {a, b} -> Unknown
      [] Unknown \notin {a, b} /\ op \in {"==", "!="} /\ ~asFloats -> Integer
      [] Unknown \notin {a, b} /\ fits(l, a) /\ fits(r, b) ->
           IF asFloats /\ op \notin Comparisons THEN Float ELSE Integer
      [] OTHER -> Wrong

\* Words that can be used for what the type of the expression says.
Usable(e, ws) == IF ws # {} /\ (e.returns = External \/ e.callable) THEN {Unknown} ELSE ws

\* A binary operator.  Two strings are added as addresses; the type of an operator
\* on a float that the checker counts as integral is none of a float; the addresses
\* of two arrays of floats are compared as if they were the bits of floats.
Computed(op, l, r, ls, rs) ==
  LET asFloats == (IsFloatType(l.type) \/ IsFloatType(r.type)) /\ op \in ArithmeticOps \cup Comparisons
      excepted == \/ op = "+" /\ l.type = String /\ r.type = String
                  \/ op \notin Comparisons /\ (IsTornType(l.type) \/ IsTornType(r.type))
                  \/ op \in {"==", "!="} /\ (IsFloatArray(l.type) \/ IsFloatArray(r.type))
  IN IF excepted THEN {Unknown}
     ELSE {Operated(op, l, r, a, b, asFloats) : a \in Usable(l, ls), b \in Usable(r, rs)}

\* ++, --, ~ and compound assignments work on the word as it is, of floats too.
Stepped(op, t, v, ts, vs) ==
  IF IsFloat(t.type) \/ IsFloat(v.type) \/ (op = "+" /\ t.type = String) THEN {Unknown}
  ELSE {Operated(op, t, v, a, b, FALSE) : a \in Usable(t, ts), b \in Usable(v, vs)}

RECURSIVE Words(_, _)
UnaryWords(e, w) ==
  LET o == e.parts[1]
      ws == Usable(o, Words(o, w)) IN
    CASE e.text = "-" /\ IsFloatType(o.type) ->
           {IF x \in {Unknown, Wrong} THEN x ELSE IF x \in {Zero, Float} THEN Float ELSE Wrong : x \in ws}
      [] e.text = "+" -> ws
      [] OTHER -> Stepped(e.text, o, o, ws, ws)

\* What is assigned.
AssignedWords(e, w) ==
  LET t == e.parts[1]
      v == e.parts[2] IN
    IF e.text = "=" THEN HandedOn(Words(v, w), v, t)
    ELSE Stepped(OperatorOf[e.text], t, v, Words(t, w), Words(v, w))

\* __calynda_rt_cast_value, for the type tag the emitter gives it: the word of a
\* float is not converted, nor to one.
TagOf(type) == IF type \in {"string", "bool"} THEN type ELSE "word"
CastTo(tag, ws, from, to) ==
  CASE ws = {} -> {}
    [] ws # {} /\ tag = "string" -> {TextWord}
    [] ws # {} /\ tag = "bool" -> {Integer}
    [] OTHER -> HandedOn(Usable(from, ws), from, to)
CastWords(e, w) == CastTo(TagOf(e.text), Words(e.parts[1], w), e.parts[1], e)

\* Either branch, whatever the condition.
TernaryWords(e, w) == UNION {HandedOn(Words(e.parts[i], w), e.parts[i], e) : i \in {2, 3}}
\* A C function is called as it is, and what it gives is not known.
CallWords(e, w) == AllResults(Words(e.parts[1], w), w)
IndexWords(e, w) == AllElements(Usable(e.parts[1], Words(e.parts[1], w)), w)
MemberWords(e, w) == IF Words(e.parts[1], w) = {} THEN {} ELSE {Unknown}

\* c_emit_expr: the words that an expression may be, by those in each place.
Words(e, w) ==
  LET of(i) == Words(e.parts[i], w) IN
    CASE e.kind = "literal" ->
           {CASE e.type = Null -> Zero [] e.type = String -> TextWord
              [] IsFloat(e.type) -> Float [] OTHER -> Integer}
      [] e.kind = "template" -> {TextWord}
      [] e.kind = "symbol" ->
           CASE VariableNamed(e.text) \in DOMAIN w -> w[VariableNamed(e.text)]
             [] DeclsOf(e.text) # {} /\ DeclOf(e.text)[1] = "union" -> {}
             [] OTHER -> {Unknown}
      [] e.kind = "wildcard" -> {Unknown}
      [] e.kind = "lambda" -> IF ResultOf(e) \in DOMAIN w THEN {ClosureOf(e)} ELSE {Zero}
      [] e.kind = "assignment" -> IF e.parts[1].kind = "symbol" THEN AssignedWords(e, w) ELSE {}
      [] e.kind = "ternary" -> TernaryWords(e, w)
      [] e.kind = "binary" -> Computed(e.text, e.parts[1], e.parts[2], of(1), of(2))
      [] e.kind = "unary" -> UnaryWords(e, w)
      [] e.kind = "post" -> Stepped(e.text, e.parts[1], e.parts[1], of(1), of(1))
      [] e.kind = "call" -> CallWords(e, w)
      [] e.kind = "index" -> IndexWords(e, w)
      [] e.kind = "member" -> MemberWords(e, w)
      [] e.kind = "cast" -> CastWords(e, w)
      [] e.kind = "array" -> {ArrayOf(e)}
      [] e.kind = "discard" -> {Zero}

-----------------------------------------------------------------------------
(* What executing a node puts where: c_emit_stmt, c_emit_lambda_functions,     *)
(* emit_init_globals, emit_start_function                                      *)

\* The statements of a body that return from it.
RECURSIVE ReturnsIn(_)
ReturnsIn(e) ==
  CASE e.kind = "return" -> {e}
    [] e.kind \in {"block", "manual"} -> UNION {ReturnsIn(e.parts[i]) : i \in DOMAIN e.parts}
    [] OTHER -> {}

PlaceOf(target, w) ==
  CASE target.kind = "symbol" -> {VariableNamed(target.text)}
    [] target.kind = "index" -> {ElementsOf(a[2]) : a \in {b \in Words(target.parts[1], w) : b[1] = "array"}}
    [] OTHER -> {}

\* A parameter is bound to the argument at its position, whatever their number.  The
\* one that takes the rest may be left without one.
Arriving(parameter, i, call, w) ==
  CASE i < Len(call.parts) -> HandedOn(Words(call.parts[i + 1], w), call.parts[i + 1], parameter)
    [] i >= Len(call.parts) -> {IF parameter.kind = "rest" THEN Unknown ELSE Wrong}

\* The elements of an array literal, each where it belongs.
ArrayEffects(e, w) ==
  LET t == IF IsHeteroArray(e.type) THEN External ELSE ValueType(e.type[2], e.type[3] - 1) IN
    {<<ElementsOf(e), HandedOn(Words(e.parts[i], w), e.parts[i], Info(t))>> : i \in DOMAIN e.parts}

\* A set of places, each with words that come there.
Effects(e, w) ==
  LET variable(n, ws) == {<<VariableNamed(n), ws>>} IN
    CASE e.kind = "local" -> variable(e.text, HandedOn(Words(e.parts[1], w), e.parts[1], e))
      [] e.kind = "assignment" -> {<<p, AssignedWords(e, w)>> : p \in PlaceOf(e.parts[1], w)}
      [] e.kind \in {"unary", "post"} /\ e.text \in {"++", "--"} ->
           {<<p, Words(e, w)>> : p \in IF e.parts[1].kind = "symbol" THEN PlaceOf(e.parts[1], w) ELSE {}}
      [] e.kind = "array" -> ArrayEffects(e, w)
      [] e.kind = "lambda" /\ ResultOf(e) \in DOMAIN w ->
           {<<ResultOf(e), HandedOn(Words(r.parts[1], w), r.parts[1], Info(e.returns))>> :
              r \in {s \in ReturnsIn(e.parts[Len(e.parts)]) : s.parts # <<>>}}
      [] e.kind = "call" ->
           UNION {{<<VariableNamed(c[2].parts[i].text), Arriving(c[2].parts[i], i, e, w)>> :
                     i \in ParametersIn(c[2])} :
                    c \in {d \in Words(e.parts[1], w) : d[1] = "closure"}}
      [] e.kind = "entry" -> UNION {variable(e.parts[i].text, {ArrayOf(e)}) : i \in ParametersIn(e)}
      [] OTHER -> {}

\* The variables of the program itself: emit_init_globals
Globals(w) ==
  {<<VariableNamed(NameOfDecl(d)),
     HandedOn(Words(known[NameOfDecl(d)].node, w), known[NameOfDecl(d)].node, known[NameOfDecl(d)].info)>> :
     d \in {c \in {typed[4][i] : i \in DOMAIN typed[4]} : c[1] = "binding"}}

\* c_emit_program, and the process that starts
StartProgram ==
  /\ judged = "accepted" /\ words = <<>>
  /\ words' = FirstWords
  /\ UNCHANGED typeVars

Execute ==
  /\ words # <<>>
  /\ LET effects == Globals(words) \cup UNION {Effects(e, words) : e \in Nodes} IN
       words' = [p \in DOMAIN words |-> words[p] \cup UNION {f[2] : f \in {g \in effects : g[1] = p}}]
  /\ words' # words
  /\ UNCHANGED typeVars

EmittedInit == TypedInit /\ words = <<>>
EmittedNext == (TypedNext /\ UNCHANGED words) \/ StartProgram \/ Execute
EmittedSpec == EmittedInit /\ [][EmittedNext]_emitVars

-----------------------------------------------------------------------------
(* Properties *)

\* The words that an expression of this type may be.
IsOfType(x, e) ==
  LET t == e.returns IN
    \/ x \in {Unknown, Zero}
    \/ e.callable /\ x[1] = "closure"
    \/ /\ ~e.callable
       /\ CASE t[1] = "external" -> x # Wrong
            [] t[1] = "named" -> IsHeteroArray(t) /\ x[1] = "array"
            [] t = String -> x = TextWord
            [] t[1] = "value" /\ t[3] > 0 -> x[1] = "array" /\ (x[2].kind = "array" => x[2].type = t)
            [] t[1] = "value" /\ t[3] = 0 /\ t # String -> x = IF IsFloat(t) THEN Float ELSE Integer
            [] OTHER -> FALSE

\* Whatever the functions of an accepted program are called with and in whatever
\* order, no expression is a word of a kind that its type does not say, but at the
\* places where a conversion is missing, and what was computed from them.
IsExpression(e) ==
  e.kind \notin {"block", "return", "throw", "expression", "manual", "local", "parameter", "rest",
                 "entry", "extern", "union"}
WordsHaveTheirTypes ==
  words # <<>> => \A e \in {f \in Nodes : IsExpression(f)} : \A x \in Words(e, words) : IsOfType(x, e)
=============================================================================
