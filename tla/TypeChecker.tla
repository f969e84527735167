----------------------------- MODULE TypeChecker -----------------------------
(***************************************************************************)
(* The types of a Calynda program, and the tree the C emitter reads        *)
(* (compiler/src/sema/type_resolution*.c, type_checker*.c and              *)
(* compiler/src/hir/hir_lower*.c).                                         *)
(*                                                                         *)
(* Programs are trees of module Parser in which a name means one thing, so *)
(* that it stands for its symbol.  A checking operator takes what is known *)
(* of the symbols and gives its result with what is known afterwards, as a *)
(* set: no element stands for a type error, and there is never more than   *)
(* one.  A top-level symbol is resolved when it is first used, in the      *)
(* middle of the declaration that uses it.                                 *)
(*                                                                         *)
(* The result for an expression is its TypeCheckInfo and its HIR, which    *)
(* keeps of that information what it was at that moment.  That the tables  *)
(* of the checker may move while a pointer into them is in use             *)
(* (type_checker_expr_ext.c:66) is left out.                               *)
(***************************************************************************)
EXTENDS Parser, FiniteSets

CONSTANT TypedPrograms  \* the trees of programs

VARIABLES
  typed,   \* the program
  turn,    \* 0 before its types are resolved, then the declaration to be checked next
  known,   \* what is known of each symbol: TypeCheckSymbolEntry, and the HIR
  judged   \* "checking", "accepted" or "rejected"

typeVars == <<typed, turn, known, judged>>

-----------------------------------------------------------------------------
(* Types: CheckedType *)

Void == <<"void">>
Null == <<"null">>
External == <<"external">>
ValueType(primitive, depth) == <<"value", primitive, depth>>
NamedType(name, arguments, depth) == <<"named", name, arguments, depth>>
Int32 == ValueType("int32", 0)
Bool == ValueType("bool", 0)
String == ValueType("string", 0)

\* tc_primitive_width, tc_primitive_is_signed, tc_primitive_is_float
OfWidth ==
  8 :> {"int8", "uint8", "char", "byte", "sbyte"} @@ 16 :> {"int16", "uint16", "short"}
  @@ 32 :> {"int32", "uint32", "float32", "int", "uint", "float"} @@ 64 :> {"int64", "uint64", "float64", "long", "ulong", "double"}
Unsigned == {"uint8", "uint16", "uint32", "uint64", "byte", "uint", "ulong"}
Floats == {"float32", "float64"}
PrimitiveTypes == UNION {OfWidth[w] : w \in DOMAIN OfWidth} \cup {"bool", "string"}

IsNumeric(t) == t[1] = "value" /\ t[2] \notin {"bool", "string"} /\ t[3] = 0
IsIntegral(t) == IsNumeric(t) /\ t[2] \notin Floats
IsReferenceLike(t) == t = External \/ (t[1] = "value" /\ (t[2] = "string" \/ t[3] > 0))
IsHeteroArray(t) == t[1] = "named" /\ t[2] = "arr" /\ t[3] > 0 /\ t[4] = 0

\* tc_signed_primitive_for_width, tc_unsigned_primitive_for_width
SignedOf == 8 :> "int8" @@ 16 :> "int16" @@ 32 :> "int32" @@ 64 :> "int64"
UnsignedOf == 8 :> "uint8" @@ 16 :> "uint16" @@ 32 :> "uint32" @@ 64 :> "uint64"

\* bug: the result has the type of the left operand
PromoteLeft(l, r) == l

\* tc_promote_numeric_types: float and double are not among its floats.
PromoteNumeric(l, r) ==
  LET both == {l[2], r[2]}
      wide == CHOOSE w \in DOMAIN OfWidth : /\ both \cap OfWidth[w] # {}
                                            /\ \A v \in DOMAIN OfWidth : v > w => both \cap OfWidth[v] = {}
  IN ValueType(
       CASE "float64" \in both -> "float64"
         [] "float64" \notin both /\ "float32" \in both -> "float32"
         [] both \cap Floats = {} /\ both \subseteq Unsigned -> UnsignedOf[wide]
         [] both \cap Floats = {} /\ both \cap Unsigned = {} -> SignedOf[wide]
         [] OTHER -> IF wide < 64 THEN "int64" ELSE "uint64", 0)

\* tc_checked_type_assignable
Assignable(target, source) ==
  \/ target = source
  \/ target = Void /\ source \in {Null, External}
  \/ target # Void /\ source # Void /\ External \in {target, source}
  \/ target[1] = "value" /\ source = Null /\ IsReferenceLike(target)
  \/ IsNumeric(target) /\ IsNumeric(source)
  \/ IsHeteroArray(target) /\ (IsHeteroArray(source) \/ (source[1] = "value" /\ source[3] = 1))

\* tc_merge_types_for_inference, tc_merge_return_types: no element if they have
\* nothing in common.
MergeTypes(l, r) ==
  CASE l = r -> {l}
    [] l # r /\ External \in {l, r} -> {External}
    [] OTHER -> IF IsNumeric(l) /\ IsNumeric(r) THEN {PromoteNumeric(l, r)} ELSE {}
MergeReturnTypes(l, r) == IF {l, r} = {Void, Null} THEN {Void} ELSE MergeTypes(l, r)

\* tc_check_binary_operator
IntegralOnly == {"|", "~&", "^", "~^", "&", "%"}
BinaryResult(op, l, r) ==
  LET both(Is(_)) == Is(l) /\ Is(r)
      other == IF l # External THEN l ELSE r
      yields(fits, t, external) ==
        IF fits THEN {t} ELSE IF External \in {l, r} THEN {external} ELSE {}
  IN CASE op \in {"||", "&&"} -> yields(l = Bool /\ r = Bool, Bool, Bool)
       [] op \in {"==", "!="} ->
            yields(\/ l = r \/ both(IsNumeric)
                   \/ (l = Null /\ IsReferenceLike(r)) \/ (r = Null /\ IsReferenceLike(l)), Bool, Bool)
       [] op \in {"<", ">", "<=", ">="} -> yields(both(IsNumeric), Bool, Bool)
       [] op \in {"<<", ">>"} -> yields(both(IsIntegral), l, other)
       [] op \in IntegralOnly ->
            IF both(IsIntegral) THEN {PromoteNumeric(l, r)} ELSE yields(FALSE, l, other)
       [] op \in {"+", "-", "*", "/"} ->
            IF both(IsNumeric) THEN {PromoteNumeric(l, r)}
            ELSE yields(op = "+" /\ l = String /\ r = String, String, other)

\* tr_resolve_declared_type, tc_checked_type_from_resolved_type: of a type as written.
TypeNamed(t) ==
  CASE t[1] = "void" -> Void
    [] t[1] = "arr" -> NamedType("arr", Len(t[2]), 0)
    [] t[1] = "type" -> IF t[2] \in PrimitiveTypes THEN ValueType(t[2], Len(t[4]))
                        ELSE NamedType(t[2], Len(t[3]), Len(t[4]))

\* validate_array_dimensions
SizesArePositive(t) == t[1] = "type" => \A i \in DOMAIN t[4] : t[4][i] # "0"

\* type_resolver_resolve_program: the types of parameters, bindings, externs and
\* variants; it does not enter manual blocks.
OwnTypesResolve(t) ==
  LET ps == ParametersOf(t)
      notVoid(type) == type # <<"void">> /\ SizesArePositive(type) IN
    /\ \A i \in DOMAIN ps : notVoid(ps[i][1])
    /\ t[1] = "local" => SizesArePositive(t[4])
    /\ t[1] = "binding" => SizesArePositive(t[3])
    /\ t[1] = "extern" => SizesArePositive(t[2])
    /\ t[1] = "union" => \A i \in DOMAIN t[5] : t[5][i][2] # <<>> => notVoid(t[5][i][2][1])
\* tr_resolve_expression and tr_resolve_statement: everything below is resolved too.
RECURSIVE TypesResolve(_)
TypesResolve(t) ==
  t[1] = "manual" \/ (OwnTypesResolve(t) /\ \A u \in Operands(t) : TypesResolve(u[1]))

-----------------------------------------------------------------------------
(* What is known of an expression or a symbol: TypeCheckInfo.  Where it is not *)
(* callable, returns is its type, so that tc_type_check_source_type is returns. *)

\* tc_type_check_info_make, ..._make_callable and ..._make_external_callable;
\* params is <<>> if there is no list of parameters.
Info(t) == [type |-> t, callable |-> FALSE, returns |-> t, params |-> <<>>]
Callable(t, params) == [type |-> t, callable |-> TRUE, returns |-> t, params |-> params]
Retyped(info, t) == [info EXCEPT !.type = t, !.returns = t]

\* hr_lower_expression and what it calls: a node of HIR, with the type known now.
Node(kind, info, name, parts) ==
  info @@ [kind |-> kind, text |-> name, parts |-> parts]
Plainly(kind, name, parts) == Node(kind, Info(Void), name, parts)
Result(info, node, k) == {<<[info |-> info, node |-> node], k>>}
Expr(kind, info, name, parts, k) == Result(info, Node(kind, info, name, parts), k)
NodesOf(rs) == [i \in DOMAIN rs |-> rs[i].node]

\* hr_lower_parameters; a parameter that takes the remaining arguments is "rest".
ParameterNodes(ps) ==
  [i \in DOMAIN ps |-> Node(IF ps[i][2] THEN "rest" ELSE "parameter", Info(TypeNamed(ps[i][1])), ps[i][3], <<>>)]

\* hr_lower_statement of a local, hr_lower_block, and hr_lower_body_to_block: an
\* expression becomes a block that returns it.
LocalNode(name, r) == Node("local", r.info, name, <<r.node>>)
BlockNode(kind, statements) == Plainly(kind, "", statements)
BodyNode(node) == Plainly("block", "", <<Plainly("return", "", <<node>>)>>)

-----------------------------------------------------------------------------
(* Symbols *)

\* BlockContext, and where in the program an expression is: the top-level symbols
\* being resolved, the internal locals of the innermost lambda, a manual block, the
\* expected type of the lambda or entry as a sequence, and which of them it is.
AtTopLevel(open) == [open |-> open, own |-> {}, manual |-> FALSE, expected |-> <<>>, in |-> "none"]

NameOfDecl(d) == CASE d[1] = "binding" -> d[4] [] d[1] \in {"union", "extern"} -> d[3] [] OTHER -> ""
DeclsOf(n) == {i \in DOMAIN typed[4] : NameOfDecl(typed[4][i]) = n}
DeclOf(n) == typed[4][CHOOSE i \in DeclsOf(n) : TRUE]
\* The names imports introduce, but for wildcards.
ImportedNames ==
  UNION {LET i == typed[3][j] IN
           CASE i[1] = "plain" -> {i[2][Len(i[2])]}
             [] i[1] \in {"alias", "selective"} -> {i[3][m] : m \in DOMAIN i[3]}
             [] OTHER -> {} : j \in DOMAIN typed[3]}

HasModifier(d, m) == \E i \in DOMAIN d[2] : d[2][i] = m

\* symbol->is_final, and the kinds of symbols that can be assigned to.
IsFinal(n, k) ==
  IF DeclsOf(n) # {} THEN HasModifier(DeclOf(n), "final") ELSE k[n].final
IsVariable(n, k) == IF DeclsOf(n) # {} THEN DeclOf(n)[1] = "binding" ELSE n \in DOMAIN k

Bind(k, n, r, final) == n :> [info |-> r.info, node |-> r.node, final |-> final] @@ k

\* tc_resolve_parameters_in_scope: in a manual block there is no resolved type.
BindParameters(ps, ctx, k) ==
  IF ctx.manual /\ ps # <<>> THEN {}
  ELSE {[n \in {ps[i][3] : i \in DOMAIN ps} |->
           LET i == CHOOSE j \in DOMAIN ps : ps[j][3] = n IN
             [info |-> Info(TypeNamed(ps[i][1])), node |-> ParameterNodes(ps)[i], final |-> FALSE]] @@ k}

RECURSIVE CheckExpression(_, _, _), CheckExpressions(_, _, _), CheckLambda(_, _, _, _)
RECURSIVE CheckStatements(_, _, _, _), ResolveDecl(_, _, _)

\* Elements of a heterogeneous array literal: tc_check_hetero_array_literal.
CheckHeteroArray(e, ctx, k) ==
  UNION {Expr("array", Info(NamedType("arr", 1, 0)), "", NodesOf(r[1]), r[2]) :
           r \in {q \in CheckExpressions(e[2], ctx, k) :
                    q[1] # <<>> /\ \A i \in DOMAIN q[1] : q[1][i].info.returns \notin {Void, Null}}}

\* tc_resolve_binding_symbol
ResolveBinding(type, initialiser, ctx, k) ==
  LET t == TypeNamed(type)
      checked == CASE initialiser[1] = "lambda" -> CheckLambda(initialiser, <<t>>, ctx, k)
                   [] initialiser[1] = "array" /\ IsHeteroArray(t) -> CheckHeteroArray(initialiser, ctx, k)
                   [] OTHER -> CheckExpression(initialiser, ctx, k)
      fits(i) == /\ t = Void => i.callable
                 /\ (i.callable /\ i.returns = External) \/ Assignable(t, i.returns)
  IN CASE type = <<"var">> -> {r \in CheckExpression(initialiser, ctx, k) :
                                 r[1].info.callable \/ r[1].info.type \notin {Void, Null}}
       [] type # <<"var">> /\ ctx.manual -> {}
       [] OTHER -> {<<[info |-> Retyped(r[1].info, t), node |-> r[1].node], r[2]>> :
                      r \in {q \in checked : fits(q[1].info)}}

\* The declaration of a top-level symbol, resolved from wherever it is used.
ResolveDecl(d, open, k) ==
  LET n == NameOfDecl(d)
      as(info) == {Bind(k, n, [info |-> info, node |-> Node(d[1], info, n, <<>>)], FALSE)} IN
    CASE d[1] = "binding" ->
           {Bind(r[2], n, r[1], FALSE) : r \in ResolveBinding(d[3], d[5], AtTopLevel(open \cup {n}), k)}
      [] d[1] = "extern" -> as([Callable(External, <<>>) EXCEPT !.returns = TypeNamed(d[2])])
      [] d[1] = "union" -> as(Info(NamedType(n, Len(d[4]), 0)))

\* tc_validate_internal_access fails: no lambda between the declaration and the use.
IsOwn(n, ctx) ==
  \/ n \in ctx.own
  \/ /\ ctx.in # "lambda" /\ DeclsOf(n) # {}
     /\ DeclOf(n)[1] = "binding" /\ HasModifier(DeclOf(n), "internal")

\* tc_resolve_symbol_info, of a name in an expression:
\* a lambda that is being resolved is a callable that returns something external.
\* hr_lower_expr_complex: a name of a wildcard is a member of its module.
ResolveName(n, ctx, k) ==
  LET symbol(info, q) == Expr("symbol", info, n, <<>>, q)
      resolved == n \in DOMAIN k
  IN CASE IsOwn(n, ctx) -> {}
       [] ~IsOwn(n, ctx) /\ resolved -> symbol(k[n].info, k)
       [] ~IsOwn(n, ctx) /\ ~resolved /\ n \in ctx.open ->
            IF DeclOf(n)[5][1] = "lambda" THEN symbol(Callable(External, <<DeclOf(n)[5][2]>>), k) ELSE {}
       [] ~IsOwn(n, ctx) /\ ~resolved /\ n \notin ctx.open /\ DeclsOf(n) # {} ->
            UNION {symbol(q[n].info, q) : q \in ResolveDecl(DeclOf(n), ctx.open, k)}
       [] ~resolved /\ DeclsOf(n) = {} /\ n \in ImportedNames -> symbol(Info(External), k)
       [] OTHER -> Expr("wildcard", Callable(External, <<>>), n, <<>>, k)

-----------------------------------------------------------------------------
(* Expressions *)

\* tc_expression_is_assignment_target: no element if it is none, else the name of
\* the symbol it belongs to, or "".
RECURSIVE AssignmentRoots(_, _)
AssignmentRoots(node, k) ==
  CASE node.kind = "symbol" -> IF IsVariable(node.text, k) THEN {node.text} ELSE {}
    [] node.kind \in {"index", "member"} ->
         IF node.parts[1].returns = External THEN {""} ELSE AssignmentRoots(node.parts[1], k)
    [] node.kind = "discard" -> {""}
    [] OTHER -> {}
IsTarget(node, k) == \E n \in AssignmentRoots(node, k) : n = "" \/ ~IsFinal(n, k)

\* tc_map_compound_assignment
OperatorOf ==
  "+=" :> "+" @@ "-=" :> "-" @@ "*=" :> "*" @@ "/=" :> "/" @@ "%=" :> "%"
  @@ "&=" :> "&" @@ "|=" :> "|" @@ "^=" :> "^" @@ "<<=" :> "<<" @@ ">>=" :> ">>"

\* What may be assigned: tc_check_expression.
MayAssign(op, target, value) ==
  IF op = "=" THEN (value.callable /\ value.returns = External) \/ Assignable(target.type, value.returns)
  ELSE \E t \in BinaryResult(OperatorOf[op], target.type, value.returns) : Assignable(target.type, t)

\* The arguments of a call: tc_check_expression_ext.
MayCall(callee, as) ==
  /\ callee.callable
  /\ IF callee.params = <<>> THEN \A i \in DOMAIN as : as[i].info.returns # Void
     ELSE LET ps == callee.params[1]
              takesRest == ps # <<>> /\ ps[Len(ps)][2] IN
            /\ IF takesRest THEN Len(as) >= Len(ps) - 1 ELSE Len(as) = Len(ps)
            /\ \A i \in DOMAIN as :
                 LET p == IF i <= Len(ps) THEN i ELSE Len(ps) IN
                   Assignable(TypeNamed(ps[p][1]), as[i].info.returns)

\* The type of a literal by its word: a number, a name of its kind.
LiteralType(w) ==
  CASE w \in Numbers -> Int32
    [] w = "null" -> Null
    [] w = "true" -> Bool
    [] w = "float literal" -> ValueType("float64", 0)
    [] w = "char literal" -> ValueType("char", 0)
    [] w = "string literal" -> String

\* The member of a union or of something external: tc_check_expression_more.
CheckMember(e, target, k) ==
  LET u == DeclOf(e[2][2])
      variants == {i \in DOMAIN u[5] : u[5][i][1] = e[3]}
      t == target.info.returns IN
    CASE t = External -> Expr("member", Callable(External, <<>>), e[3], <<target.node>>, k)
      [] t[1] = "named" /\ e[2][1] = "name" /\ (DeclsOf(e[2][2]) # {} /\ u[1] = "union") ->
           UNION {Expr("member", [Info(t) EXCEPT !.callable = (u[5][i][2] # <<>>)], e[3], <<target.node>>, k) :
                    i \in variants}
      [] OTHER -> {}

\* The operand of a unary operator, what an index finds, and what can be cast: in a
\* manual block the type of a cast is not resolved.
UnaryApplies(op, t) == CASE op = "!" -> t = Bool [] op = "~" -> IsIntegral(t) [] OTHER -> IsNumeric(t)
ElementsAt(t, index) ==
  CASE ~IsIntegral(index) -> {}
    [] IsIntegral(index) /\ t = External -> {External}
    [] OTHER -> IF t[1] = "value" /\ t[3] > 0 THEN {ValueType(t[2], t[3] - 1)} ELSE {}
CastType(e) == ValueType(e[2], 0)
CanBeCast(t, ctx) == ~ctx.manual /\ (t = External \/ IsNumeric(t))

\* A postfix operator has everything that is known of its operand.
CheckPost(op, o, k) == IF IsNumeric(o.info.returns) THEN Expr("post", o.info, op, <<o.node>>, k) ELSE {}

\* The common type of the elements of an array literal, which is a value.
RECURSIVE ElementTypes(_)
ElementTypes(rs) ==
  LET t == rs[Len(rs)].info.returns IN
    CASE t \in {Void, Null} -> {}
      [] t \notin {Void, Null} /\ Len(rs) = 1 -> {t}
      [] OTHER -> UNION {MergeTypes(m, t) : m \in ElementTypes(SubSeq(rs, 1, Len(rs) - 1))}

\* tc_check_expression, tc_check_expression_ext, tc_check_expression_more
CheckExpression(e, ctx, k) ==
  LET then1(x, Rule(_, _)) == AndThen(CheckExpression(x, ctx, k), Rule)
      both(x, y, Rule(_, _, _)) ==
        AndThen(CheckExpressions(<<x, y>>, ctx, k), LAMBDA rs, q : Rule(rs[1], rs[2], q))
  IN CASE e[1] = "literal" -> Expr("literal", Info(LiteralType(e[2])), e[2], <<>>, k)
       [] e[1] = "template" -> AndThen(CheckExpressions(e[2], ctx, k), LAMBDA rs, q :
            IF \E i \in DOMAIN rs : rs[i].info.returns = Void THEN {}
            ELSE Expr("template", Info(String), "", NodesOf(rs), q))
       [] e[1] = "name" -> ResolveName(e[2], ctx, k)
       [] e[1] = "lambda" -> CheckLambda(e, <<>>, ctx, k)
       [] e[1] = "assignment" -> both(e[3], e[4], LAMBDA t, v, q :
            LET info == IF t.node.kind = "discard" THEN v.info ELSE Retyped(v.info, t.info.type) IN
              IF IsTarget(t.node, q) /\ (t.node.kind = "discard" \/ MayAssign(e[2], t.info, v.info))
              THEN Expr("assignment", info, e[2], <<t.node, v.node>>, q) ELSE {})
       [] e[1] = "ternary" -> AndThen(CheckExpressions(SubSeq(e, 2, 4), ctx, k), LAMBDA rs, q :
            IF rs[1].info.returns # Bool THEN {}
            ELSE UNION {Expr("ternary", Info(t), "", NodesOf(rs), q) :
                          t \in MergeTypes(rs[2].info.returns, rs[3].info.returns)})
       [] e[1] = "binary" -> both(e[3], e[4], LAMBDA l, r, q :
            UNION {Expr("binary", Info(t), e[2], <<l.node, r.node>>, q) :
                     t \in BinaryResult(e[2], l.info.returns, r.info.returns)})
       [] e[1] = "unary" -> then1(e[3], LAMBDA o, q :
            LET t == o.info.returns IN
              IF UnaryApplies(e[2], t)
              THEN Expr("unary", Info(t), e[2], <<o.node>>, q) ELSE {})
       [] e[1] = "post" -> then1(e[3], LAMBDA o, q : CheckPost(e[2], o, q))
       [] e[1] = "call" -> then1(e[2], LAMBDA f, q : AndThen(CheckExpressions(e[3], ctx, q), LAMBDA as, p :
            IF MayCall(f.info, as)
            THEN Expr("call", Info(f.info.returns), "", <<f.node>> \o NodesOf(as), p) ELSE {}))
       [] e[1] = "index" -> both(e[2], e[3], LAMBDA t, i, q :
            UNION {Expr("index", Info(type), "", <<t.node, i.node>>, q) :
                     type \in ElementsAt(t.info.returns, i.info.returns)})
       [] e[1] = "member" -> then1(e[2], LAMBDA t, q : CheckMember(e, t, q))
       [] e[1] = "cast" -> then1(e[3], LAMBDA o, q :
            IF CanBeCast(o.info.returns, ctx)
            THEN Expr("cast", Info(CastType(e)), e[2], <<o.node>>, q) ELSE {})
       [] e[1] = "array" ->
            IF e[2] = <<>> THEN {}
            ELSE AndThen(CheckExpressions(e[2], ctx, k), LAMBDA rs, q :
              UNION {Expr("array", Info(ValueType(t[2], t[3] + 1)), "", NodesOf(rs), q) :
                       t \in {u \in ElementTypes(rs) : u[1] = "value"}})
       [] e[1] = "group" -> CheckExpression(e[2], ctx, k)
       [] e[1] = "discard" -> Expr("discard", Info(Void), "", <<>>, k)

CheckExpressions(es, ctx, k) ==
  IF es = <<>> THEN {<<<<>>, k>>}
  ELSE AndThen(CheckExpression(es[1], ctx, k), LAMBDA r, q :
         Tree(CheckExpressions(Tail(es), ctx, q), LAMBDA rs : <<r>> \o rs))

-----------------------------------------------------------------------------
(* Blocks *)

\* What has been seen of a block: the type it returns, whether it does, its HIR.
NothingSeen == [type |-> Void, returned |-> FALSE, nodes |-> <<>>]
Returning(seen, t) ==
  {[seen EXCEPT !.type = m, !.returned = TRUE] :
     m \in IF seen.returned THEN MergeReturnTypes(seen.type, t) ELSE {t}}
\* A manual block b that returned returns from the block around it.
AfterManual(seen, b) == IF b.returned THEN Returning(seen, b.type) ELSE {seen}
WantsValue(ctx) == ctx.expected # <<>> /\ ctx.expected # <<Void>>
MayExit(ctx) == ctx.in = "lambda" /\ ~WantsValue(ctx)
EndsRight(seen, ctx) == ctx.expected # <<>> => Assignable(ctx.expected[1], seen.type)

\* tc_check_block, from the statements ss on; hr_lower_statement.  A manual block is
\* checked like the block around it, its end included.
CheckStatements(ss, ctx, seen, k) ==
  LET s == ss[1]
      onward(ctx1, seen1, node, q) ==
        CheckStatements(Tail(ss), ctx1, [seen1 EXCEPT !.nodes = Append(@, node)], q)
      returning(t, node, q) == UNION {onward(ctx, r, node, q) : r \in Returning(seen, t)}
  IN CASE ss = <<>> -> IF EndsRight(seen, ctx) THEN {<<seen, k>>} ELSE {}
       [] ss # <<>> /\ s[1] = "local" -> AndThen(ResolveBinding(s[4], s[6], ctx, k), LAMBDA r, q :
            onward([ctx EXCEPT !.own = @ \cup (IF s[2] THEN {s[5]} ELSE {})], seen,
                   LocalNode(s[5], r), Bind(q, s[5], r, s[3])))
       [] ss # <<>> /\ s = <<"return", <<>>>> ->
            IF WantsValue(ctx) THEN {} ELSE returning(Void, Plainly("return", "", <<>>), k)
       [] ss # <<>> /\ (s[1] = "return" /\ s # <<"return", <<>>>>) ->
            AndThen(CheckExpression(s[2][1], ctx, k), LAMBDA r, q :
              IF ctx.expected # <<>> /\ ~Assignable(ctx.expected[1], r.info.returns) THEN {}
              ELSE returning(r.info.returns, Plainly("return", "", <<r.node>>), q))
       [] ss # <<>> /\ s[1] = "exit" ->
            IF MayExit(ctx) THEN returning(Void, Plainly("return", "", <<>>), k) ELSE {}
       [] ss # <<>> /\ s[1] \in {"throw", "expression"} -> AndThen(CheckExpression(s[2], ctx, k), LAMBDA r, q :
            onward(ctx, seen, Plainly(s[1], "", <<r.node>>), q))
       [] ss # <<>> /\ s[1] = "manual" ->
            AndThen(CheckStatements(s[3][2], [ctx EXCEPT !.manual = TRUE], NothingSeen, k), LAMBDA b, q :
              UNION {onward(ctx, after, BlockNode("manual", b.nodes), q) : after \in AfterManual(seen, b)})

\* The body of a lambda or an entry: its type and its HIR.
CheckBody(body, ctx, k) ==
  IF body[1] = "block"
  THEN AndThen(CheckStatements(body[2], ctx, NothingSeen, k), LAMBDA seen, q :
         {<<[type |-> seen.type, node |-> BlockNode("block", seen.nodes)], q>>})
  ELSE AndThen(CheckExpression(body, ctx, k), LAMBDA r, q :
         IF ctx.expected # <<>> /\ ~Assignable(ctx.expected[1], r.info.returns) THEN {}
         ELSE {<<[type |-> r.info.returns, node |-> BodyNode(r.node)], q>>})

\* tc_check_lambda_expression
CheckLambda(e, expected, ctx, k) ==
  UNION {AndThen(CheckBody(e[3], [ctx EXCEPT !.own = {}, !.expected = expected, !.in = "lambda"], q),
                 LAMBDA b, p : Expr("lambda", Callable(b.type, <<e[2]>>), "",
                                    Append(ParameterNodes(e[2]), b.node), p)) :
           q \in BindParameters(e[2], ctx, k)}

-----------------------------------------------------------------------------
(* Declarations *)

\* tc_check_start_decl, tc_check_boot_decl
CheckEntry(d, k) ==
  LET ctx == [AtTopLevel({}) EXCEPT !.expected = IF d[2] = "start" THEN <<Int32>> ELSE <<>>, !.in = d[2]] IN
    IF d[2] = "start" /\ (Len(d[3]) # 1 \/ d[3][1][1] # <<"type", "string", <<>>, <<"unsized">>>>) THEN {}
    ELSE UNION {{Bind(r[2], d[2], [info |-> Info(Void),
                                   node |-> Node("entry", Info(Void), d[2], Append(ParameterNodes(d[3]), r[1].node))],
                      FALSE) : r \in CheckBody(d[4], ctx, q)} :
                  q \in BindParameters(d[3], ctx, k)}

\* tc_validate_binding_modifiers
ModifiersAgree(d) == HasModifier(d, "private") => ~HasModifier(d, "export") /\ ~HasModifier(d, "public")

\* tc_validate_program_start_decls
HasOneEntry(p) == Cardinality({i \in DOMAIN p[4] : p[4][i][1] = "entry"}) = 1

TypedInit ==
  /\ typed \in TypedPrograms
  /\ turn = 0 /\ known = <<>> /\ judged = "checking"

\* type_checker_check_program, up to its loop
ResolveTypes ==
  /\ judged = "checking" /\ turn = 0
  /\ IF TypesResolve(typed) /\ HasOneEntry(typed)
     THEN turn' = 1 /\ UNCHANGED judged
     ELSE judged' = "rejected" /\ UNCHANGED turn
  /\ UNCHANGED <<typed, known>>

\* What is known after a declaration, which may be known already.
AfterDecl(d, k) ==
  CASE d[1] = "entry" -> CheckEntry(d, k)
    [] d[1] = "binding" /\ ~ModifiersAgree(d) -> {}
    [] OTHER -> IF NameOfDecl(d) \in DOMAIN k THEN {k} ELSE ResolveDecl(d, {}, k)

\* One round of the loop of type_checker_check_program
CheckDecl ==
  /\ judged = "checking" /\ turn \in DOMAIN typed[4]
  /\ LET after == AfterDecl(typed[4][turn], known) IN
       \/ /\ after = {} /\ judged' = "rejected" /\ UNCHANGED <<turn, known>>
       \/ /\ \E k \in after : known' = k
          /\ turn' = turn + 1
          /\ judged' = IF turn = Len(typed[4]) THEN "accepted" ELSE judged
  /\ UNCHANGED typed

TypedNext == ResolveTypes \/ CheckDecl
TypedSpec == TypedInit /\ [][TypedNext]_typeVars
=============================================================================
