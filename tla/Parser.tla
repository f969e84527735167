------------------------------- MODULE Parser -------------------------------
(***************************************************************************)
(* From the tokens of a Calynda program to its syntax tree                 *)
(* (compiler/src/parser).                                                  *)
(*                                                                         *)
(* A parsing operator takes the tokens from parser->current on and gives   *)
(* the tree it read with the tokens that are left, as a set: no element    *)
(* stands for a syntax error, which ends the parsing, and there is never   *)
(* more than one.  A tree is a tuple that begins with its kind.  Names and *)
(* literals stand for themselves; positions in the source are left out.    *)
(***************************************************************************)
EXTENDS SourceText

CONSTANTS Identifiers, Numbers, OtherLiterals  \* words: names, numbers, other literals

VARIABLE parsed  \* the program, NoTree as long as there is none

parserVars == <<scanVars, parsed>>

\* is_primitive_type_token, with one primitive type
Primitives == {"int"}

\* parser_token_at, parser_match, parser_consume
Peek(s, i) == IF i \in DOMAIN s THEN s[i] ELSE "end of file"
Match(s, t) == IF Peek(s, 1) = t THEN {Tail(s)} ELSE {}

\* What is read next, then the tokens t, then op of it.
Tree(results, Op(_)) == {<<Op(r[1]), r[2]>> : r \in results}
Then(results, t) == {<<r[1], Tail(r[2])>> : r \in {q \in results : Peek(q[2], 1) = t}}
AndThen(results, Op(_, _)) == UNION {Op(r[1], r[2]) : r \in results}

RECURSIVE Expression(_), Assignment(_), Ternary(_), Binary(_, _), Unary(_), Postfix(_)
RECURSIVE Block(_), Statements(_), Expressions(_), Interpolations(_), Type(_), GenericArgs(_)
RECURSIVE PostfixOf(_, _), BinaryOf(_, _, _), Dimensions(_), Parameters(_)

-----------------------------------------------------------------------------
(* Names and types *)

\* parser_parse_qualified_name: it stops before ".*" and ".{".
RECURSIVE QualifiedName(_)
QualifiedName(s) ==
  IF Peek(s, 1) \notin Identifiers THEN {}
  ELSE IF Peek(s, 2) = "." /\ Peek(s, 3) \notin {"*", "{"}
       THEN Tree(QualifiedName(SubSeq(s, 3, Len(s))), LAMBDA n : <<s[1]>> \o n)
       ELSE {<<<<s[1]>>, Tail(s)>>}

\* A comma-separated list of names.
RECURSIVE Names(_)
Names(s) ==
  IF Peek(s, 1) \notin Identifiers THEN {}
  ELSE IF Peek(s, 2) = ","
       THEN Tree(Names(SubSeq(s, 3, Len(s))), LAMBDA n : <<s[1]>> \o n)
       ELSE {<<<<s[1]>>, Tail(s)>>}

\* parser_consume_gt: of a ">>" the first half closes one list of arguments, the
\* second half is left for another.
CloseArguments(results) ==
  Then(results, ">")
  \cup {<<r[1], <<">">> \o Tail(r[2])>> : r \in {q \in results : Peek(q[2], 1) = ">>"}}

\* parser_parse_generic_args
GenericArgs(s) ==
  LET argument == IF Peek(s, 1) = "?" THEN {<<<<"any">>, Tail(s)>>} ELSE Type(s) IN
    AndThen(argument, LAMBDA a, r :
      IF Peek(r, 1) = "," THEN Tree(GenericArgs(Tail(r)), LAMBDA as : <<a>> \o as)
      ELSE {<<<<a>>, r>>})

Arguments(s) == CloseArguments(GenericArgs(Tail(s)))
OptionalArguments(s) == IF Peek(s, 1) = "<" THEN Arguments(s) ELSE {<<<<>>, s>>}

Dimensions(s) ==
  CASE Peek(s, 1) = "[" /\ Peek(s, 2) = "]" ->
         Tree(Dimensions(SubSeq(s, 3, Len(s))), LAMBDA d : <<"unsized">> \o d)
    [] Peek(s, 1) = "[" /\ Peek(s, 2) \in Numbers /\ Peek(s, 3) = "]" ->
         Tree(Dimensions(SubSeq(s, 4, Len(s))), LAMBDA d : <<s[2]>> \o d)
    [] Peek(s, 1) = "[" -> {}
    [] OTHER -> {<<<<>>, s>>}

\* parser_parse_type
Type(s) ==
  CASE Peek(s, 1) = "void" -> {<<<<"void">>, Tail(s)>>}
    [] Peek(s, 1) = "arr" ->
         IF Peek(s, 2) = "<" THEN Tree(Arguments(Tail(s)), LAMBDA as : <<"arr", as>>) ELSE {}
    [] Peek(s, 1) \in Identifiers \cup Primitives ->
         AndThen(OptionalArguments(Tail(s)), LAMBDA as, r :
           Tree(Dimensions(r), LAMBDA d : <<"type", s[1], as, d>>))
    [] OTHER -> {}

\* parser_parse_parameter_list, one parameter or more; a list that may be empty
\* ends at ")".
Parameters(s) ==
  AndThen(Type(s), LAMBDA t, r :
    LET dots == Peek(r, 1) = "..."
        named == IF dots THEN Tail(r) ELSE r IN
      CASE Peek(named, 1) \notin Identifiers -> {}
        [] Peek(named, 1) \in Identifiers /\ Peek(named, 2) = "," /\ ~dots ->
             Tree(Parameters(SubSeq(named, 3, Len(named))),
                  LAMBDA ps : <<<<t, dots, named[1]>>>> \o ps)
        [] OTHER -> {<<<<<<t, dots, named[1]>>>>, Tail(named)>>})
OptionalParameters(s) == IF Peek(s, 1) = ")" THEN {<<<<>>, s>>} ELSE Parameters(s)

-----------------------------------------------------------------------------
(* Looking ahead *)

\* scan_generic_args_pattern: the position after the arguments whose "<" is at i,
\* 0 if there is none.  Whatever is between is not looked at.
PastArguments(s, i) ==
  LET past[j \in 1 .. Len(s) + 1, depth \in 0 .. Len(s) + 1] ==
        CASE depth = 0 -> j
          [] depth > 0 /\ Peek(s, j) = "end of file" -> 0
          [] depth > 0 /\ Peek(s, j) = "<" -> past[j + 1, depth + 1]
          [] depth > 0 /\ Peek(s, j) = ">" -> past[j + 1, depth - 1]
          [] depth > 0 /\ Peek(s, j) = ">>" -> IF depth < 2 THEN 0 ELSE past[j + 1, depth - 2]
          [] OTHER -> past[j + 1, depth]
  IN past[i + 1, 1]

\* scan_type_pattern: the position after a type that begins at i, 0 if there is none.
PastDimensions(s, i) ==
  LET past[j \in 0 .. Len(s) + 3] ==
        CASE j > 0 /\ Peek(s, j) = "[" /\ Peek(s, j + 1) = "]" -> past[j + 2]
          [] j > 0 /\ Peek(s, j) = "[" /\ Peek(s, j + 1) \in Numbers /\ Peek(s, j + 2) = "]" -> past[j + 3]
          [] j > 0 /\ Peek(s, j) = "[" -> 0
          [] OTHER -> j
  IN past[i]
PastType(s, i) ==
  CASE Peek(s, i) = "void" -> i + 1
    [] Peek(s, i) = "arr" -> IF Peek(s, i + 1) = "<" THEN PastArguments(s, i + 1) ELSE 0
    [] Peek(s, i) \in Identifiers \cup Primitives ->
         PastDimensions(s, IF Peek(s, i + 1) = "<" THEN PastArguments(s, i + 1) ELSE i + 1)
    [] OTHER -> 0

\* looks_like_lambda_expression
LooksLikeLambda(s) ==
  LET parameters[i \in 1 .. Len(s) + 1] ==
        LET past == PastType(s, i)
            named == IF Peek(s, past) = "..." THEN past + 1 ELSE past IN
          /\ past # 0
          /\ Peek(s, named) \in Identifiers
          /\ \/ Peek(s, named + 1) = "," /\ parameters[named + 2]
             \/ Peek(s, named + 1) = ")" /\ Peek(s, named + 2) = "->"
  IN /\ Peek(s, 1) = "("
     /\ IF Peek(s, 2) = ")" THEN Peek(s, 3) = "->" ELSE parameters[2]

\* looks_like_local_binding_statement, of a statement that begins with a type.
LooksLikeLocalBinding(s) ==
  LET past == PastType(s, 1) IN
    past # 0 /\ Peek(s, past) \in Identifiers /\ Peek(s, past + 1) = "="

-----------------------------------------------------------------------------
(* Expressions *)

\* parser_parse_lambda_body: no lambda without parentheses or a block.
LambdaBody(s) == IF Peek(s, 1) = "{" THEN Block(s) ELSE Assignment(s)

\* parse_expression_node, parse_lambda_expression
Expression(s) ==
  IF LooksLikeLambda(s)
  THEN AndThen(Then(Then(OptionalParameters(Tail(s)), ")"), "->"), LAMBDA ps, r :
         Tree(LambdaBody(r), LAMBDA b : <<"lambda", ps, b>>))
  ELSE Assignment(s)

AssignmentOperators == {"=", "+=", "-=", "*=", "/=", "%=", "&=", "|=", "^=", "<<=", ">>="}

\* parse_assignment_expression
Assignment(s) ==
  AndThen(Ternary(s), LAMBDA target, r :
    IF Peek(r, 1) \in AssignmentOperators
    THEN Tree(Assignment(Tail(r)), LAMBDA v : <<"assignment", r[1], target, v>>)
    ELSE {<<target, r>>})

\* parse_ternary_expression
Ternary(s) ==
  AndThen(Binary(1, s), LAMBDA c, r :
    IF Peek(r, 1) = "?"
    THEN AndThen(Then(Expression(Tail(r)), ":"), LAMBDA a, q :
           Tree(Ternary(q), LAMBDA b : <<"ternary", c, a, b>>))
    ELSE {<<c, r>>})

\* parse_logical_or_expression to parse_multiplicative_expression, from the
\* operators that bind least.
Levels ==
  <<{"||"}, {"&&"}, {"|"}, {"~&"}, {"^"}, {"~^"}, {"&"}, {"==", "!="}, {"<", ">", "<=", ">="},
    {"<<", ">>"}, {"+", "-"}, {"*", "/", "%"}>>

\* parser_parse_binary_level: an operand, and the operators and operands after it.
Binary(k, s) ==
  IF k > Len(Levels) THEN Unary(s)
  ELSE AndThen(Binary(k + 1, s), LAMBDA left, r : BinaryOf(k, left, r))
\* bug: the operators of a level associate to the right
RightToLeft(k, left, s) ==
  IF Peek(s, 1) \in Levels[k]
  THEN Tree(Binary(k, Tail(s)), LAMBDA right : <<"binary", s[1], left, right>>)
  ELSE {<<left, s>>}

BinaryOf(k, left, s) ==
  IF Peek(s, 1) \in Levels[k]
  THEN AndThen(Binary(k + 1, Tail(s)), LAMBDA right, r : BinaryOf(k, <<"binary", s[1], left, right>>, r))
  ELSE {<<left, s>>}

\* parse_unary_expression
Unary(s) ==
  IF Peek(s, 1) \in {"++", "--", "!", "~", "-", "+"}
  THEN Tree(Unary(Tail(s)), LAMBDA e : <<"unary", s[1], e>>)
  ELSE Postfix(s)

Expressions(s) ==
  AndThen(Expression(s), LAMBDA e, r :
    IF Peek(r, 1) = "," THEN Tree(Expressions(Tail(r)), LAMBDA es : <<e>> \o es) ELSE {<<<<e>>, r>>})
ExpressionsTo(s, close) ==
  IF Peek(s, 1) = close THEN {<<<<>>, Tail(s)>>} ELSE Then(Expressions(s), close)

\* parse_template_literal_expression after its start.
Interpolations(s) ==
  AndThen(Expression(s), LAMBDA e, r :
    CASE Peek(r, 1) = "}part${" -> Tree(Interpolations(Tail(r)), LAMBDA es : <<e>> \o es)
      [] Peek(r, 1) = "}template" -> {<<<<e>>, Tail(r)>>}
      [] OTHER -> {})

\* parse_cast_expression: a primitive type, and an expression in parentheses.
Cast(s) ==
  Tree(Then(Expression(SubSeq(s, 3, Len(s))), ")"), LAMBDA e : <<"cast", s[1], e>>)

\* parse_primary_expression, parse_array_literal_expression
Primary(s) ==
  LET t == Peek(s, 1) IN
    CASE t \in Numbers \cup OtherLiterals -> {<<<<"literal", t>>, Tail(s)>>}
      [] t \in Identifiers -> {<<<<"name", t>>, Tail(s)>>}
      [] t = "_" -> {<<<<"discard">>, Tail(s)>>}
      [] t = "template" -> {<<<<"template", <<>>>>, Tail(s)>>}
      [] t = "template${" -> Tree(Interpolations(Tail(s)), LAMBDA es : <<"template", es>>)
      [] t = "(" -> Tree(Then(Expression(Tail(s)), ")"), LAMBDA e : <<"group", e>>)
      [] t = "[" -> Tree(ExpressionsTo(Tail(s), "]"), LAMBDA es : <<"array", es>>)
      [] t \in Primitives /\ Peek(s, 2) = "(" -> Cast(s)
      [] OTHER -> {}

\* parse_postfix_expression
Postfix(s) == AndThen(Primary(s), LAMBDA e, r : PostfixOf(e, r))
PostfixOf(e, s) ==
  CASE Peek(s, 1) = "(" ->
         AndThen(ExpressionsTo(Tail(s), ")"), LAMBDA as, r : PostfixOf(<<"call", e, as>>, r))
    [] Peek(s, 1) = "[" ->
         AndThen(Then(Expression(Tail(s)), "]"), LAMBDA i, r : PostfixOf(<<"index", e, i>>, r))
    [] Peek(s, 1) = "." ->
         IF Peek(s, 2) \in Identifiers
         THEN PostfixOf(<<"member", e, s[2]>>, SubSeq(s, 3, Len(s))) ELSE {}
    [] Peek(s, 1) \in {"++", "--"} -> PostfixOf(<<"post", s[1], e>>, Tail(s))
    [] OTHER -> {<<e, s>>}

-----------------------------------------------------------------------------
(* Statements *)

\* parse_block
Block(s) ==
  UNION {Tree(Then(Statements(r), "}"), LAMBDA b : <<"block", b>>) : r \in Match(s, "{")}

Flag(s, t) == {<<Peek(s, 1) = t, IF Peek(s, 1) = t THEN Tail(s) ELSE s>>}
TypeOrVar(s) == IF Peek(s, 1) = "var" THEN {<<<<"var">>, Tail(s)>>} ELSE Type(s)

\* A name, "=" and an initialiser.
Binding(s) ==
  IF Peek(s, 1) \in Identifiers /\ Peek(s, 2) = "="
  THEN Tree(Expression(SubSeq(s, 3, Len(s))), LAMBDA e : <<s[1], e>>) ELSE {}

LocalBinding(s) ==
  AndThen(Flag(s, "internal"), LAMBDA i, r : AndThen(Flag(r, "final"), LAMBDA f, q :
    AndThen(TypeOrVar(q), LAMBDA t, p : Tree(Binding(p), LAMBDA b : <<"local", i, f, t, b[1], b[2]>>))))

\* "checked" is a name like any other elsewhere.
ManualBlock(s) ==
  AndThen(Flag(Tail(s), "checked"), LAMBDA c, r : Tree(Block(r), LAMBDA b : <<"manual", c, b>>))
ExpressionStatement(s) == Tree(Expression(s), LAMBDA e : <<"expression", e>>)

\* parse_statement, without its ";"
Statement(s) ==
  LET t == Peek(s, 1) IN
    CASE t = "return" -> IF Peek(s, 2) = ";" THEN {<<<<"return", <<>>>>, Tail(s)>>}
                         ELSE Tree(Expression(Tail(s)), LAMBDA e : <<"return", <<e>>>>)
      [] t = "exit" -> {<<<<"exit">>, Tail(s)>>}
      [] t = "throw" -> Tree(Expression(Tail(s)), LAMBDA e : <<"throw", e>>)
      [] t \in {"internal", "final", "var"} \/ LooksLikeLocalBinding(s) -> LocalBinding(s)
      [] t = "manual" -> ManualBlock(s)
      [] OTHER -> ExpressionStatement(s)

Statements(s) ==
  IF Peek(s, 1) \in {"}", "end of file"} THEN {<<<<>>, s>>}
  ELSE AndThen(Then(Statement(s), ";"), LAMBDA a, r : Tree(Statements(r), LAMBDA as : <<a>> \o as))

-----------------------------------------------------------------------------
(* Declarations *)

RECURSIVE Modifiers(_), Variants(_), ExternParameters(_), Imports(_), TopLevelDecls(_)

\* The modifiers before a binding or a union; parse_top_level_decl looks past them.
Modifiers(s) ==
  IF Peek(s, 1) \in {"public", "private", "final", "export", "static", "internal"}
  THEN Tree(Modifiers(Tail(s)), LAMBDA ms : <<s[1]>> \o ms)
  ELSE {<<<<>>, s>>}

\* parser_parse_block_or_expression_body
EntryBody(s) == IF Peek(s, 1) = "{" THEN Block(s) ELSE Expression(s)

\* parse_start_decl, parse_boot_decl: start has a parameter.
EntryDecl(s) ==
  UNION {AndThen(Then(Then(IF s[1] = "start" THEN Parameters(r) ELSE OptionalParameters(r), ")"), "->"),
             LAMBDA ps, q : Tree(EntryBody(q), LAMBDA b : <<"entry", s[1], ps, b>>)) :
           r \in Match(Tail(s), "(")}

\* parser_parse_extern_param_list, one parameter or more.
ExternParameters(s) ==
  IF Peek(s, 1) = "..." THEN {<<<<<<"variadic">>>>, Tail(s)>>}
  ELSE AndThen(Type(s), LAMBDA t, r :
    LET dots == Peek(r, 1) = "..."
        named == IF dots THEN Tail(r) ELSE r IN
      CASE Peek(named, 1) \notin Identifiers -> {}
        [] Peek(named, 1) \in Identifiers /\ Peek(named, 2) = "," /\ ~dots ->
             Tree(ExternParameters(SubSeq(named, 3, Len(named))),
                  LAMBDA ps : <<<<"parameter", t, dots, named[1]>>>> \o ps)
        [] OTHER -> {<<<<<<"parameter", t, dots, named[1]>>>>, Tail(named)>>})

\* parse_extern_decl
ExternDecl(s) ==
  AndThen(Type(Tail(s)), LAMBDA t, r :
    IF Peek(r, 1) \in Identifiers /\ SubSeq(r, 2, 4) = <<"=", "c", "(">>
    THEN LET q == SubSeq(r, 5, Len(r)) IN
           Tree(Then(IF Peek(q, 1) = ")" THEN {<<<<>>, q>>} ELSE ExternParameters(q), ")"),
                LAMBDA ps : <<"extern", t, r[1], ps>>)
    ELSE {})

\* parse_binding_decl
BindingDecl(s) ==
  AndThen(Modifiers(s), LAMBDA ms, r : AndThen(TypeOrVar(r), LAMBDA t, q :
    Tree(Binding(q), LAMBDA b : <<"binding", ms, t, b[1], b[2]>>)))

\* parse_union_decl: a name, the names of type parameters, and the variants.
Variants(s) ==
  IF Peek(s, 1) \notin Identifiers THEN {}
  ELSE AndThen(IF Peek(s, 2) = "("
           THEN Tree(Then(Type(SubSeq(s, 3, Len(s))), ")"), LAMBDA t : <<t>>)
           ELSE {<<<<>>, Tail(s)>>},
         LAMBDA t, r : IF Peek(r, 1) = ","
                       THEN Tree(Variants(Tail(r)), LAMBDA vs : <<<<s[1], t>>>> \o vs)
                       ELSE {<<<<<<s[1], t>>>>, r>>})
UnionDecl(s) ==
  AndThen(Modifiers(s), LAMBDA ms, r :
    IF Peek(r, 1) = "union" /\ Peek(r, 2) \in Identifiers
    THEN AndThen(IF Peek(r, 3) = "<" THEN Then(Names(SubSeq(r, 4, Len(r))), ">")
             ELSE {<<<<>>, SubSeq(r, 3, Len(r))>>}, LAMBDA ns, q :
           UNION {Tree(Then(Variants(p), "}"), LAMBDA vs : <<"union", ms, r[2], ns, vs>>) :
                    p \in Match(q, "{")})
    ELSE {})

\* parse_top_level_decl, without its ";"
TopLevelDecl(s) ==
  LET t == Peek(s, 1) IN
    CASE t \in {"start", "boot"} -> EntryDecl(s)
      [] t = "extern" -> ExternDecl(s)
      [] OTHER -> IF \E m \in Modifiers(s) : Peek(m[2], 1) = "union"
                  THEN UnionDecl(s) ELSE BindingDecl(s)
TopLevelDecls(s) ==
  IF s = <<>> THEN {<<<<>>, s>>}
  ELSE AndThen(Then(TopLevelDecl(s), ";"), LAMBDA d, r :
         Tree(TopLevelDecls(r), LAMBDA ds : <<d>> \o ds))

\* An import after its name.
ImportOf(n, s) ==
  CASE Peek(s, 1) = "as" /\ Peek(s, 2) \in Identifiers ->
         {<<<<"alias", n, <<s[2]>>>>, SubSeq(s, 3, Len(s))>>}
    [] Peek(s, 1) = "." /\ Peek(s, 2) = "*" -> {<<<<"wildcard", n, <<>>>>, SubSeq(s, 3, Len(s))>>}
    [] Peek(s, 1) = "." /\ Peek(s, 2) = "{" ->
         Tree(Then(Names(SubSeq(s, 3, Len(s))), "}"), LAMBDA ns : <<"selective", n, ns>>)
    [] Peek(s, 1) \in {"as", "."} -> {}
    [] OTHER -> {<<<<"plain", n, <<>>>>, s>>}
Imports(s) ==
  IF Peek(s, 1) # "import" THEN {<<<<>>, s>>}
  ELSE AndThen(Then(AndThen(QualifiedName(Tail(s)), LAMBDA n, r : ImportOf(n, r)), ";"),
         LAMBDA i, r : Tree(Imports(r), LAMBDA is : <<i>> \o is))

\* parser_parse_program
Program(s) ==
  AndThen(IF Peek(s, 1) = "package"
      THEN Tree(Then(QualifiedName(Tail(s)), ";"), LAMBDA n : <<n>>) ELSE {<<<<>>, s>>},
    LAMBDA p, r : AndThen(Imports(r), LAMBDA is, q :
      Tree(TopLevelDecls(q), LAMBDA ds : <<"program", p, is, ds>>)))

SyntaxError == <<"syntax error">>

ParserInit == ScanInit /\ parsed = NoTree

Parse ==
  /\ scan = "done" /\ parsed = NoTree
  /\ LET read == Program(tokens) IN
       \/ read = {} /\ parsed' = SyntaxError
       \/ \E r \in read : parsed' = r[1]
  /\ UNCHANGED scanVars

ParserNext == (ScanNext /\ UNCHANGED parsed) \/ Parse

ParserSpec == ParserInit /\ [][ParserNext]_parserVars

-----------------------------------------------------------------------------
(* Which tree a text stands for *)

\* The operands of an expression and the parts of a statement or declaration that
\* contain expressions, each with the least rank it may have.
Rank(e) ==
  CASE e[1] = "lambda" -> 0
    [] e[1] = "assignment" -> 1
    [] e[1] = "ternary" -> 2
    [] e[1] = "binary" -> 2 + (CHOOSE k \in DOMAIN Levels : e[2] \in Levels[k])
    [] e[1] = "unary" -> 3 + Len(Levels)
    [] OTHER -> 4 + Len(Levels)
Each(es) == {<<es[i], 0>> : i \in DOMAIN es}
Operands(e) ==
  CASE e[1] = "lambda" -> {<<e[3], 1>>}
    [] e[1] = "assignment" -> {<<e[3], 2>>, <<e[4], 1>>}
    [] e[1] = "ternary" -> {<<e[2], 3>>, <<e[3], 0>>, <<e[4], 2>>}
    [] e[1] = "binary" -> {<<e[3], Rank(e)>>, <<e[4], Rank(e) + 1>>}
    [] e[1] = "unary" -> {<<e[3], Rank(e)>>}
    [] e[1] = "post" -> {<<e[3], 4 + Len(Levels)>>}
    [] e[1] = "member" -> {<<e[2], 4 + Len(Levels)>>}
    [] e[1] = "index" -> {<<e[2], 4 + Len(Levels)>>, <<e[3], 0>>}
    [] e[1] = "call" -> {<<e[2], 4 + Len(Levels)>>} \cup Each(e[3])
    [] e[1] \in {"array", "template", "block", "return"} -> Each(e[2])
    [] e[1] \in {"group", "throw", "expression"} -> {<<e[2], 0>>}
    [] e[1] \in {"cast", "manual"} -> {<<e[3], 0>>}
    [] e[1] = "entry" -> {<<e[4], 0>>}
    [] e[1] \in {"local", "binding"} -> {<<e[Len(e)], 0>>}
    [] e[1] = "program" -> Each(e[4])
    [] OTHER -> {}

\* Only the last parameter takes any number of arguments, and start has one.
ParametersOf(e) == IF e[1] = "lambda" THEN e[2] ELSE IF e[1] = "entry" THEN e[3] ELSE <<>>
RECURSIVE Grammatical(_)
Grammatical(e) ==
  /\ \A i \in DOMAIN ParametersOf(e) : ParametersOf(e)[i][2] => i = Len(ParametersOf(e))
  /\ e[1] = "entry" /\ e[2] = "start" => e[3] # <<>>
  /\ \A u \in Operands(e) : Rank(u[1]) >= u[2] /\ Grammatical(u[1])

\* How a tree is written.  The mark "statement" begins an expression statement.
RECURSIVE Written(_), Listed(_, _), Ended(_)
Optional(flag, t) == IF flag THEN <<t>> ELSE <<>>
Listed(ts, between) ==
  IF ts = <<>> THEN <<>>
  ELSE Written(ts[1]) \o (IF Len(ts) > 1 THEN between ELSE <<>>) \o Listed(Tail(ts), between)
Ended(ts) == IF ts = <<>> THEN <<>> ELSE Written(ts[1]) \o <<";">> \o Ended(Tail(ts))
Separated(ns, between) == Listed([i \in DOMAIN ns |-> <<"name", ns[i]>>], <<between>>)
OfParameters(ps) ==
  Listed([i \in DOMAIN ps |-> <<"parameter", ps[i][1], ps[i][2], ps[i][3]>>], <<",">>)
Written(t) ==
  CASE t[1] \in {"void", "var", "exit"} -> <<t[1]>>
    [] t[1] = "any" -> <<"?">>
    [] t[1] = "arr" -> <<"arr", "<">> \o Listed(t[2], <<",">>) \o <<">">>
    [] t[1] = "type" ->
         <<t[2]>> \o (IF t[3] = <<>> THEN <<>> ELSE <<"<">> \o Listed(t[3], <<",">>) \o <<">">>)
         \o Listed([i \in DOMAIN t[4] |-> <<"dimension", t[4][i]>>], <<>>)
    [] t[1] = "dimension" -> <<"[">> \o Optional(t[2] # "unsized", t[2]) \o <<"]">>
    [] t[1] = "parameter" -> Written(t[2]) \o Optional(t[3], "...") \o <<t[4]>>
    [] t[1] = "variadic" -> <<"...">>
    [] t[1] \in {"literal", "name"} -> <<t[2]>>
    [] t[1] = "discard" -> <<"_">>
    [] t[1] = "lambda" -> <<"(">> \o OfParameters(t[2]) \o <<")", "->">> \o Written(t[3])
    [] t[1] \in {"assignment", "binary"} -> Written(t[3]) \o <<t[2]>> \o Written(t[4])
    [] t[1] = "ternary" -> Written(t[2]) \o <<"?">> \o Written(t[3]) \o <<":">> \o Written(t[4])
    [] t[1] = "unary" -> <<t[2]>> \o Written(t[3])
    [] t[1] = "post" -> Written(t[3]) \o <<t[2]>>
    [] t[1] = "member" -> Written(t[2]) \o <<".", t[3]>>
    [] t[1] = "index" -> Written(t[2]) \o <<"[">> \o Written(t[3]) \o <<"]">>
    [] t[1] = "call" -> Written(t[2]) \o <<"(">> \o Listed(t[3], <<",">>) \o <<")">>
    [] t[1] = "array" -> <<"[">> \o Listed(t[2], <<",">>) \o <<"]">>
    [] t[1] = "group" -> <<"(">> \o Written(t[2]) \o <<")">>
    [] t[1] = "cast" -> <<t[2], "(">> \o Written(t[3]) \o <<")">>
    [] t[1] = "template" ->
         IF t[2] = <<>> THEN <<"template">>
         ELSE <<"template${">> \o Listed(t[2], <<"}part${">>) \o <<"}template">>
    [] t[1] = "block" -> <<"{">> \o Ended(t[2]) \o <<"}">>
    [] t[1] = "return" -> <<"return">> \o Listed(t[2], <<>>)
    [] t[1] = "throw" -> <<"throw">> \o Written(t[2])
    [] t[1] = "expression" -> <<"statement">> \o Written(t[2])
    [] t[1] = "manual" -> <<"manual">> \o Optional(t[2], "checked") \o Written(t[3])
    [] t[1] = "local" -> Optional(t[2], "internal") \o Optional(t[3], "final") \o Written(t[4])
                         \o <<t[5], "=">> \o Written(t[6])
    [] t[1] = "binding" -> t[2] \o Written(t[3]) \o <<t[4], "=">> \o Written(t[5])
    [] t[1] = "entry" -> <<t[2], "(">> \o OfParameters(t[3]) \o <<")", "->">> \o Written(t[4])
    [] t[1] = "extern" -> <<"extern">> \o Written(t[2]) \o <<t[3], "=", "c", "(">>
                          \o Listed(t[4], <<",">>) \o <<")">>
    [] t[1] = "union" ->
         t[2] \o <<"union", t[3]>>
         \o (IF t[4] = <<>> THEN <<>> ELSE <<"<">> \o Separated(t[4], ",") \o <<">">>)
         \o <<"{">> \o Listed([i \in DOMAIN t[5] |-> <<"variant">> \o t[5][i]], <<",">>) \o <<"}">>
    [] t[1] = "variant" ->
         <<t[2]>> \o (IF t[3] = <<>> THEN <<>> ELSE <<"(">> \o Written(t[3][1]) \o <<")">>)
    [] t[1] \in {"plain", "alias", "wildcard", "selective"} ->
         <<"import">> \o Separated(t[2], ".")
         \o (CASE t[1] = "plain" -> <<>>
               [] t[1] = "alias" -> <<"as">> \o t[3]
               [] t[1] = "wildcard" -> <<".", "*">>
               [] t[1] = "selective" -> <<".", "{">> \o Separated(t[3], ",") \o <<"}">>)
    [] t[1] = "program" ->
         (IF t[2] = <<>> THEN <<>> ELSE <<"package">> \o Separated(t[2][1], ".") \o <<";">>)
         \o Ended(t[3]) \o Ended(t[4])

\* The two halves of a ">>" may also close two lists of type arguments.
RECURSIVE Halved(_)
Halved(s) ==
  IF s = <<>> THEN <<>>
  ELSE (IF s[1] = ">>" THEN <<">", ">">> ELSE <<s[1]>>) \o Halved(Tail(s))
TextOf(t) == SelectSeq(Written(t), LAMBDA w : w # "statement")

\* An expression statement begins with a name and "<", and the ">" that balances
\* it, wherever that is, comes before a name and "=".
Misread(t) ==
  \E p \in DOMAIN Written(t) :
    /\ Written(t)[p] = "statement"
    /\ LET s == Halved(SelectSeq(SubSeq(Written(t), p, Len(Written(t))), LAMBDA w : w # "statement"))
           open(k) == Len(SelectSeq(SubSeq(s, 1, k), LAMBDA w : w = "<"))
                      - Len(SelectSeq(SubSeq(s, 1, k), LAMBDA w : w = ">")) IN
         /\ Peek(s, 1) \in Identifiers /\ Peek(s, 2) = "<"
         /\ \E k \in DOMAIN s : /\ open(k) = 0 /\ \A j \in 2 .. k - 1 : open(j) > 0
                               /\ k > 2 /\ Peek(s, k + 1) \in Identifiers /\ Peek(s, k + 2) = "="

\* The parser loses nothing of what it accepts, and reads a program as the tree it
\* was written from exactly if its operands are parenthesised where the grammar of
\* the parser asks for it; except that a "<" in an expression statement is taken
\* for that of a type by what comes after the statement.
TreeIsRead ==
  parsed # NoTree =>
    /\ parsed # SyntaxError => Halved(TextOf(parsed)) = Halved(tokens) /\ Grammatical(parsed)
    /\ text.tree # NoTree /\ Halved(tokens) = Halved(text.tokens) =>
         (parsed = text.tree <=> Grammatical(text.tree) /\ ~Misread(text.tree))
=============================================================================
