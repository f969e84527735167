------------------------------- MODULE MCTypes --------------------------------
(* Small programs for the type checker and the emitter.  Every name means one  *)
(* thing in a program.                                                         *)
EXTENDS Sequences

Prim(t) == <<"type", t, <<>>, <<>>>>
Ints == <<"type", "int32", <<>>, <<"unsized">>>>
Strings == <<"type", "string", <<>>, <<"unsized">>>>
Var == <<"var">>
NameE(n) == <<"name", n>>
Lit(w) == <<"literal", w>>
One == Lit("1")
Half1 == Lit("float literal")
Str == Lit("string literal")
True == Lit("true")
Bin(op, l, r) == <<"binary", op, l, r>>
CallOf(f, as) == <<"call", f, as>>
Let(t, n, e) == <<"local", FALSE, FALSE, t, n, e>>
Do1(e) == <<"expression", e>>
Return(e) == <<"return", <<e>>>>
BlockWith(ss) == <<"block", ss>>
Fn(t, n, b) == <<"lambda", <<<<t, FALSE, n>>>>, b>>
RestFn(t, n, b) == <<"lambda", <<<<t, TRUE, n>>>>, b>>
Thunk(b) == <<"lambda", <<>>, b>>
Global(t, n, e) == <<"binding", <<>>, t, n, e>>
Modified(ms, t, n, e) == <<"binding", ms, t, n, e>>
Boot(ss) == <<"entry", "boot", <<>>, BlockWith(ss)>>
Start(t, b) == <<"entry", "start", <<<<t, FALSE, "args">>>>, b>>
FromPackages == <<<<"plain", <<"m">>, <<>>>>, <<"wildcard", <<"w">>, <<>>>>>>
ProgramOf(ds) == <<"program", <<>>, FromPackages, ds>>
BothOrders(d, e) == {ProgramOf(<<d, e>>), ProgramOf(<<e, d>>)}

\* A function of one parameter, what it computes with it, what it is called with.
P == NameE("p")
WithP ==
  {Bin(op, P, y) : op \in {"+", "<", "==", "%"}, y \in {One, Half1, Str}}
  \cup {<<"ternary", True, P, y>> : y \in {One, Half1, Lit("null")}}
  \cup {<<"assignment", op, P, y>> : op \in {"=", "+="}, y \in {One, Half1, Str}}
  \cup {<<"index", <<"array", <<P, y>>>>, One>> : y \in {One, Half1, Str}}
  \cup {<<"unary", op, P>> : op \in {"-", "~", "++"}}
  \cup {P, <<"cast", "int32", P>>, <<"cast", "string", P>>, <<"template", <<P>>>>, <<"index", P, One>>,
        <<"array", <<P>>>>, <<"post", "--", P>>, <<"group", Bin("*", <<"group", Bin("-", P, P)>>, P)>>,
        Bin("&&", P, True), CallOf(P, <<>>), <<"member", P, "q">>}
Taken == {Prim("int32"), Prim("float32"), Prim("float"), Prim("string"), Ints}
Given == {<<>>, <<One>>, <<Half1>>, <<Str>>, <<<<"array", <<One, One>>>>>>, <<One, One>>}
OneFunction ==
  {ProgramOf(<<Global(Var, "f", Fn(t, "p", b)), Boot(<<Let(Var, "r", CallOf(NameE("f"), as)), Do1(u)>>)>>) :
     t \in Taken, b \in WithP, as \in Given, u \in {Bin("+", NameE("r"), NameE("r")), <<"array", <<NameE("r")>>>>}}

\* Of every type a binding that is a function or a value, and its use before or
\* after it.
Results == {Var, <<"void">>, Prim("int32"), Prim("float32"), Prim("string"), Ints, <<"arr", <<<<"any">>>>>>}
Values1 == {One, Half1, Str, Lit("null"), <<"array", <<One>>>>, <<"array", <<One, Half1>>>>, <<"array", <<Str>>>>}
Bodies == {BlockWith(ss) : ss \in {<<>>, <<<<"return", <<>>>>>>, <<<<"exit">>>>, <<Return(One), Return(Half1)>>,
                                 <<Return(One), Return(Str)>>, <<Return(Str)>>,
                                 <<<<"manual", FALSE, BlockWith(<<Return(One)>>)>>>>}}
Bound == Values1 \cup {Thunk(v) : v \in Values1} \cup {Thunk(b) : b \in Bodies}
UsesOfG == {Do1(Bin("*", NameE("g"), One)), Do1(CallOf(NameE("g"), <<>>)), Let(Prim("float32"), "h", NameE("g")),
         Do1(<<"assignment", "=", NameE("g"), One>>),
         Let(Var, "h", Bin("-", CallOf(NameE("g"), <<>>), Half1)),
         Do1(<<"assignment", "=", <<"index", NameE("g"), One>>, One>>)}
OneBinding == UNION {BothOrders(Global(t, "g", b), Boot(<<u>>)) : t \in Results, b \in Bound, u \in UsesOfG}

\* Functions that call each other, take or return functions, or any number of
\* arguments; foreign names; manual blocks; modifiers; entries.
Even(n) == Fn(Prim("int32"), n, <<"ternary", Bin("<", NameE(n), One), True, CallOf(NameE("odd"), <<NameE(n)>>)>>)
Odd(n) == Fn(Prim("int32"), n, CallOf(NameE("even"), <<NameE(n)>>))
Extern(ps) == <<"extern", Prim("float32"), "x", ps>>
Shape == <<"union", <<>>, "Shape", <<"T">>, <<<<"A", <<>>>>, <<"B", <<Prim("int32")>>>>>>>>
G1 == NameE("g")
Special ==
  BothOrders(Global(Var, "even", Even("p")), Global(Prim("bool"), "odd", Odd("q")))
  \cup {ProgramOf(<<d, e, Boot(<<Let(Prim("bool"), "r", CallOf(NameE("even"), <<One>>))>>)>>) :
          d \in {Global(t, "even", Even("p")) : t \in {Var, Prim("bool")}},
          e \in {Global(t, "odd", Odd("q")) : t \in {Var, Prim("bool"), Prim("string")}}}
  \cup {ProgramOf(<<Global(Var, "g", Fn(Prim("int32"), "p", b)), Boot(<<Do1(CallOf(G1, <<One>>))>>)>>) :
          b \in {<<"ternary", True, Half1, Bin("+", CallOf(G1, <<P>>), One)>>,
                 BlockWith(<<Let(Prim("int32"), "h", CallOf(G1, <<P>>)), Do1(NameE("h")), Return(Half1)>>)}}
  \cup {ProgramOf(<<Global(Var, "g", Fn(Prim("int32"), "p", One)),
                    Boot(<<Do1(<<"assignment", "=", G1, Fn(Prim("string"), "q", BlockWith(<<Do1(NameE("q")), Return(One)>>))>>),
                           Do1(CallOf(G1, <<One>>))>>)>>)}
  \cup {ProgramOf(<<Global(Var, "g", RestFn(t, "p", Bin("+", P, P))), Boot(<<Do1(CallOf(G1, as))>>)>>) :
          t \in {Prim("int32"), Prim("float32"), Prim("string")},
          as \in {<<>>, <<One>>, <<One, Half1>>, <<Str, Str>>}}
  \cup {ProgramOf(<<Global(Var, "g", Thunk(Thunk(One))), Boot(<<s>>)>>) :
          s \in {Do1(CallOf(CallOf(G1, <<>>), <<>>)), Let(Var, "h", G1), Let(Prim("int32"), "h", G1),
                 Do1(<<"assignment", "=", G1, Thunk(One)>>),
                 Do1(<<"assignment", "=", G1, Fn(Prim("int32"), "p", P)>>),
                 Do1(<<"array", <<G1>>>>), Do1(<<"template", <<G1>>>>)}}
  \cup {ProgramOf(<<Extern(ps), Shape, Boot(<<s>>)>>) :
          ps \in {<<>>, <<<<"parameter", Prim("int32"), FALSE, "q">>>>},
          s \in {Let(Var, "r", CallOf(NameE("x"), <<One>>)), Let(Prim("string"), "r", NameE("w1")),
                 Do1(CallOf(NameE("w1"), <<Str>>)), Do1(CallOf(<<"member", NameE("m"), "q">>, <<One>>)),
                 Let(Var, "r", <<"member", NameE("Shape"), "A">>), Let(Var, "r", <<"member", NameE("Shape"), "C">>),
                 Let(Var, "r", CallOf(<<"member", NameE("Shape"), "B">>, <<One>>)),
                 Do1(<<"assignment", "=", <<"member", NameE("m"), "q">>, One>>),
                 Do1(<<"assignment", "=", <<"discard">>, One>>), Do1(Bin("-", NameE("m"), Half1))}}
  \cup {ProgramOf(<<Boot(<<s, <<"manual", FALSE, BlockWith(<<u>>)>>>>)>>) :
          s \in {Let(Var, "r", Half1), <<"local", TRUE, TRUE, Var, "r", One>>},
          u \in {Do1(<<"assignment", "=", NameE("r"), One>>), Let(Prim("int32"), "h", NameE("r")),
                 Let(Var, "h", Thunk(One)), Let(Var, "h", Fn(Prim("int32"), "p", P)), <<"throw", NameE("r")>>,
                 Let(Var, "h", <<"cast", "int32", NameE("r")>>)}}
  \cup {ProgramOf(<<Modified(ms, Var, "g", b), Boot(<<s>>)>>) :
          ms \in {<<"final">>, <<"internal">>, <<"private", "export">>, <<"public", "static">>},
          b \in {One, Thunk(G1)},
          s \in {Do1(<<"unary", "++", G1>>), Do1(<<"assignment", "+=", G1, One>>), Let(Var, "h", Thunk(G1))}}
  \cup {ProgramOf(<<Start(t, b)>>) :
          t \in {Strings, Prim("string")},
          b \in {One, Half1, Str, <<"index", NameE("args"), One>>, BlockWith(<<Return(One)>>), BlockWith(<<>>),
                 BlockWith(<<<<"exit">>>>), BlockWith(<<Do1(<<"template", <<<<"index", NameE("args"), One>>>>>>), Return(One)>>)}}
  \cup {ProgramOf(<<Boot(<<>>), Boot(<<>>)>>), ProgramOf(<<Global(<<"type", "int32", <<>>, <<"0">>>>, "g", One), Boot(<<>>)>>)}
\* Arrays of floats and of integers, compared, taken apart and assigned.
OneArray ==
  {ProgramOf(<<Global(t, "g", <<"array", <<Half1>>>>), Boot(<<u>>)>>) :
     t \in {Var, Ints} \cup {<<"type", f, <<>>, <<"unsized">>>> : f \in {"float32", "double"}},
     u \in {Do1(Bin(op, G1, e)) : op \in {"==", "!=", "+", "<"}, e \in {G1, Lit("null"), Half1, <<"array", <<One>>>>, NameE("w1")}}
           \cup {Do1(Bin(op, <<"index", G1, One>>, e)) : op \in {"==", "+"}, e \in {One, Half1}}
           \cup {Do1(<<"assignment", "=", G1, <<"array", <<e>>>>>>) : e \in {One, Half1}}
           \cup {Do1(<<"unary", "-", e>>) : e \in {G1, <<"index", G1, One>>}}}
MCTyped == OneArray \cup OneFunction \cup OneBinding \cup Special
MCOneTyped == ProgramOf(<<Boot(<<>>)>>)
=============================================================================
