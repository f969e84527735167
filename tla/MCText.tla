------------------------------- MODULE MCText -------------------------------
(* Small programs for the tokenizer and the parser, right and wrong.           *)
EXTENDS Parser

NameX == <<"name", "x">>
NameY == <<"name", "y">>
Compare(o, e, f) == <<"binary", o, e, f>>
Assign(e, f) == <<"assignment", "=", e, f>>
Says(e) == <<"expression", e>>
Braced(ss) == <<"block", ss>>
Inside(ss) == <<"program", <<>>, <<>>, <<<<"entry", "boot", <<>>, Braced(ss)>>>>>>
Alone(d) == <<"program", <<>>, <<>>, <<d>>>>

Plain(n) == <<"type", n, <<>>, <<>>>>
Arr(t) == <<"arr", <<t>>>>
SimpleTypes ==
  {<<"void">>, Plain("int"), Plain("x"), <<"type", "int", <<>>, <<"unsized", "1">>>>,
   Arr(<<"any">>), <<"arr", <<Plain("int"), Plain("x")>>>>}
SomeTypes ==
  SimpleTypes \cup UNION {{Arr(t), Arr(Arr(Arr(t))), <<"type", "x", <<Plain("y"), t>>, <<"1">>>>} :
                            t \in SimpleTypes}
IntX == <<Plain("int"), FALSE, "x">>
AnyY == <<Plain("x"), TRUE, "y">>

\* Every operand of every kind of expression in the place of every other, with an
\* operator of each level and some that share one; and some three deep.
SomeInfix == {"||", "&&", "|", "~&", "^", "~^", "&", "==", "<", ">", ">>", "<<", "+", "-", "*", "/"}
With(e) ==
  {<<"lambda", <<IntX>>, e>>, <<"lambda", <<>>, Braced(<<<<"return", <<e>>>>>>)>>,
   Assign(NameX, e), <<"assignment", "+=", e, NameX>>, <<"ternary", e, NameX, NameY>>,
   <<"ternary", NameX, e, NameY>>, <<"ternary", NameX, NameY, e>>,
   <<"unary", "-", e>>, <<"unary", "++", e>>, <<"post", "++", e>>, <<"member", e, "y">>,
   <<"index", e, NameX>>, <<"index", NameX, e>>, <<"call", e, <<>>>>,
   <<"call", NameX, <<NameY, e>>>>, <<"array", <<e, NameX>>>>, <<"group", e>>,
   <<"cast", "int", e>>, <<"template", <<e>>>>, <<"template", <<NameX, e>>>>}
  \cup UNION {{Compare(o, e, NameY), Compare(o, NameX, e)} : o \in SomeInfix}
Flat == {NameX, <<"literal", "1">>, <<"discard">>, <<"template", <<>>>>, <<"array", <<>>>>} \cup With(NameX)
Some(e) ==
  {<<"lambda", <<>>, e>>, <<"lambda", <<>>, Braced(<<Says(e)>>)>>, <<"ternary", NameX, e, NameY>>,
   <<"ternary", NameX, NameY, e>>, Compare("+", e, NameY), Assign(NameX, e), <<"group", e>>,
   <<"unary", "~", e>>, <<"call", e, <<>>>>, <<"template", <<e>>>>}
SomeOf(es) == UNION {Some(e) : e \in es}
SomeExpressions == Flat \cup UNION {With(e) : e \in Flat} \cup SomeOf(SomeOf(Some(NameX)))

\* Statements, and pairs of statements in which a "<" may find a ">".
SomeStatements ==
  {<<"local", FALSE, FALSE, t, "y", NameX>> : t \in SomeTypes}
  \cup {<<"local", i, f, t, "y", <<"lambda", <<>>, NameX>>>> :
          i, f \in BOOLEAN, t \in {<<"var">>, Plain("int")}}
  \cup {<<"return", <<>>>>, <<"exit">>, <<"throw", NameX>>, <<"manual", TRUE, Braced(<<>>)>>,
        <<"manual", FALSE, Braced(<<Says(NameX)>>)>>}
Comparing ==
  {Says(Compare("<", NameX, NameY)), Says(Compare(">", NameX, NameY)),
   Says(Assign(Compare(">", NameX, NameY), NameX)), Says(Assign(Compare(">>", NameX, NameY), NameX)),
   Says(Compare("<", NameX, <<"group", Compare("<", NameX, NameY)>>)),
   Says(Assign(Compare(">", Compare("<", NameX, NameX), NameY), NameX)),
   <<"local", FALSE, FALSE, Arr(Arr(Plain("x"))), "y", NameX>>,
   <<"manual", FALSE, Braced(<<Says(Compare("<", NameX, NameY))>>)>>}

\* Declarations and imports.
SomeModifiers == {<<>>, <<"public">>, <<"export", "final">>, <<"static", "internal", "private">>}
SomeEntries == {<<"entry", n, ps, NameX>> : n \in {"start", "boot"},
                  ps \in {<<>>, <<IntX>>, <<IntX, AnyY>>, <<AnyY, IntX>>}}
SomeExterns ==
  LET parameter(t, dots) == <<"parameter", t, dots, "x">>
      others == <<"variadic">> IN
    {<<"extern", t, "y", ps>> : t \in {<<"void">>, Plain("x")},
       ps \in {<<>>, <<others>>, <<parameter(Plain("int"), FALSE)>>,
               <<parameter(Plain("int"), FALSE), others>>, <<parameter(Plain("x"), TRUE)>>}}
SomeUnions ==
  {<<"union", m, "x", g, v>> : m \in SomeModifiers, g \in {<<>>, <<"x">>, <<"x", "y">>},
     v \in {<<<<"x", <<>>>>>>, <<<<"x", <<Plain("int")>>>>, <<"y", <<>>>>>>,
            <<<<"x", <<Arr(Arr(Plain("x")))>>>>>>}}
SomeBindings ==
  {<<"binding", m, t, "x", NameX>> : m \in SomeModifiers, t \in SomeTypes \cup {<<"var">>}}
  \cup {<<"binding", <<>>, <<"var">>, "x", <<"lambda", ps, NameX>>>> :
          ps \in {<<<<t, dots, "x">>>> : t \in SomeTypes, dots \in BOOLEAN}
                 \cup {<<IntX, <<t, FALSE, "y">>>> : t \in SimpleTypes} \cup {<<AnyY, IntX>>}}
SomeImports ==
  {<<k, n, <<>>>> : k \in {"plain", "wildcard"}, n \in {<<"x">>, <<"x", "y">>}}
  \cup {<<"alias", <<"x", "y">>, <<"y">>>>, <<"selective", <<"x", "y">>, <<"x", "y">>>>,
        <<"selective", <<"x">>, <<"x">>>>}
SomeHeads ==
  {<<"program", p, is, <<<<"binding", <<>>, <<"var">>, "x", NameX>>>>>> :
     p \in {<<>>, <<<<"x">>>>, <<<<"x", "y">>>>},
     is \in {<<>>} \cup {<<i>> : i \in SomeImports} \cup {<<i, j>> : i, j \in SomeImports}}

SmallTrees ==
  {Inside(<<Says(e)>>) : e \in SomeExpressions} \cup {Inside(<<s>>) : s \in SomeStatements}
  \cup {Inside(<<s, r>>) : s, r \in Comparing}
  \cup {Alone(d) : d \in SomeEntries \cup SomeExterns \cup SomeUnions \cup SomeBindings} \cup SomeHeads
FlatTrees == {Inside(<<Says(e)>>) : e \in Flat}

\* Texts: with and without spaces, some with comments, and some that lack a token
\* or repeat one.
Space == <<" ">>
Comment == <<" ", "/", "*", "*", "x", "*", "/", "/", "/", "tick", "newline">>
Writing(trees, gaps) == {[tokens |-> TextOf(t), gap |-> g, tree |-> t] : t \in trees, g \in gaps}
Lacking(s, i) == SubSeq(s, 1, i - 1) \o SubSeq(s, i + 1, Len(s))
Twice(s, i) == SubSeq(s, 1, i) \o SubSeq(s, i, Len(s))
Damaged(s) == UNION {{Lacking(s, i), Twice(s, i)} : i \in DOMAIN s}
MCTexts ==
  Writing(SmallTrees, {<<>>, Space}) \cup Writing(FlatTrees, {Comment})
  \cup {[tokens |-> s, gap |-> Space, tree |-> NoTree] :
          s \in UNION {Damaged(TextOf(t)) :
                         t \in FlatTrees \cup {Inside(<<s>>) : s \in SomeStatements}
                               \cup {Alone(d) : d \in SomeEntries \cup SomeExterns \cup SomeUnions}}}
MCOneText == [tokens |-> <<>>, gap |-> <<>>, tree |-> NoTree]
=============================================================================
