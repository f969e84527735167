------------------------------- MODULE MCJsx --------------------------------
(* Small files with components: one or two widgets in every form, right and     *)
(* wrong, between what may stand between them.                                   *)
EXTENDS JsxFile

MCContents ==
  "'a'" :> <<"a">> @@ "'nn'" :> <<"nn">> @@ "'1'" :> <<"1">> @@ "'#6'" :> <<"#6">> @@ "'#3'" :> <<"#3">>
  @@ "'color: #6;'" :> <<"color", ":", " ", "#6", ";">> @@ "'color: #3'" :> <<"color", ":", " ", "#3">>
  @@ "'x: 1; color: #8'" :> <<"x", ":", " ", "1", ";", " ", "color", ":", "#8">>
  @@ "'background-color: #6'" :> <<"background", "-", "color", ":", " ", "#6">>
MCPartsOfWords == {<<"n", "nn">>, <<"n", "'nn'">>}
MCCounts == "0" :> 0 @@ "1" :> 1 @@ "2" :> 2

Signal(x) == <<"signal", x>>
Call(x) == <<"call", x>>
Number(n) == <<"number", n>>
Plus(e, f) == <<"sum", e, f>>
UpOne(x) == <<x, Plus(Call(x), Number("1"))>>

Child(e) == <<"element", e>>
Value(e) == <<"value", e>>
Literal(w) == Value(<<"string", w>>)
Hole(e) == <<"value", e>>
Letter(c) == <<"char", c>>

BarePieces == {Signal("n"), Call("n"), Number("1"), Plus(Call("n"), Signal("n")), Plus(Number("1"), Signal("n")),
               Plus(Signal("n"), Signal("n")), Plus(Call("n"), Number("1")), Signal("m")}
Templates == {<<Hole(Call("n"))>>, <<Letter("a"), Hole(Plus(Call("n"), Call("m"))), Letter("a")>>,
              <<Hole(Call("n")), Hole(Number("1"))>>, <<Hole(Signal("n"))>>, <<Hole(Number("1"))>>,
              <<Letter("n")>>, <<Letter("a")>>, <<Letter("nn"), Hole(Number("1"))>>}
Pieces == {<<"text", <<"a">>>>, <<"text", <<"a", " ", "nn">>>>, Literal("'a'"), Literal("'nn'")}
          \cup {Value(e) : e \in BarePieces} \cup {<<"template", t>> : t \in Templates}
PlainText == <<"text", <<"a">>>>
SomePieces == {PlainText, Literal("'a'"), Value(Signal("n")), <<"template", <<Letter("a"), Hole(Call("n"))>>>>}

Element(tag, attrs, children, gap) == [tag |-> tag, attrs |-> attrs, children |-> children, gap |-> gap]
Gaps == {<<>>, <<" ">>, <<"newline">>, <<" ", "/", "*", "x", "*", "/">>}

Colour == <<"color">>
Attributes ==
  {<<"number", n, e>> : n \in {"size", "x", "width"}, e \in {Number("2"), Plus(Number("1"), Number("1")), Signal("n")}}
  \cup {<<"bare", "size", "2">>, <<"quoted", "size", "'1'">>, <<"quoted", "id", "'a'">>, <<"flag", "id">>}
  \cup {<<"css", "style", "'color: #6;'", "#6", Colour>>, <<"css", "style", "'color: #3'", "#3", Colour>>,
        <<"css", "style", "'x: 1; color: #8'", "#8", Colour>>,
        <<"css", "style", "'background-color: #6'", "#6", <<"background", "-", "color">>>>,
        <<"style", "style", "'#6'", "#6", Colour>>, <<"style", "style", "'#3'", "#3", Colour>>,
        <<"style", "style", "'#6'", "#6", <<"background", "-", "color">>>>}
Clicks == {<<"click", ss>> : ss \in {<<UpOne("n")>>, <<<<"n", Number("0")>>>>, <<<<"n", Plus(Signal("n"), Number("1"))>>>>,
                                     <<UpOne("n"), <<"m", Call("n")>>>>, <<UpOne("m")>>}}


\* Windows with a counter, its button and one thing more.
Counter(g) == Element("Text", <<>>, <<Value(Signal("n"))>>, g)
Button(attrs, p, g) == Element("Button", attrs, <<Child(Element("Text", <<>>, <<p>>, g))>>, g)
PlusButton(g) == Button(<<<<"click", <<UpOne("n")>>>>>>, Literal("'a'"), g)
Windows(es, g) == Element("Window", <<>>, [k \in DOMAIN es |-> Child(es[k])], g)
Component(name, signals, root) == [name |-> name, signals |-> signals, root |-> root]
File(cs, mounts) == [chars |-> FileText(cs, mounts), components |-> cs, mounts |-> mounts]
NandM == <<<<"n", Number("0")>>, <<"m", Number("1")>>>>
Main(es, g) == Component("Main", NandM, Windows(es, g))
Differ(a, b) == a[1] \in {"number", "bare"} /\ b[1] \in {"number", "css", "style"} /\ a[2] # b[2]

Things(g) ==
  {Element("Text", <<>>, <<p>>, g) : p \in Pieces}
  \cup {Element("Text", <<>>, <<p, q>>, g) : p \in SomePieces \ {PlainText}, q \in SomePieces}
  \cup {Element("Text", <<a>>, <<Literal("'a'")>>, g) : a \in Attributes}
  \cup {Element(tag, <<a>>, <<>>, g) : tag \in {"Image", "Pointer", "Button"}, a \in Attributes}
  \cup {Element("Image", s, <<>>, g) : s \in {r \in Attributes \X Attributes : Differ(r[1], r[2])}}
  \cup {Button(<<c>>, p, g) : c \in Clicks, p \in SomePieces}
  \cup {Element("Button", <<>>, <<Child(Element("Image", <<>>, <<>>, g)), Child(Counter(g))>>, g),
        Element("Main", <<>>, <<>>, g), Element("Window", <<>>, <<Child(Counter(g))>>, g)}
OneMore == UNION {{File(<<Main(<<Counter(g), PlusButton(g), e>>, g)>>, <<"Main">>) : e \in Things(g)} : g \in Gaps}

\* Other files: signals, handlers and components, fewer and more than there may be.
ThreeSignals == NandM \o <<<<"z", Number("2")>>>>
SomeSignals == {ThreeSignals, <<<<"n", Number("0")>>, <<"n", Number("1")>>>>}
               \cup {<<<<"m", Number("1")>>, <<"n", e>>>> : e \in {Signal("m"), Call("m"), Plus(Number("1"), Number("1"))}}
TextOfZ == Element("Text", <<>>, <<Value(Signal("z"))>>, <<>>)
ManyButtons(n) == [k \in 1 .. n |-> PlusButton(<<>>)] \o <<Counter(<<>>)>>
OneM == <<<<"m", Number("1")>>>>
Others == {Component("Other", s, Windows(es, <<>>)) :
             s \in {<<>>, OneM}, es \in {<<>>, <<Element("Image", <<>>, <<>>, <<>>)>>}}
          \cup {Component("Other", OneM, Windows(<<Element("Text", <<>>, <<Value(Signal("m"))>>, <<>>)>>, <<>>))}
Mains == {Main(<<>>, <<>>), Main(<<Counter(<<>>), PlusButton(<<>>)>>, <<>>)}
OtherFiles ==
  {File(<<Component("Main", s, Windows(<<Counter(<<>>), PlusButton(<<>>)>>, <<>>))>>, <<"Main">>) : s \in SomeSignals}
  \cup {File(<<Component("Main", ThreeSignals, Windows(<<Counter(<<>>), TextOfZ>>, <<>>))>>, <<"Main">>)}
  \cup {File(<<Main(ManyButtons(n), <<>>)>>, <<"Main">>) : n \in 0 .. 3}
  \cup {File(cs, ms) : cs \in UNION {{<<m, o>>, <<o, m>>} : m \in Mains, o \in Others},
                       ms \in {<<"Main">>, <<"Other">>, <<"Main", "Other">>}}
MCFiles == OneMore \cup OtherFiles
MCOneFile == File(<<Main(<<>>, <<>>)>>, <<"Main">>)
=============================================================================
