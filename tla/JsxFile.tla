------------------------------ MODULE JsxFile -------------------------------
(***************************************************************************)
(* A source file with components: from its characters to what the window   *)
(* shows.  calynda hands such a file to jsx_compile_to_c, past the parser  *)
(* and the checker: the JSX tokenizer (tokenizer/calynda_jsx_tokenizer.c)  *)
(* wraps the tokenizer of SourceText, the JSX parser                       *)
(* (parser/calynda_jsx_parser.c) reads elements, and the emitter           *)
(* (c_emit/c_emit_jsx_file.c) writes C that builds widgets through         *)
(* solite_gui_bridge.  The C program is modelled by its definitions and    *)
(* statements, then run: it builds a window once, and clicks call its      *)
(* handlers.                                                               *)
(*                                                                         *)
(* As in SourceText a word, a number or a string literal is one character. *)
(***************************************************************************)
EXTENDS Parser, SequencesExt

CONSTANTS
  Files,         \* [chars, components, mounts]: a text and what is written in it
                 \* (the last section)
  JsxNames,      \* identifiers that begin with a small letter
  TagNames,      \* identifiers that begin with a capital
  OnNames,       \* the names that begin with "on"
  Contents,      \* the string literals, and the characters in their quotes
  Counts,        \* the numbers, and what they stand for
  Colours,       \* "#" with six or eight digits
  PartsOfWords,  \* pairs of a name and a word or literal that it is a part of
  MaxSignals,    \* MAX_SIGNALS, 32 in the code
  MaxHandlers,   \* MAX_HANDLERS, 64 in the code
  MaxShown       \* bound: a click happens only while the signals are below it

VARIABLES
  file,     \* one of Files
  meant,    \* the values of the signals, if every click does what is written
  lexer,    \* jt->in_jsx, in_jsx_tag, jsx_depth and jsx_expr_depth
  stream,   \* the tokens that jsx_tokenizer_next returns
  walk,     \* the next token of jsx_compile_to_c
  output,     \* what has been emitted
  phase,    \* "tokens", "emit", then "failed", "refused" (by the C compiler) or "runs"
  screen    \* of the running program: [widgets, children, effects, clicks, values]

jsxOwnVars == <<file, meant, lexer, stream, walk, output, phase, screen>>
jsxVars == <<scanVars, jsxOwnVars>>

-----------------------------------------------------------------------------
(* The tokenizer *)

KindOf(w) ==
  CASE w \in JsxNames \cup TagNames -> "identifier"
    [] w \in DOMAIN Contents -> "string"
    [] w \in DOMAIN Counts -> "int"
    [] OTHER -> w
JsxToken(type, w, from, to) == [type |-> type, word |-> w, from |-> from, to |-> to]

Past(p, cs) == CHOOSE q \in p .. Len(chars) + 1 :
                 CharAt(q) \notin cs /\ \A r \in p .. q - 1 : CharAt(r) \in cs
OffBlank(p) == Past(p, Blank)
FirstFrom(p, cs) == CHOOSE q \in p .. Len(chars) + 1 :
                      CharAt(q) \in cs \cup {"end"} /\ \A r \in p .. q - 1 : CharAt(r) \notin cs

\* A token that the tokenizer of SourceText does not see, read from p to q.
JsxReads(type, w, p, q) ==
  /\ stream' = Append(stream, JsxToken(type, w, p, q))
  /\ cursor' = q
  /\ UNCHANGED <<text, chars, braces, tokens, scan>>
\* A token of SourceText.
BaseReads == (ResumeTemplate \/ OpenTemplate \/ ReadToken) /\ tokens' # tokens
BaseToken(type) ==
  stream' = Append(stream, JsxToken(type, Last(tokens'), AfterBlank[cursor], cursor'))

\* The tag whose "<" is before p.
OpensTag(from, p) ==
  LET named == CharAt(p) \in TagNames \cup JsxNames IN
    JsxReads("open", IF named THEN CharAt(p) ELSE "", from, IF named THEN p + 1 ELSE p)
LeavesElement == [lexer EXCEPT !.depth = @ - 1, !.inJsx = lexer.depth # 1]

\* In "{ }": braces are counted, except those of templates.
ReadInExpression ==
  /\ lexer.inJsx /\ lexer.braces > 0
  /\ BaseReads
  /\ LET t == Last(tokens')
         open == lexer.braces + (IF t = "{" THEN 1 ELSE IF t = "}" THEN -1 ELSE 0) IN
       /\ lexer' = [lexer EXCEPT !.braces = open]
       /\ BaseToken(IF open = 0 THEN "expr end" ELSE KindOf(t))

\* In an opening tag.  Comments are no blanks here, but they are to SourceText.
ReadInTag ==
  LET p == OffBlank(cursor) IN
    /\ lexer.inJsx /\ lexer.braces = 0 /\ lexer.inTag
    /\ \/ /\ CharAt(p) = "/" /\ CharAt(p + 1) = ">"
          /\ JsxReads("self close", "", p, p + 2)
          /\ lexer' = [LeavesElement EXCEPT !.inTag = FALSE]
       \/ /\ CharAt(p) = ">"
          /\ JsxReads("tag end", "", p, p + 1)
          /\ lexer' = [lexer EXCEPT !.inTag = FALSE]
       \/ /\ CharAt(p) = "{"
          /\ JsxReads("expr start", "", p, p + 1)
          /\ lexer' = [lexer EXCEPT !.braces = 1]
       \/ /\ CharAt(p) \notin {">", "{"} /\ <<CharAt(p), CharAt(p + 1)>> # <<"/", ">">>
          /\ BaseReads /\ BaseToken(KindOf(Last(tokens')))
          /\ UNCHANGED lexer

\* Between tags.
ReadInContent ==
  LET p == OffBlank(cursor) IN
    /\ lexer.inJsx /\ lexer.braces = 0 /\ ~lexer.inTag /\ CharAt(p) # "end"
    /\ \/ /\ CharAt(p) = "{"
          /\ JsxReads("expr start", "", p, p + 1)
          /\ lexer' = [lexer EXCEPT !.braces = 1]
       \/ /\ CharAt(p) = "<" /\ CharAt(p + 1) = "/"
          /\ JsxReads("close", IF CharAt(p + 2) \in TagNames \cup JsxNames THEN CharAt(p + 2) ELSE "",
                      p, FirstFrom(p + 2, {">"}) + 1)
          /\ lexer' = LeavesElement
       \/ /\ CharAt(p) = "<" /\ CharAt(p + 1) # "/"
          /\ OpensTag(p, p + 1)
          /\ lexer' = [lexer EXCEPT !.inTag = TRUE, !.depth = @ + 1]
       \/ /\ CharAt(p) \notin {"{", "<"}
          /\ JsxReads("text", "", p, FirstFrom(p, {"<", "{"}))
          /\ UNCHANGED lexer

\* Outside of elements: a "<" before a capital begins one.
ReadOutside ==
  LET p == AfterBlank[cursor]
      opens == CharAt(p) = "<" /\ TokenAt(p) = "<" /\ CharAt(Past(p + 1, {" "})) \in TagNames IN
    /\ ~lexer.inJsx
    /\ \/ /\ opens /\ OpensTag(p, p + 1)
          /\ lexer' = [inJsx |-> TRUE, inTag |-> TRUE, depth |-> 1, braces |-> lexer.braces]
       \/ /\ ~opens /\ BaseReads /\ BaseToken(KindOf(Last(tokens')))
          /\ UNCHANGED lexer

ReadJsxToken ==
  /\ phase = "tokens" /\ scan = "on"
  /\ ReadInExpression \/ ReadInTag \/ ReadInContent \/ ReadOutside
  /\ UNCHANGED <<file, meant, walk, output, phase, screen>>

JsxTextEnds ==
  /\ phase = "tokens"
  /\ CharAt(IF lexer.inJsx /\ ~lexer.inTag /\ lexer.braces = 0 THEN OffBlank(cursor) ELSE AfterBlank[cursor]) = "end"
  /\ phase' = "emit"
  /\ UNCHANGED <<scanVars, file, meant, lexer, stream, walk, output, screen>>

-----------------------------------------------------------------------------
(* The parser: operators that begin at a token, as in module Parser *)

TypeAt(i) == IF i \in DOMAIN stream THEN stream[i].type ELSE "eof"
FirstToken(i, types) ==
  CHOOSE j \in i .. Len(stream) + i :
    TypeAt(j) \in types \cup {"eof"} /\ \A k \in i .. j - 1 : TypeAt(k) \notin types \cup {"eof"}
StartOf(i) == IF i \in DOMAIN stream THEN stream[i].from ELSE Len(chars) + 1

RECURSIVE Trimmed(_)
Trimmed(cs) ==
  CASE cs # <<>> /\ Head(cs) \in Blank -> Trimmed(Tail(cs))
    [] cs # <<>> /\ Last(cs) \in Blank -> Trimmed(Front(cs))
    [] OTHER -> cs
Between(p, q) == Trimmed(SubSeq(chars, p, q - 1))

\* jsx_parse_inline_expression: its first token decides what it is taken for.
InlineAt(i) ==
  LET end == FirstToken(i + 1, {"expr end"}) IN
    {<<[kind |-> TypeAt(i), word |-> IF i \in DOMAIN stream THEN stream[i].word ELSE "",
        raw |-> Between(stream[i - 1].to, StartOf(end))], end + 1>>}

\* jsx_parse_style_object, after its "{".  The names are not unquoted, the values are.
RECURSIVE StyleFrom(_), RestOfName(_)
RestOfName(i) ==
  IF TypeAt(i) # "-" THEN {<<<<>>, i>>}
  ELSE Tree(RestOfName(i + 2), LAMBDA n :
         (IF TypeAt(i + 1) = "identifier" THEN <<"-", stream[i + 1].word>> ELSE <<"-">>) \o n)
StyleFrom(i) ==
  CASE TypeAt(i) = "}" -> {<<<<>>, i + 1>>}
    [] TypeAt(i) \in {"identifier", "string"} ->
         AndThen(RestOfName(i + 1), LAMBDA n, j :
           LET value == IF TypeAt(j + 1) = "string" THEN Contents[stream[j + 1].word] ELSE <<>>
               rest == IF TypeAt(j + 2) = "}" THEN {<<<<>>, j + 3>>} ELSE StyleFrom(j + 3) IN
             IF TypeAt(j) # ":" THEN {}
             ELSE Tree(rest, LAMBDA ps : <<<<<<stream[i].word>> \o n, value>>>> \o ps))
    [] OTHER -> {}

\* jsx_parse_css_string: it ends at a ";" without a ":" before it.
RECURSIVE CssOf(_)
CssOf(css) ==
  LET cs == Trimmed(css)
      colon == SelectInSeq(cs, LAMBDA c : c \in {":", ";"})
      after == IF colon = 0 THEN <<>> ELSE SubSeq(cs, colon + 1, Len(cs))
      semi == SelectInSeq(after, LAMBDA c : c = ";")
      name == Trimmed(SubSeq(cs, 1, colon - 1))
      value == Trimmed(IF semi = 0 THEN after ELSE SubSeq(after, 1, semi - 1)) IN
    IF colon = 0 \/ cs[IF colon = 0 THEN 1 ELSE colon] = ";" THEN <<>>
    ELSE (IF name = <<>> \/ value = <<>> THEN <<>> ELSE <<<<name, value>>>>)
         \o (IF semi = 0 THEN <<>> ELSE CssOf(SubSeq(after, semi + 1, Len(after))))

\* The value of the attribute n, whose first token is at i.
ValueFrom(n, i) ==
  CASE TypeAt(i) = "string" /\ n = "style" -> {<<<<<<"style", n, CssOf(Contents[stream[i].word])>>>>, i + 1>>}
    [] TypeAt(i) = "string" /\ n # "style" -> {<<<<<<"string", n, stream[i].word>>>>, i + 1>>}
    [] TypeAt(i) = "expr start" /\ n = "style" ->
         IF TypeAt(i + 1) # "{" THEN {}
         ELSE {<<<<<<"style", n, r[1]>>>>, r[2] + 1>> : r \in StyleFrom(i + 2)}
    [] TypeAt(i) = "expr start" /\ n \in OnNames -> Tree(InlineAt(i + 1), LAMBDA v : <<<<"handler", n, v.raw>>>>)
    [] TypeAt(i) = "expr start" /\ n \notin OnNames \cup {"style"} ->
         Tree(InlineAt(i + 1), LAMBDA v : <<<<"expression", n, v>>>>)
    [] TypeAt(i) = "int" ->
         {<<<<<<"expression", n, [kind |-> "int", word |-> stream[i].word, raw |-> <<>>]>>>>, i + 1>>}
    [] OTHER -> {<<<<>>, i + 1>>}

\* jsx_parse_attributes.  An attribute without a value takes the token after it along.
RECURSIVE AttributesFrom(_)
AttributesFrom(i) ==
  LET add(as, j) == Tree(AttributesFrom(j), LAMBDA r : [r EXCEPT !.attrs = as \o @]) IN
    CASE TypeAt(i) = "tag end" -> {<<[attrs |-> <<>>, closed |-> FALSE], i + 1>>}
      [] TypeAt(i) = "self close" -> {<<[attrs |-> <<>>, closed |-> TRUE], i + 1>>}
      [] TypeAt(i) = "eof" -> {}
      [] TypeAt(i) = "identifier" /\ TypeAt(i + 1) # "=" -> add(<<<<"flag", stream[i].word, "true">>>>, i + 2)
      [] TypeAt(i) = "identifier" /\ TypeAt(i + 1) = "=" -> AndThen(ValueFrom(stream[i].word, i + 2), add)
      [] OTHER -> AttributesFrom(i + 1)

\* jsx_parse_element, jsx_parse_children
RECURSIVE ElementFrom(_), ChildrenFrom(_, _)
ElementFrom(i) ==
  IF TypeAt(i) # "open" THEN {}
  ELSE AndThen(AttributesFrom(i + 1), LAMBDA r, j :
         Tree(IF r.closed THEN {<<<<>>, j>>} ELSE ChildrenFrom(stream[i].word, j),
              LAMBDA cs : [tag |-> stream[i].word, attrs |-> r.attrs, children |-> cs]))
ChildrenFrom(tag, i) ==
  LET add(c, j) == Tree(ChildrenFrom(tag, j), LAMBDA cs : <<c>> \o cs) IN
    CASE TypeAt(i) = "eof" -> {}
      [] TypeAt(i) = "close" -> IF stream[i].word \in {tag, ""} THEN {<<<<>>, i + 1>>} ELSE {}
      [] TypeAt(i) = "open" -> AndThen(ElementFrom(i), LAMBDA e, j : add(<<"element", e>>, j))
      [] TypeAt(i) = "expr start" -> AndThen(InlineAt(i + 1), LAMBDA v, j : add(<<"expression", v>>, j))
      [] TypeAt(i) = "text" -> add(<<"text", SubSeq(chars, stream[i].from, stream[i].to - 1)>>, i + 1)
      [] OTHER -> ChildrenFrom(tag, i + 1)

\* The tokens types, one after the other.
Expects(i, types) == IF \A k \in DOMAIN types : TypeAt(i + k - 1) = types[k] THEN {i + Len(types)} ELSE {}

\* parse_and_emit_component: signals, the element it returns, and four tokens.
RECURSIVE SignalsFrom(_)
SignalsFrom(i) ==
  IF TypeAt(i) # "signal" THEN {<<<<>>, i>>}
  ELSE UNION {LET end == FirstToken(j, {";"}) IN
                Tree(SignalsFrom(end + 1), LAMBDA ss :
                  <<[name |-> stream[i + 1].word,
                     init |-> Between(stream[j - 1].to, StartOf(end))]>> \o ss) :
                j \in Expects(i + 1, <<"identifier", "=">>)}
ComponentFrom(i) ==
  UNION {AndThen(SignalsFrom(j), LAMBDA ss, k :
           UNION {{<<[name |-> stream[i].word, root |-> r[1],
                      signals |-> SubSeq(ss, 1, IF Len(ss) <= MaxSignals THEN Len(ss) ELSE MaxSignals)],
                     r[2] + 4>> : r \in ElementFrom(e)} : e \in Expects(k, <<"return", "(">>)}) :
           j \in Expects(i, <<"identifier", "=", "(", ")", "->", "{">>)}

\* parse_and_emit_boot: what is mounted; every other statement is passed over.
RECURSIVE MountsFrom(_)
MountsFrom(i) ==
  LET named == TypeAt(i) = "identifier"
      member == named /\ TypeAt(i + 1) = "."
      mounts == member /\ TypeAt(i + 2) = "identifier" /\ stream[i].word = "gui" /\ stream[i + 2].word = "mount"
      past == CASE TypeAt(i + 4) # "identifier" -> i + 5
                [] TypeAt(i + 4) = "identifier" /\ TypeAt(i + 5) = "(" -> i + 7
                [] OTHER -> i + 6 IN
    CASE TypeAt(i) \in {"}", "eof"} -> {<<<<>>, i + 2>>}
      [] mounts -> IF TypeAt(i + 3) # "(" THEN {}
                   ELSE Tree(MountsFrom(past + 2), LAMBDA ms :
                          (IF TypeAt(i + 4) = "identifier" THEN <<stream[i + 4].word>> ELSE <<>>) \o ms)
      [] member /\ ~mounts -> MountsFrom(i + 3)
      [] named /\ ~member -> MountsFrom(i + 2)
      [] OTHER -> MountsFrom(i + 1)
BootFrom(i) == UNION {MountsFrom(j) : j \in Expects(i, <<"(", ")", "->", "{">>)}
-----------------------------------------------------------------------------
(* The emitter: C expressions, as sequences of characters, calls of           *)
(* solite_signal_get and calls of solite_signal_set                           *)

\* Where what is open before position p of cs is closed, or the end.
Closing(cs, p, open, close) ==
  LET closing[k \in p .. Len(cs) + 1, depth \in 0 .. Len(cs)] ==
        CASE k > Len(cs) \/ (depth = 0 /\ cs[k] = close) -> k
          [] OTHER -> closing[k + 1, IF cs[k] = open THEN depth + 1
                                     ELSE IF cs[k] = close THEN depth - 1 ELSE depth]
  IN closing[p, 0]

\* rewrite_signal_expr
RECURSIVE Rewritten(_, _)
Rewritten(raw, names) ==
  LET c(k) == IF k \in DOMAIN raw THEN raw[k] ELSE "end"
      rest(k) == Rewritten(SubSeq(raw, k, Len(raw)), names)
      name == CHOOSE k \in 2 .. Len(raw) + 1 : c(k) # " " /\ \A j \in 2 .. k - 1 : c(j) = " " IN
    CASE raw = <<>> -> <<>>
      [] c(1) = "set" /\ c(2) = " " /\ c(name) \in names /\ c(name + 1) = "(" ->
           LET end == Closing(raw, name + 2, "(", ")") IN
             <<<<"set", c(name), Rewritten(SubSeq(raw, name + 2, end - 1), names)>>>> \o rest(end + 1)
      [] c(1) \in names /\ c(2) = "(" /\ c(3) = ")" -> <<<<"get", c(1)>>>> \o rest(4)
      [] OTHER -> <<<<"char", c(1)>>>> \o rest(2)

\* What the C compiler takes for a value: signals and numbers, added or subtracted.
Compact(items) == SelectSeq(items, LAMBDA x : x[1] # "char" \/ x[2] \notin Blank)
IsValue(items) ==
  LET s == Compact(items) IN
    /\ Len(s) % 2 = 1
    /\ \A k \in DOMAIN s :
         IF k % 2 = 0 THEN s[k] \in {<<"char", "+">>, <<"char", "-">>}
         ELSE s[k][1] = "get" \/ (s[k][1] = "char" /\ s[k][2] \in DOMAIN Counts)
RECURSIVE ValueOf(_, _)
ValueOf(items, values) ==
  LET s == Compact(items)
      last == Last(s)
      operand == IF last[1] = "get" THEN values[last[2]] ELSE Counts[last[2]] IN
    IF Len(s) = 1 THEN operand
    ELSE LET before == ValueOf(SubSeq(s, 1, Len(s) - 2), values) IN
           IF s[Len(s) - 1][2] = "+" THEN before + operand ELSE before - operand

\* And for statements: values and assignments of signals.
IsStatement(s) == IF s[1] = "set" THEN IsValue(s[3]) ELSE s[1] = "get" \/ s[2] \in {"{", "}", ";"}
AreStatements(items) == \A k \in DOMAIN Compact(items) : IsStatement(Compact(items)[k])

\* emit_text_effects: which expressions of a Text have an effect, and what it sets
\* the text to: characters and values.
Mentions(raw, names) == \E k \in DOMAIN raw, s \in names : raw[k] = s \/ <<s, raw[k]>> \in PartsOfWords
Reactive(e, names) ==
  IF e.tag # "Text" THEN <<>>
  ELSE SelectSeq(e.children, LAMBDA c : c[1] = "expression" /\ Mentions(c[2].raw, names))
RECURSIVE TemplateFrom(_, _)
TemplateFrom(cs, names) ==
  LET end == IF Len(cs) > 2 THEN Closing(cs, 3, "{", "}") ELSE 3 IN
    CASE cs = <<>> \/ Head(cs) = "tick" -> <<>>
      [] Len(cs) > 1 /\ SubSeq(cs, 1, 2) = <<"$", "{">> ->
           <<<<"value", Rewritten(SubSeq(cs, 3, end - 1), names)>>>>
           \o TemplateFrom(SubSeq(cs, end + 1, Len(cs)), names)
      [] OTHER -> <<<<"char", Head(cs)>>>> \o TemplateFrom(Tail(cs), names)
EffectOf(raw, names) ==
  IF Head(raw) = "tick" THEN TemplateFrom(Tail(raw), names)
  ELSE <<<<"value", Rewritten(raw \o <<"(", ")">>, names)>>>>
IsEffect(pieces) ==
  /\ \E k \in DOMAIN pieces : pieces[k][1] = "value"
  /\ \A k \in DOMAIN pieces : pieces[k][1] = "value" => IsValue(pieces[k][2])

-----------------------------------------------------------------------------
(* The emitter: widgets *)

Elements(e) == LET cs == SelectSeq(e.children, LAMBDA c : c[1] = "element") IN [k \in DOMAIN cs |-> cs[k][2]]
RECURSIVE Size(_), HandlersIn(_), EffectsIn(_, _)
SumOf(f(_), es) == FoldLeft(LAMBDA n, e : n + f(e), 0, es)
Size(e) == 1 + SumOf(Size, Elements(e))
EffectsIn(e, names) == Len(Reactive(e, names)) + SumOf(LAMBDA c : EffectsIn(c, names), Elements(e))

\* extract_and_emit_handlers: the children's handlers are numbered first.
OwnHandlers(e) == SelectSeq(e.attrs, LAMBDA a : a[1] = "handler" /\ a[2] = "onClick")
HandlersIn(e) == FlattenSeq([k \in DOMAIN Elements(e) |-> HandlersIn(Elements(e)[k])]) \o OwnHandlers(e)
\* The body is behind the arrow.
HandlerBody(raw, names) ==
  LET arrows == {k \in 1 .. Len(raw) - 1 : SubSeq(raw, k, k + 1) = <<"-", ">">>}
      body == IF arrows = {} THEN raw ELSE SubSeq(raw, Min(arrows) + 2, Len(raw)) IN
    Rewritten(Trimmed(body), names)

\* bug: of the root's children, only the first is visited.
EffectsOfFirst(c, names) ==
  FlattenSeq([k \in DOMAIN Elements(c.root) |-> IF k > 1 THEN <<>> ELSE
                [j \in DOMAIN Reactive(Elements(c.root)[k], names) |->
                   EffectOf(Reactive(Elements(c.root)[k], names)[j][2].raw, names)]])
\* The effects that are emitted for a component: of its root, and of the root's children.
EffectsOf(c, names) ==
  LET of(e) == [k \in DOMAIN Reactive(e, names) |-> EffectOf(Reactive(e, names)[k][2].raw, names)] IN
    of(c.root) \o FlattenSeq([k \in DOMAIN Elements(c.root) |-> of(Elements(c.root)[k])])

\* The attributes that each kind of widget reads, as numbers and as a colour.
NumbersRead ==
  [t \in {"Window", "Image", "Text", "Button", "Pointer"} |->
     CASE t = "Window" -> {"width", "height"}
       [] t = "Text" -> {"size", "x", "y"}
       [] t = "Pointer" -> {"channel", "size"}
       [] OTHER -> {"width", "height", "x", "y"}]
ColourRead == [Image |-> <<"background", "-", "color">>, Text |-> <<"color">>, Pointer |-> <<"color">>]

LastOf(s, default) == IF s = <<>> THEN default ELSE Last(s)
NumberFor(e, n) ==
  LastOf(SelectSeq(e.attrs, LAMBDA a : a[1] = "expression" /\ a[2] = n /\ a[3].kind = "int"), <<"", n, [word |-> "default"]>>)[3].word
ColourFor(e) ==
  LET styles == FlattenSeq([k \in DOMAIN e.attrs |-> IF e.attrs[k][1] = "style" THEN e.attrs[k][3] ELSE <<>>]) IN
    IF e.tag \notin DOMAIN ColourRead THEN "default"
    ELSE LastOf(SelectSeq(styles, LAMBDA s : s[1] = ColourRead[e.tag] /\ Len(s[2]) = 1 /\ s[2][1] \in Colours),
                <<<<>>, <<"default">>>>)[2][1]
\* The first text, or string, of a Text.
TextFor(e) ==
  LET texts == SelectSeq(e.children, LAMBDA c : c[1] = "text" \/ (c[1] = "expression" /\ c[2].kind = "string")) IN
    IF texts = <<>> THEN <<>>
    ELSE IF texts[1][1] = "text" THEN texts[1][2] ELSE Contents[texts[1][2].word]

Widget(e) ==
  [tag |-> e.tag, colour |-> ColourFor(e),
   numbers |-> [n \in IF e.tag \in DOMAIN NumbersRead THEN NumbersRead[e.tag] ELSE {} |-> NumberFor(e, n)],
   text |-> IF e.tag = "Text" THEN TextFor(e) ELSE <<>>]

\* emit_jsx_element_full: the statements for e, where n is the number of its widget
\* and of the first handler and effect below it.
RECURSIVE WidgetCode(_, _, _), ChildrenCode(_, _, _, _, _)
Joined(parent, of, e, child) ==
  (IF parent.tag = "Window" /\ e.tag \in {"Text", "Button", "Image", "Pointer"}
   THEN <<<<"append", of, child>>>> ELSE <<>>)
  \o (IF parent.tag = "Button" /\ e.tag = "Text" THEN <<<<"label", of, child>>>> ELSE <<>>)
ChildrenCode(parent, of, es, n, names) ==
  IF es = <<>> THEN <<>>
  ELSE LET e == Head(es)
           after == [widget |-> n.widget + Size(e), handler |-> n.handler + Len(HandlersIn(e)),
                     effect |-> n.effect + EffectsIn(e, names)] IN
         WidgetCode(e, n, names) \o Joined(parent, of, e, n.widget)
         \o ChildrenCode(parent, of, Tail(es), after, names)
WidgetCode(e, n, names) ==
  LET w == n.widget
      handler == n.handler + Len(HandlersIn(e)) - Len(OwnHandlers(e))
      effect == n.effect + EffectsIn(e, names) - Len(Reactive(e, names)) IN
    <<<<"new", w, Widget(e)>>>>
    \o [k \in 1 .. Min({Len(OwnHandlers(e)), Max({MaxHandlers - handler, 0})}) |-> <<"click", w, handler + k>>]
    \o ChildrenCode(e, w, Elements(e), [n EXCEPT !.widget = w + 1], names)
    \o [k \in DOMAIN Reactive(e, names) |-> <<"effect", w, effect + k>>]

ComponentCode(c) ==
  LET names == {c.signals[k].name : k \in DOMAIN c.signals} IN
    [name |-> c.name,
     signals |-> [k \in DOMAIN c.signals |-> <<c.signals[k].name, Rewritten(c.signals[k].init, {})>>],
     effects |-> EffectsOf(c, names),
     handlers |-> [k \in DOMAIN HandlersIn(c.root) |-> HandlerBody(HandlersIn(c.root)[k][3], names)],
     statements |-> WidgetCode(c.root, [widget |-> 0, handler |-> 0, effect |-> 0], names)]

\* jsx_compile_to_c: one import, component or boot after the other; nothing else
\* is looked at.
EmitComponent ==
  /\ phase = "emit" /\ TypeAt(walk) = "component"
  /\ \E r \in ComponentFrom(walk + 1) :
       /\ output' = [output EXCEPT !.components = Append(@, ComponentCode(r[1]))]
       /\ walk' = r[2]
  /\ UNCHANGED <<scanVars, file, meant, lexer, stream, phase, screen>>

EmitBoot ==
  /\ phase = "emit" /\ TypeAt(walk) = "boot"
  /\ \E r \in BootFrom(walk + 1) :
       /\ output' = [output EXCEPT !.boots = Append(@, [mounts |-> r[1], after |-> Len(output.components)])]
       /\ walk' = r[2]
  /\ UNCHANGED <<scanVars, file, meant, lexer, stream, phase, screen>>

EmissionFails ==
  /\ phase = "emit"
  /\ \/ TypeAt(walk) = "component" /\ ComponentFrom(walk + 1) = {}
     \/ TypeAt(walk) = "boot" /\ BootFrom(walk + 1) = {}
  /\ phase' = "failed"
  /\ UNCHANGED <<scanVars, file, meant, lexer, stream, walk, output, screen>>

PassOver ==
  /\ phase = "emit" /\ TypeAt(walk) \notin {"component", "boot", "eof"}
  /\ walk' = IF TypeAt(walk) = "import" THEN FirstToken(walk + 1, {";"}) + 1 ELSE walk + 1
  /\ UNCHANGED <<scanVars, file, meant, lexer, stream, output, phase, screen>>

-----------------------------------------------------------------------------
(* The C program *)

\* What a C compiler asks of it.
CompilesAsC ==
  LET cs == output.components IN
    /\ \A i, j \in DOMAIN cs : i # j => cs[i].name # cs[j].name /\ (cs[i].effects = <<>> \/ cs[j].effects = <<>>)
    /\ \A i \in DOMAIN cs :
         /\ \A k \in DOMAIN cs[i].signals : IsValue(cs[i].signals[k][2])
         /\ \A k \in DOMAIN cs[i].effects : IsEffect(cs[i].effects[k])
         /\ \A k \in DOMAIN cs[i].handlers : AreStatements(cs[i].handlers[k])
         /\ \A k \in DOMAIN cs[i].statements :
              LET s == cs[i].statements[k] IN
                /\ s[1] = "effect" => \E j \in 1 .. i : s[3] <= Len(cs[j].effects)
                /\ s[1] = "new" => "newline" \notin ToSet(s[3].text)
    /\ Len(output.boots) = 1 /\ Len(output.boots[1].mounts) <= 1
    /\ ToSet(output.boots[1].mounts) \subseteq {cs[i].name : i \in 1 .. output.boots[1].after}

EffectFunctions == FlattenSeq([i \in DOMAIN output.components |-> output.components[i].effects])
Formatted(pieces, values) ==
  [k \in DOMAIN pieces |-> IF pieces[k][1] = "char" THEN pieces[k] ELSE <<"value", ValueOf(pieces[k][2], values)>>]

\* The statements of a component, and the effects as they are created.
WindowBuilt(c) ==
  LET of(kind) == SelectSeq(c.statements, LAMBDA s : s[1] = kind)
      named == UNION {{d.signals[k][1] : k \in DOMAIN d.signals} : d \in ToSet(output.components)}
      own(x) == SelectSeq(c.signals, LAMBDA s : s[1] = x)
      values == [x \in named |-> IF own(x) = <<>> THEN 0 ELSE ValueOf(Last(own(x))[2], <<>>)]
      start == [w \in {s[2] : s \in ToSet(of("new"))} |->
                  LET t == (CHOOSE s \in ToSet(of("new")) : s[2] = w)[3].text IN [k \in DOMAIN t |-> <<"char", t[k]>>]] IN
    [widgets |-> [k \in DOMAIN of("new") |-> of("new")[k][3]],
     children |-> [k \in DOMAIN of("append") |-> <<of("append")[k][2], of("append")[k][3]>>],
     labels |-> of("label"), effects |-> of("effect"), clicks |-> of("click"),
     values |-> values, handlers |-> c.handlers,
     texts |-> FoldLeft(LAMBDA ts, s : [ts EXCEPT ![s[2]] = Formatted(EffectFunctions[s[3]], values)], start, of("effect"))]

\* solite_signal_set: the effects that read a signal run when it changes.
ReadsOf(pieces) ==
  UNION {{x[2] : x \in {y \in ToSet(pieces[k][2]) : y[1] = "get"}} :
         k \in {j \in DOMAIN pieces : pieces[j][1] = "value"}}
AfterSet(s, x, n) ==
  LET values == [s.values EXCEPT ![x] = n]
      reading == SelectSeq(s.effects, LAMBDA e : x \in ReadsOf(EffectFunctions[e[3]])) IN
    IF s.values[x] = n THEN s
    ELSE [s EXCEPT !.values = values,
                   !.texts = FoldLeft(LAMBDA ts, e : [ts EXCEPT ![e[2]] = Formatted(EffectFunctions[e[3]], values)],
                                      s.texts, reading)]
\* solite_bridge_poll_button_clicks: the first handler of the button runs.
AfterClick(s, w) ==
  LET mine == SelectSeq(s.clicks, LAMBDA c : c[2] = w) IN
    IF mine = <<>> THEN s
    ELSE FoldLeft(LAMBDA r, x : IF x[1] = "set" THEN AfterSet(r, x[2], ValueOf(x[3], r.values)) ELSE r,
                  s, s.handlers[Head(mine)[3]])

CompileC ==
  /\ phase = "emit" /\ TypeAt(walk) = "eof"
  /\ phase' = IF CompilesAsC THEN "runs" ELSE "refused"
  /\ screen' = IF ~CompilesAsC \/ output.boots[1].mounts = <<>> THEN screen
               ELSE WindowBuilt(CHOOSE c \in ToSet(output.components) : c.name = output.boots[1].mounts[1])
  /\ UNCHANGED <<scanVars, file, meant, lexer, stream, walk, output>>

-----------------------------------------------------------------------------
(* What is written: a component is [name, signals, root], an element           *)
(* [tag, attrs, children], and an expression, a child or an attribute is a     *)
(* tuple that begins with its kind.                                            *)

Glue(s, Op(_)) == FlattenSeq([k \in DOMAIN s |-> Op(s[k])])

RECURSIVE ExpressionText(_)
ExpressionText(e) ==
  CASE e[1] = "sum" -> ExpressionText(e[2]) \o <<"+">> \o ExpressionText(e[3])
    [] e[1] = "call" -> <<e[2], "(", ")">>
    [] OTHER -> <<e[2]>>  \* "signal", "number", "string"
PieceText(p) == IF p[1] = "char" THEN <<p[2]>> ELSE <<"$", "{">> \o ExpressionText(p[2]) \o <<"}">>
SetText(s) == <<"set", " ", s[1], "(">> \o ExpressionText(s[2]) \o <<")">>
BlockText(ss) ==
  IF Len(ss) = 1 THEN SetText(ss[1]) ELSE <<"{">> \o Glue(ss, LAMBDA s : SetText(s) \o <<";">>) \o <<"}">>
AttributeText(a) ==
  CASE a[1] = "number" -> <<a[2], "=", "{">> \o ExpressionText(a[3]) \o <<"}">>
    [] a[1] \in {"bare", "quoted", "css"} -> <<a[2], "=", a[3]>>
    [] a[1] = "style" -> <<"style", "=", "{", "{">> \o a[5] \o <<":", a[3], "}", "}">>
    [] a[1] = "click" -> <<"onClick", "=", "{", "(", ")", "-", ">">> \o BlockText(a[2]) \o <<"}">>
    [] a[1] = "flag" -> <<a[2]>>
RECURSIVE ElementText(_)
ElementText(e) ==
  LET child(c) ==
        CASE c[1] = "element" -> ElementText(c[2])
          [] c[1] = "text" -> c[2]
          [] c[1] = "value" -> <<"{">> \o ExpressionText(c[2]) \o <<"}">>
          [] c[1] = "template" -> <<"{", "tick">> \o Glue(c[2], PieceText) \o <<"tick", "}">> IN
    <<"<", e.tag>> \o Glue(e.attrs, LAMBDA a : <<" ">> \o AttributeText(a) \o e.gap)
    \o (IF e.children = <<>> THEN <<"/", ">">>
        ELSE <<">">> \o Glue(e.children, LAMBDA c : e.gap \o child(c)) \o e.gap \o <<"<", "/", e.tag, ">">>)
ComponentText(c) ==
  <<"component", " ", c.name, "=", "(", ")", "-", ">", "{">>
  \o Glue(c.signals, LAMBDA s : <<"signal", " ", s[1], "=">> \o ExpressionText(s[2]) \o <<";">>)
  \o <<"return", "(">> \o ElementText(c.root) \o <<")", ";", "}", ";">>
BootText(ms) ==
  <<"boot", "(", ")", "-", ">", "{">>
  \o Glue(ms, LAMBDA m : <<"gui", ".", "mount", "(", m, "(", ")", ")", ";">>) \o <<"}", ";">>
FileText(cs, mounts) == <<"import", " ", "gui", ";">> \o Glue(cs, ComponentText) \o BootText(mounts)

\* What it means: the value of an expression, and what a window shows.
RECURSIVE ValueMeant(_, _)
ValueMeant(e, values) ==
  CASE e[1] = "sum" -> ValueMeant(e[2], values) + ValueMeant(e[3], values)
    [] e[1] = "number" -> Counts[e[2]]
    [] OTHER -> values[e[2]]
Chars(cs) == [k \in DOMAIN cs |-> <<"char", cs[k]>>]
ChildMeaning(c, values) ==
  CASE c[1] = "element" -> <<>>
    [] c[1] = "text" -> Chars(c[2])
    [] c[1] = "value" -> IF c[2][1] = "string" THEN Chars(Contents[c[2][2]])
                         ELSE <<<<"value", ValueMeant(c[2], values)>>>>
    [] c[1] = "template" -> [k \in DOMAIN c[2] |-> IF c[2][k][1] = "char" THEN c[2][k]
                                                   ELSE <<"value", ValueMeant(c[2][k][2], values)>>]
TextMeaning(e, values) == IF e.tag = "Text" THEN Glue(e.children, LAMBDA c : ChildMeaning(c, values)) ELSE <<>>
NumberMeaning(e, n, values) ==
  LET as == SelectSeq(e.attrs, LAMBDA a : a[1] \in {"number", "bare", "quoted"} /\ a[2] = n) IN
    CASE as = <<>> -> "default"
      [] as # <<>> /\ Last(as)[1] = "number" -> ToString(ValueMeant(Last(as)[3], values))
      [] as # <<>> /\ Last(as)[1] = "bare" -> ToString(Counts[Last(as)[3]])
      [] OTHER -> ToString(Counts[Contents[Last(as)[3]][1]])
ColourMeaning(e) ==
  LET as == SelectSeq(e.attrs, LAMBDA a : a[1] \in {"css", "style"}) IN
    IF as = <<>> THEN "default" ELSE Last(as)[4]
ElementMeaning(e, values) ==
  LET labels == SelectSeq(Elements(e), LAMBDA c : c.tag = "Text") IN
    [tag |-> e.tag, colour |-> ColourMeaning(e), text |-> TextMeaning(e, values),
     numbers |-> [n \in IF e.tag \in DOMAIN NumbersRead THEN NumbersRead[e.tag] ELSE {} |-> NumberMeaning(e, n, values)],
     label |-> IF e.tag = "Button" /\ labels # <<>> THEN TextMeaning(Last(labels), values) ELSE <<>>]

Mounted == CHOOSE c \in ToSet(file.components) : c.name = Head(file.mounts)
ScreenMeant == [k \in DOMAIN Elements(Mounted.root) |-> ElementMeaning(Elements(Mounted.root)[k], meant)]
ScreenShown ==
  LET top == SelectSeq(screen.children, LAMBDA c : c[1] = 0) IN
    [k \in DOMAIN top |->
       LET w == top[k][2]
           e == screen.widgets[w + 1]
           label == SelectSeq(screen.labels, LAMBDA l : l[2] = w) IN
         [tag |-> e.tag, colour |-> e.colour, text |-> screen.texts[w],
          numbers |-> [n \in DOMAIN e.numbers |-> IF e.numbers[n] = "default" THEN "default" ELSE ToString(Counts[e.numbers[n]])],
          label |-> IF label = <<>> THEN <<>> ELSE screen.texts[Last(label)[3]]]]

-----------------------------------------------------------------------------

\* jsx_source_has_components: only then does calynda come here.
HasComponents(cs) == "component" \in ToSet(cs)

NotInElement == [inJsx |-> FALSE, inTag |-> FALSE, depth |-> 0, braces |-> 0]
NoCode == [components |-> <<>>, boots |-> <<>>]
NoScreen == [widgets |-> <<>>, children |-> <<>>, labels |-> <<>>, effects |-> <<>>, clicks |-> <<>>,
             values |-> <<>>, handlers |-> <<>>, texts |-> <<>>]
SignalsMeant(c) ==
  LET own(x) == SelectSeq(c.signals, LAMBDA s : s[1] = x) IN
    [x \in {s[1] : s \in ToSet(c.signals)} |-> ValueMeant(Last(own(x))[2], [y \in JsxNames |-> 0])]
JsxInit ==
  /\ file \in {f \in Files : HasComponents(f.chars)}
  /\ meant = SignalsMeant(Mounted)
  /\ text = [tokens |-> <<>>, gap |-> <<>>, tree |-> NoTree]
  /\ chars = file.chars /\ cursor = 1 /\ braces = <<>> /\ tokens = <<>> /\ scan = "on"
  /\ lexer = NotInElement
  /\ stream = <<>>
  /\ walk = 1
  /\ output = NoCode
  /\ phase = "tokens"
  /\ screen = NoScreen

\* A click on the k-th thing of the window.
ClickOn(k) ==
  LET e == Elements(Mounted.root)[k]
      clicks == SelectSeq(e.attrs, LAMBDA a : a[1] = "click") IN
    /\ phase = "runs" /\ ScreenShown = ScreenMeant
    /\ ScreenShown[k].tag = "Button"
    /\ \A x \in DOMAIN meant : meant[x] < MaxShown
    /\ screen' = AfterClick(screen, SelectSeq(screen.children, LAMBDA c : c[1] = 0)[k][2])
    /\ meant' = IF clicks = <<>> THEN meant
                ELSE FoldLeft(LAMBDA v, s : [v EXCEPT ![s[1]] = ValueMeant(s[2], v)], meant, Head(clicks)[2])
    /\ UNCHANGED <<scanVars, file, lexer, stream, walk, output, phase>>

JsxNext ==
  \/ ReadJsxToken \/ JsxTextEnds
  \/ EmitComponent \/ EmitBoot \/ EmissionFails \/ PassOver \/ CompileC
  \/ \E k \in DOMAIN ScreenShown : ClickOn(k)

-----------------------------------------------------------------------------
(* Properties *)

\* What the emitter makes of an expression: in C, signals have to be called; the
\* last one of an expression child must not be, it gets its parentheses.
RECURSIVE Summands(_)
Summands(e) == IF e[1] = "sum" THEN Summands(e[2]) \o Summands(e[3]) ELSE <<e>>
IsCalled(e, names) == e[1] = "number" \/ (e[1] = "call" /\ e[2] \in names)
Called(e, names) == \A s \in ToSet(Summands(e)) : IsCalled(s, names)
EndsBare(e, names) ==
  LET ss == Summands(e) IN
    Last(ss)[1] = "signal" /\ Last(ss)[2] \in names /\ \A s \in ToSet(Front(ss)) : IsCalled(s, names)
ShowsTemplate(ps, names) ==
  LET values == {p[2] : p \in {q \in ToSet(ps) : q[1] = "value"}} IN
    values # {} /\ (\A e \in values : Called(e, names)) /\ Mentions(Glue(ps, PieceText), names)
ShowsChild(c, gap, names) ==
  CASE c[1] = "text" -> gap = <<>>
    [] c[1] = "value" /\ c[2][1] = "string" -> "*" \notin ToSet(gap) /\ \A s \in names : <<s, c[2][2]>> \notin PartsOfWords
    [] c[1] = "value" /\ c[2][1] # "string" -> EndsBare(c[2], names)
    [] c[1] = "template" -> ShowsTemplate(c[2], names)
    [] OTHER -> FALSE
IsReactive(c) == c[1] = "template" \/ (c[1] = "value" /\ c[2][1] # "string")

ShowsText(e, names) == Len(e.children) <= 1 /\ \A c \in ToSet(e.children) : ShowsChild(c, e.gap, names)
ShowsLabel(e, names) == ShowsText(e, names) /\ ~\E c \in ToSet(e.children) : IsReactive(c)
ShowsAttribute(e, a, names) ==
  CASE a[1] = "number" -> a[2] \in NumbersRead[e.tag] => a[3][1] = "number"
    [] a[1] = "quoted" -> a[2] \notin NumbersRead[e.tag]
    [] a[1] \in {"css", "style"} -> e.tag \in DOMAIN ColourRead /\ a[5] = ColourRead[e.tag] /\ a[4] \in Colours
    [] a[1] = "click" -> \A s \in ToSet(a[2]) : s[1] \in names /\ Called(s[2], names)
    [] OTHER -> a[1] = "bare"
ShowsAttributes(e, names) ==
  (\A a \in ToSet(e.attrs) : ShowsAttribute(e, a, names)) /\ (e.attrs # <<>> => "*" \notin ToSet(e.gap))
ShowsElement(e, names) ==
  /\ e.tag \in {"Text", "Button", "Image", "Pointer"} /\ ShowsAttributes(e, names)
  /\ e.tag = "Text" => ShowsText(e, names)
  /\ e.tag = "Button" => \A c \in ToSet(Elements(e)) : ShowsLabel(c, names)

HasEffects(c) == \E e \in ToSet(Elements(c.root)) : e.tag = "Text" /\ \E d \in ToSet(e.children) : IsReactive(d)
KeptSignals(c) == {c.signals[k][1] : k \in {j \in DOMAIN c.signals : j <= MaxSignals}}
ShowsAll ==
  /\ Len(file.mounts) = 1
  /\ \A c \in ToSet(file.components) : \A s \in ToSet(c.signals) : Called(s[2], {})
  /\ \A e \in ToSet(Elements(Mounted.root)) : ShowsElement(e, KeptSignals(Mounted))
  /\ \A c, d \in ToSet(file.components) : HasEffects(c) /\ HasEffects(d) => c = d
HandlerCount == FoldLeft(LAMBDA n, e : n + Len(SelectSeq(e.attrs, LAMBDA a : a[1] = "click")), 0, Elements(Mounted.root))

\* A file with components builds the window that is written, and every text shows
\* the values that the signals have after any clicks, if the file keeps to what
\* the emitter knows: no reactive text inside of a button or in two components,
\* signals called in templates and handlers and bare in braces, one piece to a text,
\* numbers and long colours for attributes.  Any other file is refused by the C
\* compiler, or shows another window from the start.
WindowShowsFile ==
  /\ phase \in {"failed", "refused"} => ~ShowsAll
  /\ phase = "runs" /\ ShowsAll /\ HandlerCount <= MaxHandlers => ScreenShown = ScreenMeant
  /\ phase = "runs" /\ meant = SignalsMeant(Mounted) => (ShowsAll <=> ScreenShown = ScreenMeant)
=============================================================================
