----------------------------- MODULE SourceText -----------------------------
(***************************************************************************)
(* From the characters of a Calynda program to its tokens                  *)
(* (compiler/src/tokenizer, which parser_init runs to the end of a text).  *)
(*                                                                         *)
(* A word (an identifier, a keyword, a number or a quoted literal) is one  *)
(* character here: what it is made of and where it ends is left out.  What *)
(* is kept is where an operator ends, what separates tokens, and what a    *)
(* brace closes: a block, or an interpolation of a template literal.       *)
(***************************************************************************)
EXTENDS Integers, Sequences, TLC

CONSTANTS
  Texts,            \* [tokens, gap, tree]: what is written, what is put between
                    \* tokens, and the program it stands for (module Parser)
  MaxTemplateDepth  \* TOKENIZER_MAX_TEMPLATE_DEPTH, 32 in the code

ASSUME DepthAssumption == MaxTemplateDepth \in Nat

VARIABLES
  text,    \* one of Texts
  chars,   \* t->source
  cursor,    \* t->current
  braces,  \* t->interpolation_brace_depth, of the interpolations that are open
  tokens,  \* parser->tokens
  scan     \* "on", then "done" or "error"

scanVars == <<text, chars, cursor, braces, tokens, scan>>

-----------------------------------------------------------------------------
(* Tokens and how they are written *)

\* Operators of more than one character.
Spelling ==
  "..." :> <<".", ".", ".">> @@ "->" :> <<"-", ">">> @@ "--" :> <<"-", "-">>
  @@ "-=" :> <<"-", "=">> @@ "++" :> <<"+", "+">> @@ "+=" :> <<"+", "=">>
  @@ "*=" :> <<"*", "=">> @@ "/=" :> <<"/", "=">> @@ "%=" :> <<"%", "=">>
  @@ "==" :> <<"=", "=">> @@ "!=" :> <<"!", "=">> @@ "<<" :> <<"<", "<">>
  @@ "<<=" :> <<"<", "<", "=">> @@ "<=" :> <<"<", "=">> @@ ">>" :> <<">", ">">>
  @@ ">>=" :> <<">", ">", "=">> @@ ">=" :> <<">", "=">> @@ "&&" :> <<"&", "&">>
  @@ "&=" :> <<"&", "=">> @@ "||" :> <<"|", "|">> @@ "|=" :> <<"|", "=">>
  @@ "^=" :> <<"^", "=">> @@ "~&" :> <<"~", "&">> @@ "~^" :> <<"~", "^">>
  @@ "${" :> <<"$", "{">>
Operators == DOMAIN Spelling

\* The text of a template up to an interpolation, between two of them, after the
\* last one, and of a template without any; with braces and escapes in it.
TemplateParts ==
  "template${" :> <<"tick", "$", "backslash", "tick", "$", "{">> @@ "}part${" :> <<"}", "{", "$", "$", "{">>
  @@ "}template" :> <<"}", "}", "backslash", "$", "{", "tick">> @@ "template" :> <<"tick", "{", "}", "tick">>

CharsOf(t) ==
  CASE t \in Operators -> Spelling[t]
    [] t \in DOMAIN TemplateParts -> TemplateParts[t]
    [] OTHER -> <<t>>

\* A word is followed by a space if the next token is a word too.
Marks == {"(", ")", "{", "}", "[", "]", ";", ",", ".", "?", ":", "-", "+", "*", "/", "%", "=",
          "!", "<", ">", "&", "|", "^", "~"}
IsWord(t) == t \notin Marks \cup Operators \cup DOMAIN TemplateParts

RECURSIVE Spelled(_, _)
Spelled(ts, gap) ==
  IF ts = <<>> THEN <<>>
  ELSE CharsOf(ts[1])
       \o (IF Len(ts) > 1 /\ gap = <<>> /\ IsWord(ts[1]) /\ IsWord(ts[2]) THEN <<" ">> ELSE gap)
       \o Spelled(Tail(ts), gap)

-----------------------------------------------------------------------------
(* The tokenizer *)

\* peek, peek_next: the end of the text is a character of its own.
CharAt(p) == IF p \in DOMAIN chars THEN chars[p] ELSE "end"
Blank == {" ", "newline"}

\* skip_whitespace: where it ends if it begins at p.
AfterBlank ==
  LET after[p \in 1 .. Len(chars) + 2] ==
        CASE CharAt(p) \in Blank -> after[p + 1]
          [] CharAt(p) = "/" /\ CharAt(p + 1) = "/" ->
               after[CHOOSE q \in p .. Len(chars) + 1 :
                       /\ CharAt(q) \in {"newline", "end"}
                       /\ \A r \in p .. q - 1 : CharAt(r) # "newline"]
          [] CharAt(p) = "/" /\ CharAt(p + 1) = "*" ->
               LET ends == {q \in p + 4 .. Len(chars) + 1 :
                              CharAt(q - 2) = "*" /\ CharAt(q - 1) = "/"} IN
                 IF ends = {} THEN Len(chars) + 1
                 ELSE after[CHOOSE q \in ends : \A r \in ends : q <= r]
          [] OTHER -> p
  IN after

StartsWith(p, cs) == \A k \in DOMAIN cs : CharAt(p + k - 1) = cs[k]

\* tokenizer_scan_punctuation, tokenizer_scan_identifier: the longest operator
\* that begins here, or the character itself.
OperatorsAt(p) == {o \in Operators : StartsWith(p, Spelling[o])}
TokenAt(p) ==
  IF OperatorsAt(p) = {} THEN CharAt(p)
  ELSE CHOOSE o \in OperatorsAt(p) : \A q \in OperatorsAt(p) : Len(Spelling[o]) >= Len(Spelling[q])

\* Nothing else begins a token.
Stray == {"$", "backslash"}
Escapable == {"backslash", "tick", "$"}

\* tokenizer_scan_template_body from p: where it stops and why.
TemplateStop(p) ==
  LET stop[q \in p .. Len(chars) + 2] ==
        CASE CharAt(q) = "end" -> [at |-> q, why |-> "unterminated"]
          [] CharAt(q) = "backslash" -> IF CharAt(q + 1) \in Escapable THEN stop[q + 2]
                                 ELSE [at |-> q, why |-> "bad escape"]
          [] CharAt(q) = "$" /\ CharAt(q + 1) = "{" -> [at |-> q + 2, why |-> "interpolation"]
          [] CharAt(q) = "tick" -> [at |-> q + 1, why |-> "end"]
          [] OTHER -> stop[q + 1]
  IN stop[p]

ScanStart ==
  /\ chars = Spelled(text.tokens, text.gap)
  /\ cursor = 1
  /\ braces = <<>>
  /\ tokens = <<>>
  /\ scan = "on"
ScanInit == text \in Texts /\ ScanStart

Innermost(bs) == bs[Len(bs)]
Outer(bs) == SubSeq(bs, 1, Len(bs) - 1)
WithInnermost(d) == [braces EXCEPT ![Len(braces)] = d]

ScanFails == scan' = "error" /\ UNCHANGED <<text, chars, cursor, braces, tokens>>
Token(t, after) ==
  /\ tokens' = Append(tokens, t)
  /\ cursor' = after
  /\ UNCHANGED <<text, chars, scan>>

\* A part of a template that begins at p, inside of the interpolations bs.
ReadPart(p, bs, onInterpolation, onEnd) ==
  LET s == TemplateStop(p + 1) IN
    \/ s.why = "interpolation" /\ Len(bs) < MaxTemplateDepth
       /\ Token(onInterpolation, s.at) /\ braces' = Append(bs, 0)
    \/ s.why = "end" /\ Token(onEnd, s.at) /\ braces' = bs
    \/ s.why = "interpolation" /\ Len(bs) >= MaxTemplateDepth /\ ScanFails
    \/ s.why \in {"unterminated", "bad escape"} /\ ScanFails

\* bug: a brace closes the interpolation, whatever has been opened in it
AnyBraceCloses(p) == braces # <<>> /\ CharAt(p) = "}"

ClosesInterpolation(p) == braces # <<>> /\ Innermost(braces) = 0 /\ CharAt(p) = "}"

ResumeTemplate ==
  LET p == AfterBlank[cursor] IN
    /\ scan = "on" /\ ClosesInterpolation(p)
    /\ ReadPart(p, Outer(braces), "}part${", "}template")

OpenTemplate ==
  LET p == AfterBlank[cursor] IN
    /\ scan = "on" /\ CharAt(p) = "tick"
    /\ ReadPart(p, braces, "template${", "template")

ReadToken ==
  LET p == AfterBlank[cursor]
      t == TokenAt(p) IN
    /\ scan = "on" /\ CharAt(p) \notin {"tick", "end"} /\ ~ClosesInterpolation(p)
    /\ \/ t \in Stray /\ ScanFails
       \/ /\ t \notin Stray
          /\ Token(t, p + Len(CharsOf(t)))
          /\ braces' = IF braces = <<>> THEN braces
                       ELSE CASE t = "{" -> WithInnermost(Innermost(braces) + 1)
                              [] t = "}" -> WithInnermost(Innermost(braces) - 1)
                              [] OTHER -> braces

\* parser_init stops at the end of the text.
TextEnds ==
  /\ scan = "on" /\ CharAt(AfterBlank[cursor]) = "end"
  /\ scan' = "done"
  /\ UNCHANGED <<text, chars, cursor, braces, tokens>>

ScanNext == ResumeTemplate \/ OpenTemplate \/ ReadToken \/ TextEnds

-----------------------------------------------------------------------------
(* Properties *)

NoTree == <<"none">>

\* Interpolations around the tokens after position i.
DepthAfter(i) ==
  Len(SelectSeq(SubSeq(text.tokens, 1, i), LAMBDA t : t = "template${"))
  - Len(SelectSeq(SubSeq(text.tokens, 1, i), LAMBDA t : t = "}template"))

\* Written without a gap, the token at i and what follows read as a longer one, or
\* as a comment.
RunsOn(i) ==
  LET rest == Spelled(SubSeq(text.tokens, i, Len(text.tokens)), <<>>)
      begins(cs) == Len(cs) <= Len(rest) /\ SubSeq(rest, 1, Len(cs)) = cs IN
    /\ text.gap = <<>> /\ text.tokens[i] \notin DOMAIN TemplateParts
    /\ \/ \E o \in Operators : begins(Spelling[o]) /\ Len(Spelling[o]) > Len(CharsOf(text.tokens[i]))
       \/ begins(<<"/", "/">>) \/ begins(<<"/", "*">>)

\* The text of a program reads as the tokens it is written with, templates inside
\* blocks inside interpolations included, whatever separates them: except that
\* operators without a gap may run on, and that templates may be nested too deep.
TokensAreRead ==
  scan # "on" /\ text.tree # NoTree =>
    IF \E i \in DOMAIN text.tokens : DepthAfter(i) > MaxTemplateDepth THEN scan = "error"
    ELSE (scan = "done" /\ tokens = text.tokens) <=> ~\E i \in DOMAIN text.tokens : RunsOn(i)
=============================================================================
