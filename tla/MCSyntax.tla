------------------------------ MODULE MCSyntax ------------------------------
\* Source files for the parser and the formatter: expressions nested in every other
\* expression, with and without parentheses, types and patterns likewise, declarations,
\* operator chains and for loops.
EXTENDS Syntax

H  == <<"$H">>                  \* the hole of a context
Sp(words) == FlattenSeq([j \in DOMAIN words |-> <<words[j], " ">>])
RECURSIVE Fill(_, _, _)
Fill(context, j, text) ==
  IF j > Len(context) THEN <<>>
  ELSE (IF context[j] = "$H" THEN text ELSE <<context[j]>>) \o Fill(context, j + 1, text)
In(context, text) == Fill(context, 1, text)
Parens(text) == <<"(">> \o text \o <<")">>

Exprs == {
  <<"$H", "+", "a">>, <<"a", "+", "$H">>, <<"$H", "*", "a">>, <<"a", "*", "$H">>, <<"$H", "==", "a">>,
  <<"a", "<", "$H">>, <<"$H", "<", "a">>, <<"$H", "<", "<", "a">>, <<"a", "&", "$H">>, <<"$H", "||", "a">>, <<"-", "$H">>,
  <<"!", "$H">>, <<"&", "$H">>, <<"&", "mut", " ", "$H">>, <<"*", "$H">>, <<"$H", " ", "as", " ", "T">>,
  <<"$H", ".", "m", "(", ")">>, <<"$H", ".", "a">>, <<"$H", "[", "a", "]">>, <<"$H", "?">>, <<"$H", "(", ")">>,
  <<"f", "(", "$H", ",", "a", ")">>, <<"S", "::", "f", "(", "$H", ")">>, <<"(", "$H", ",", "a", ")">>,
  <<"S", "{", "x", ":", "$H", "}">>, <<"|", "x", "|", "$H">>, <<"spawn", " ", "$H">>, <<"return", " ", "$H">>,
  <<"yield", " ", "$H">>, <<"if", " ", "$H", " ", "{", "a", "}">>, <<"if", " ", "a", "{", "$H", ";", "}", "else", "{", "$H", "}">>,
  <<"match", " ", "$H", " ", "{", "x", "=>", "a", "}">>,
  <<"match", " ", "a", "{", "x", " ", "if", " ", "$H", "=>", "$H", ",", "(", "a", ")", "=>", "b", "}">>,
  <<"while", " ", "$H", "{", "a", ";", "$H", "}">>, <<"loop", "{", "$H", ";", "b", "}">>, <<"comptime", "{", "$H", "}">>, <<"unsafe", "{", "$H", "}">>,
  <<"$H", "=", "a">>, <<"a", "=", "$H">>, <<"select", "{", "x", "=", "$H", "=>", "a", "}">>,
  <<"select", "{", "a", "=>", "$H", ",", "default", "=>", "b", "}">>, <<"quote", "{", "$H", "}">>, <<"#", "(", "$H", ")">>,
  <<"if", " ", "let", " ", "Some", "(", "x", ")", "=", "$H", "{", "a", "}">>,
  <<"while", " ", "let", " ", "Some", "(", "x", ")", "=", "$H", "{", "a", "}">>,
  <<"for", " ", "x", " ", "in", " ", "$H", "{", "a", "}">>, <<"for", " ", "x", " ", "in", " ", "0", "..", "$H", "{", "a", "}">>,
  <<"f", "<", "T", ">", "(", "$H", ")">>, <<"a", ".", "#", "(", "$H", ")">> }
Body1(e) == <<"fn", " ", "f", "(", ")", "{">> \o e \o <<"}">>
LetE(e)  == Body1(<<"let", " ", "x", "=">> \o e \o <<";">>)
Openers == {"if", "match", "loop", "unsafe", "return", "|", "spawn"}
ExprTexts ==
  LET inner == {In(c, <<"b">>) : c \in Exprs}
      two == {In(c, e) : c \in Exprs, e \in inner} \cup {In(c, Parens(e)) : c \in Exprs, e \in inner}
  IN  {LetE(e) : e \in two} \cup {Body1(In(c, Parens(e)) \o <<";">>) : c \in Exprs, e \in {t \in inner : t[1] \in Openers}}

Tys == { <<"&", "$H">>, <<"&", "'a", " ", "mut", " ", "$H">>, <<"[", "]", "$H">>, <<"*", "const", " ", "$H">>, <<"*", "mut", " ", "$H">>, <<"(", "$H", ")">>,
  <<"(", "$H", ",", "T", ")">>, <<"fn", "(", "$H", ")", "->", "$H">>, <<"unsafe", " ", "extern", " ", "str", " ", "fn", "(", ")", "->", "$H">>, <<"S", "<", "$H", ",", "1", "+", "n", ">">>,
  <<"S", "<", "n", "...", ">">>, <<"S", "<", "Dyn", ",", "?", "n", ">">>, <<"a", "::", "T">>, <<"type">> }
TyTexts == {<<"fn", " ", "f", "(", "x", ":">> \o t \o <<")", "->">> \o t \o <<"{", "(", "x", " ", "as", " ">> \o t \o <<")", "<", "a", "}">>
             : t \in {In(c, In(d, <<"T">>)) : c \in Tys, d \in Tys}}

Pats == { <<"&", "$H">>, <<"&", "mut", " ", "$H">>, <<"(", "$H", ",", "y", ")">>, <<"Some", "(", "$H", ")">>, <<"S", "::", "T">>, <<"S", "{", "a", ",", "b", ":", "$H", ",", "..", "}">>,
  <<"S", "{", "..", "}">>, <<"$H", "|", "None">>, <<"n", "@", "$H">>, <<"0", "..", "2">>, <<"1", "..=", "$H">>, <<"_">>, <<"f", "(", ")">>, <<"'c'">>, <<"0x2">> }
PatTexts == {Body1(<<"match", " ", "a", "{", "x", "=>", "{", "}", ",">> \o p \o <<"=>", "b", ",">> \o p \o <<"=>", "c", "}">>)
             : p \in {In(c, In(d, <<"x">>)) : c \in Pats, d \in Pats}}

Declarations == {
  <<"struct", " ", "S", "<", "T", ",", "const", " ", "N", ":", "T", ">", " ", "where", " ", "T", ":", "a", "+", "b", "{", "a", ":", "T", ",", "fn", " ", "m", "(", "&", "mut", " ", "self", ",", "x", ":", "T", ")", "{", "}",
    "const", " ", "N", ":", "T", "=", "1", ";", "b", ":", "S", "<", "?", "n", ">", ",", "type", " ", "N", "=", "T", ";", "}">>,
  <<"struct", " ", "S", "<", "'a", ",", "dim", " ", "n", ",", "const", " ", "N", ":", "T", "...", ">", "{", "}">>,
  <<"struct", " ", "S", "<", "const", " ", "N", ":", "T", "...", ",", "T", ">", "{", "}">>,
  <<"struct", " ", "S", "{", "pub", " ", "a", ":", "T", "}">>, <<"pub", " ", "struct", " ", "S", "{", "}">>,
  <<"struct", " ", "S", " ", "where", " ", "T", ":", "a", "{", "}">>,
  <<"enum", " ", "S", "{", "a", ",", "b", "(", "T", ",", "T", ")", ",", "c", "{", "x", ":", "T", ",", "y", ":", "T", "}", ",", "fn", " ", "m", "(", "self", ")", "{", "}", "const", " ", "N", ":", "T", "=", "1", ";", "}">>,
  <<"enum", " ", "S", "{", "pub", " ", "a", "}">>, <<"enum", " ", "S", "{", "a", " ", "b", "}">>,
  <<"trait", " ", "S", "<", "T", ">", "{", "fn", " ", "m", "<", "T", ":", "a", ">", "(", "self", ")", "->", "T", ";", "fn", " ", "n", "(", ")", "{", "1.5", "}", "type", " ", "T", ";", "const", " ", "N", ":", "T", "=", "a", ";", "}">>,
  <<"#", "[", "a", "(", "b", "=", "1", ",", "c", "::", "x", ",", "#", "[", "m", "]", ",", "str", ",", "true", ")", "]", "fn", " ", "f", "(", ")", "{", "}">>,
  <<"extern", " ", "str", " ", "{", "fn", " ", "f", "(", "x", ":", "T", ")", "->", "T", ";", "}">>,
  <<"extern", " ", "str", " ", "{", "fn", " ", "f", "<", "T", ">", "(", ")", ";", "}">>,
  <<"methods", " ", "<", "T", ">", " ", "S", "<", "T", ">", "{", "unsafe", " ", "fn", " ", "f", "(", ")", "{", "}", "const", " ", "N", ":", "T", "=", "1", ";", "}">>,
  <<"module", " ", "a", ";", "use", " ", "a", "::", "b", " ", "as", " ", "c", ";", "use", " ", "x", ";">>,
  <<"use", " ", "a", ".", "b", "/", "c", ";">>, <<"const", " ", "N", ":", "T", "=", "a", "+", "1", ";">>,
  <<"iter", " ", "unsafe", " ", "extern", " ", "str", " ", "fn", " ", "f", "(", ")", "{", "}">>, <<"iter", " ", "fn", " ", "f", "(", ")", "{", "yield", " ", "1", ";", "}">>,
  <<"comptime", " ", "fn", " ", "#", "(", "a", ")", "(", ")", "{", "}">>, <<"fn", " ", "f", "(", "&", "x", ")", "{", "}">>, <<"fn", " ", "f", "(", ")", "{", "a", " ", "b", "}">>,
  <<"fn", " ", "f", "(", ")", "{", "let", " ", "mut", " ", "x", ":", "T", ";", "|", "|", "a", ";", "|", "x", ":", "T", ",", "y", "|", "{", "a", "}", "}">>,
  <<"fn", " ", "f", "(", ")", "{", "quote", "{", "methods", " ", "T", "{", "fn", " ", "#", "(", "a", ")", "(", ")", "{", "}", "}", "}", "}">>,
  <<"fn", " ", "f", "(", ")", "{", "S", "<", "T", ">", "::", "N", ";", "a", "::", "S", "{", "}", ";", "S", "::", "f", "(", ")", ".", "a", "}">>,
  <<"fn", " ", "f", "(", ")", "{", "if", " ", "S", "{", "x", ":", "a", "}", "{", "}", "}">>, <<"fn", " ", "f", "(", ")", "{", "f", "(", "x", ":", "a", ")", "}">> }

Ops == {"||", "&&", "==", "<", "|", "^", "&", "<<", "-", "+", "%"}
OpText(o) == CASE o = "<<" -> <<"<", "<">> [] OTHER -> <<o>>
ChainText(ops) ==
  Body1(<<"a">> \o FlattenSeq([j \in DOMAIN ops |-> OpText(ops[j]) \o <<" ", <<"b", "c", "x", "y">>[j]>>]))
Chains == UNION {[1..n -> Ops] : n \in 1..3}

\* Loop bodies: `continue` wherever an expression may stand, the last nine times in places
\* that the parser's rewriting of it leaves out.
Bodies == { <<"continue", ";">>, <<"f", "(", "x", ")", ";">>,
  <<"if", " ", "x", "==", "1", "{", "continue", "}", "f", "(", "x", ")", ";">>,
  <<"if", " ", "x", "==", "0", "{", "f", "(", "x", ")", "}", "else", "{", "continue", ";", "}", "f", "(", "0", ")", ";">>,
  <<"match", " ", "x", "{", "1", "=>", "continue", ",", "_", "=>", "f", "(", "x", ")", "}">>,
  <<"let", " ", "y", "=", "match", " ", "x", "{", "0", "=>", "continue", ",", "_", "=>", "x", "+", "1", "}", ";", "f", "(", "y", ")", ";">>,
  <<"f", "(", "unsafe", "{", "if", " ", "x", "==", "1", "{", "continue", ";", "}", "x", "}", ")">>,
  <<"loop", "{", "if", " ", "x", "==", "2", "{", "break", "}", "f", "(", "x", ")", ";", "break", ";", "}">>,
  <<"for", " ", "y", " ", "in", " ", "0", "..", "2", "{", "if", " ", "y", "==", "0", "{", "continue", "}", "f", "(", "y", "+", "x", ")", ";", "}">>,
  <<"if", " ", "x", "==", "1", "{", "break", "}", "f", "(", "x", ")", ";">>,
  <<"f", "(", "x", "+", "{", "if", " ", "x", "==", "1", "{", "continue", "}", "x", "}", ")", ";">>,
  <<"let", " ", "y", "=", "f", ".", "m", "(", "S", "{", "x", ":", "&", "unsafe", "{", "if", " ", "x", "==", "1", "{", "continue", "}", "x", "}", "}", ")", ";">>,
  <<"if", " ", "unsafe", "{", "if", " ", "x", "==", "1", "{", "continue", "}", "x", "==", "0", "}", "{", "f", "(", "x", ")", "}">>,
  <<"if", " ", "let", " ", "0", "=", "unsafe", "{", "if", " ", "x", "==", "1", "{", "continue", "}", "x", "}", "{", "f", "(", "x", ")", "}">>,
  <<"match", " ", "unsafe", "{", "if", " ", "x", "==", "1", "{", "continue", "}", "x", "}", "{", "0", "=>", "f", "(", "x", ")", ",", "_", "=>", "f", "(", "2", ")", "}">>,
  <<"match", " ", "x", "{", "_", " ", "if", " ", "unsafe", "{", "if", " ", "x", "==", "1", "{", "continue", "}", "x", "==", "0", "}", "=>", "f", "(", "x", ")", ",", "_", "=>", "f", "(", "2", ")", "}">>,
  <<"while", " ", "unsafe", "{", "if", " ", "x", "==", "1", "{", "continue", "}", "x", "==", "0", "}", "{", "f", "(", "x", ")", ";", "break", "}">>,
  <<"f", "(", "unsafe", "{", "if", " ", "x", "==", "1", "{", "continue", "}", "x", "}", ".", "m", "(", ")", ")", ";">>,
  <<"(", "match", " ", "x", "{", "1", "=>", "continue", ",", "_", "=>", "f", "}", ")", "(", "x", ")", ";">>,
  <<"select", "{", "default", "=>", "match", " ", "x", "{", "1", "=>", "continue", ",", "_", "=>", "f", "(", "x", ")", "}", "}">>,
  <<"select", "{", "y", "=", "unsafe", "{", "if", " ", "x", "==", "1", "{", "continue", "}", "x", "}", "=>", "f", "(", "x", ")", "}">> }
ForText(body, op) == Body1(<<"for", " ", "x", " ", "in", " ", "0", op, "2", "{">> \o body \o <<"}">>)

Plain(texts) == {[text |-> t, ops |-> <<>>, body |-> <<>>, to |-> 0] : t \in texts}
MCSources ==
  Plain(ExprTexts \cup TyTexts \cup PatTexts \cup Declarations)
  \cup {[text |-> ChainText(o), ops |-> o, body |-> <<>>, to |-> 0] : o \in Chains}
  \cup {[text |-> ForText(b, ".."), ops |-> <<>>, body |-> Body1(b), to |-> 1] : b \in Bodies}
  \cup {[text |-> ForText(b, "..="), ops |-> <<>>, body |-> Body1(b), to |-> 2] : b \in Bodies}
=============================================================================
