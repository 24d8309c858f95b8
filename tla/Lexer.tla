------------------------------- MODULE Lexer -------------------------------
(***************************************************************************)
(* The lexer (paco-syntax/src/lex.rs).                                     *)
(*                                                                         *)
(* A text is a sequence of pieces: words, numbers, quoted literals,        *)
(* punctuation and " " for any white space or comment.  Two pieces without *)
(* white space between them are adjacent characters of the file, so the    *)
(* lexer may read them as one token.  A token is its lexeme and whether    *)
(* the next one touches it.                                                *)
(***************************************************************************)
EXTENDS Integers, Sequences

Keywords == {"fn", "struct", "enum", "trait", "where", "methods", "use", "module", "pub", "as",
  "extern", "unsafe", "comptime", "quote", "spawn", "select", "yield", "iter", "let", "mut",
  "const", "type", "match", "if", "else", "while", "for", "in", "loop", "break", "continue",
  "return", "true", "false", "_"}

Methods   == {f \o "_" \o o : f \in {"wrapping", "saturating", "checked", "overflowing"}, o \in {"add", "sub", "mul"}}
             \cup {"add", "neg", "cmp", "from", "unwrap", "expect", "next", "drop", "main"}
Names     == {"a", "b", "c", "f", "g", "h", "m", "n", "p", "q", "r", "s", "t", "x", "y", "z", "S", "T", "N", "E", "U", "self", "Self",
              "Option", "Some", "None", "Result", "Ok", "Err", "Color", "Red", "Green", "panic", "i8", "i64", "u8", "u64",
              "bool", "string", "default", "dim", "Dyn", "splice_field"} \cup Methods
Integer   == {"0", "1", "2", "0x2", "3", "7", "8"}
Float     == {"1.5"}
Lifetimes == {"'a"}
Words     == Keywords \cup Names \cup Integer \cup Float

\* identifier and the other scanners: what the parser asks of a token.
kind(lexeme) ==
  CASE lexeme \in Names     -> "identifier"
    [] lexeme \in Integer   -> "integer"
    [] lexeme \in Float     -> "float"
    [] lexeme \in Lifetimes -> "lifetime"
    [] lexeme = "'c'"       -> "char"
    [] lexeme = "str"       -> "string"
    [] OTHER                -> lexeme

\* match_char: the punctuation that continues a token.  `<<` and `>>` are two tokens.
Longer == {<<"&", "&", "&&">>, <<"|", "|", "||">>, <<":", ":", "::">>, <<"-", ">", "->">>,
  <<"!", "=", "!=">>, <<"=", "=", "==">>, <<"=", ">", "=>">>, <<"<", "=", "<=">>,
  <<">", "=", ">=">>, <<".", ".", "..">>, <<"..", ".", "...">>, <<"..", "=", "..=">>}

Token(lexeme) == [lexeme |-> lexeme, touches |-> TRUE]

\* scan_token: the tokens read so far take the next piece in.  Two words that touch are one
\* word the program does not mean; no parser function accepts it.
scan(tokens, piece) ==
  LET last   == tokens[Len(tokens)]
      joined == {l \in Longer : l[1] = last.lexeme /\ l[2] = piece}
  IN  CASE piece = " " -> [tokens EXCEPT ![Len(tokens)].touches = FALSE]
        [] piece # " " /\ last.touches /\ joined # {} ->
             [tokens EXCEPT ![Len(tokens)].lexeme = (CHOOSE l \in joined : TRUE)[3]]
        [] piece # " " /\ last.touches /\ {last.lexeme, piece} \subseteq Words ->
             Append(tokens, Token("error"))
        [] OTHER -> Append(tokens, Token(piece))

\* The pieces i..j of the text; there is always a token, the start of the file.
RECURSIVE scan_pieces(_, _, _, _)
scan_pieces(text, i, j, tokens) ==
  IF Len(tokens) = 0 \/ i > j THEN tokens
  ELSE IF i = j THEN scan(tokens, text[i])
  ELSE scan_pieces(text, (i + j) \div 2 + 1, j, scan_pieces(text, i, (i + j) \div 2, tokens))

\* lex: the first entry stands for the start of the file, the last for its end.
lex(text) == Append(scan_pieces(text, 1, Len(text), <<[lexeme |-> "start", touches |-> FALSE]>>), Token("eof"))
=============================================================================
