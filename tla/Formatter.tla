----------------------------- MODULE Formatter -----------------------------
(***************************************************************************)
(* The formatter (paco-syntax/src/fmt.rs) and the `paco fmt` command.      *)
(*                                                                         *)
(* What the formatter writes is again a sequence of pieces.  Indentation   *)
(* and line breaks are one " ".  `Parts` gives for a node the words it     *)
(* writes itself and the nodes written between them.                       *)
(***************************************************************************)
EXTENDS Parser

W(x)          == <<Leaf("text", x)>>
Wordy(xs)     == [j \in DOMAIN xs |-> Leaf("text", xs[j])]
When(b, s)    == IF b THEN s ELSE <<>>
Sep(c, words) == FlattenSeq([j \in DOMAIN c |-> When(j > 1, Wordy(words)) \o <<c[j]>>])
Commas(c)     == Sep(c, <<",", " ">>)
Each(c, words) == FlattenSeq([j \in DOMAIN c |-> <<c[j]>> \o Wordy(words)])

expr_precedence(node) ==
  CASE node.k = "="            -> 1
    [] node.k \in {"||"}       -> 2
    [] node.k \in {"&&"}       -> 3
    [] node.k \in Comparisons  -> 4
    [] node.k = "|"            -> 5
    [] node.k = "^"            -> 6
    [] node.k = "&"            -> 7
    [] node.k \in {"<<", ">>"} -> 8
    [] node.k \in {"+", "-"}   -> 9
    [] node.k \in {"*", "/", "%", "as"} -> 10
    [] node.k \in {"not", "neg", "bitnot", "deref", "borrow"} -> 11
    [] OTHER -> 12

\* Faulty: an operand of the same precedence on the right goes unparenthesised.
format_right_loose(node, prec) ==
  IF expr_precedence(node) < prec - 1 THEN W("(") \o <<node>> \o W(")") ELSE <<node>>
format_expr_with_precedence(node, prec) ==
  IF expr_precedence(node) < prec THEN W("(") \o <<node>> \o W(")") ELSE <<node>>

-----------------------------------------------------------------------------
Arrow(t)        == When(t # None, Wordy(<<" ", "->", " ">>) \o <<t>>)
Colon(t)        == When(t # None, Wordy(<<":", " ">>) \o <<t>>)
Generics(g)     == When(g.c # <<>>, W("<") \o Commas(g.c) \o W(">"))
Params(ps)      == W("(") \o Commas(ps.c) \o W(")")
Word(node, x)   == When(node # None, Wordy(<<x, " ">>))
Abi(node)       == When(node # None, Wordy(<<"extern", " ">>) \o <<node>> \o W(" "))
Body(c)         == Wordy(<<" ", "{", " ">>) \o c \o W("}")

\* format_stmt: `;` after the last statement and after those that are not blocks.
Statements(c) ==
  FlattenSeq([j \in DOMAIN c |->
    CASE c[j].k = "expr" -> <<c[j].c[1]>> \o When(j = Len(c) \/ c[j].c[1].k \notin BlockLike, W(";")) \o W(" ")
      [] c[j].k = "tail" -> <<c[j].c[1]>> \o W(" ")
      [] OTHER -> <<c[j]>>])

format_fn_decl(c) ==
  Word(c[3].c[3], "unsafe") \o Word(c[3].c[2], "iter") \o Abi(c[3].c[4]) \o Wordy(<<"fn", " ">>)
  \o <<c[4]>> \o Generics(c[5]) \o Params(c[6]) \o Arrow(c[7]) \o W(" ") \o <<c[8]>>
\* format_trait_decl's functions, and those of an extern block.
format_signature(c) ==
  Wordy(<<"fn", " ">>) \o <<c[1]>> \o Generics(c[2]) \o Params(c[3]) \o Arrow(c[4])
  \o (IF c[5] = None THEN W(";") ELSE W(" ") \o <<c[5]>>)
format_extern_block(k, c) ==
  IF k = "externFn" THEN Wordy(<<"fn", " ">>) \o <<c[2]>> \o Params(c[4]) \o Arrow(c[5]) \o W(";")
  ELSE Wordy(<<"extern", " ">>) \o <<c[2]>> \o Body(Each(c[3].c, <<" ">>))
format_const_decl(c) ==
  Wordy(<<"const", " ">>) \o <<c[2]>> \o Colon(c[3]) \o Wordy(<<" ", "=", " ">>) \o <<c[4]>> \o W(";")
format_use_decl(c) ==
  Wordy(<<"use", " ">>) \o Sep(c[1].c, <<"::">>)
  \o When(c[2] # None, Wordy(<<" ", "as", " ">>) \o <<c[2]>>) \o W(";")
\* format_struct_decl, format_enum_decl, format_trait_decl.
format_decl(k, c) ==
  Wordy(<<k, " ">>) \o <<c[3]>> \o Generics(c[4])
  \o Body(Each(c[5].c \o c[6].c, <<",", " ">>) \o Each(c[7].c \o c[8].c \o c[9].c \o c[10].c, <<" ">>))
format_variant(k, c) ==
  CASE k = "variant"       -> <<c[2]>> \o When(c[3] # None, <<c[3]>>)
    [] k = "struct_fields" -> Body(Commas(c) \o W(" "))
    [] k = "inner_field"   -> <<c[1]>> \o Colon(c[2])
format_methods_block(c) ==
  Wordy(<<"methods", " ">>) \o Generics(c[1]) \o W(" ") \o <<c[2]>> \o Body(Each(c[3].c \o c[4].c, <<" ">>))
format_assoc_types(c) ==
  Wordy(<<"type", " ">>) \o <<c[1]>> \o When(c[2] # None, Wordy(<<" ", "=", " ">>) \o <<c[2]>>) \o W(";")
format_generics(k, c) ==
  CASE k = "typeParam" -> <<c[1]>> \o When(Len(c) > 1, Wordy(<<":", " ">>) \o Sep(Tail(c), <<" ", "+", " ">>))
    [] k = "lifeParam" -> <<c[1]>>
    [] k = "dimParam"  -> Wordy(<<"dim", " ">>) \o <<c[1]>>
    [] OTHER -> Wordy(<<"const", " ">>) \o <<c[1]>> \o Colon(c[2]) \o When(k = "packParam", W("..."))
format_item(k, c) ==
  CASE k = "fn"      -> format_fn_decl(c)
    [] k = "sig"     -> format_signature(c)
    [] k \in {"externFn", "extern"}       -> format_extern_block(k, c)
    [] k = "const"   -> format_const_decl(c)
    [] k = "use"     -> format_use_decl(c)
    [] k \in {"struct", "enum", "trait"}  -> format_decl(k, c)
    [] k \in {"variant", "struct_fields", "inner_field"} -> format_variant(k, c)
    [] k = "methods" -> format_methods_block(c)
    [] k = "assoc"   -> format_assoc_types(c)
    [] k = "field_decl" -> <<c[3]>> \o Colon(c[4])
    [] k \in {"typeParam", "lifeParam", "dimParam", "constParam", "packParam"} -> format_generics(k, c)
    [] k = "module"  -> When(c[1] # None, Wordy(<<"module", " ">>) \o <<c[1]>> \o Wordy(<<";", " ">>))
                        \o Each(Tail(c), <<" ">>)

\* A receiver is written by its form.
format_param(c) ==
  CASE c[1].n = "self" /\ c[2].k = "tyRef" -> W("&") \o Word(c[2].c[2], "mut") \o W("self")
    [] c[1].n = "self" /\ c[2].k = "path"  -> W("self")
    [] OTHER -> <<c[1]>> \o Colon(c[2])

format_ty(k, c) ==
  CASE k = "path"     -> Sep(c, <<"::">>)
    [] k = "tyGen"    -> <<c[1]>> \o W("<") \o Commas(c[2].c) \o W(">")
    [] k \in {"tyTuple", "tuple", "patTuple"} -> W("(") \o Commas(c) \o W(")")
    [] k = "tySlice"  -> Wordy(<<"[", "]">>) \o c
    [] k = "tyRef"    -> W("&") \o When(c[1] # None, <<c[1]>> \o W(" ")) \o Word(c[2], "mut") \o <<c[3]>>
    [] k = "tyMutPtr" -> Wordy(<<"*", "mut", " ">>) \o c
    [] k = "tyPtr"    -> Wordy(<<"*", "const", " ">>) \o c
    [] k = "tyFn"     -> Word(c[1], "unsafe") \o Abi(c[2]) \o W("fn") \o Params(c[3]) \o Arrow(c[4])
    [] k = "tyConst"  -> c
    [] k = "exists"   -> W("?") \o c
    [] k = "expand"   -> c \o W("...")
    [] k = "tyType"   -> W("type")

format_pat(k, c) ==
  CASE k = "patStruct" ->
         LET fields == SelectSeq(c[2].c, LAMBDA f : f.k # "rest")
             rest   == Len(fields) < Len(c[2].c)
         IN  <<c[1]>> \o Wordy(<<" ", "{", " ">>) \o Commas(fields)
             \o When(rest, When(fields # <<>>, Wordy(<<",", " ">>)) \o W("..")) \o Wordy(<<" ", "}">>)
    [] k = "field_pat" -> <<c[1]>> \o Colon(c[2])
    [] k = "patEnum"   -> <<c[1]>> \o When(c[2].c # <<>>, Params(c[2]))
    [] k \in {"..", "..="} -> <<c[1]>> \o W(k) \o <<c[2]>>
    [] k = "or"     -> Sep(c, <<" ", "|", " ">>)
    [] k = "@"      -> <<c[1]>> \o W("@") \o <<c[2]>>
    [] k = "patRef" -> W("&") \o Word(c[1], "mut") \o <<c[2]>>

Unary == [op \in Range(Prefix) |-> CHOOSE w \in DOMAIN Prefix : Prefix[w] = op]
Tight(node) == format_expr_with_precedence(node, 12)
format_control(k, c) ==
  CASE k = "block" -> IF c = <<>> THEN Wordy(<<"{", "}">>) ELSE Wordy(<<"{", " ">>) \o Statements(c) \o W("}")
    [] k = "let"   -> Wordy(<<"let", " ">>) \o Word(c[1], "mut") \o <<c[2]>> \o Colon(c[3])
                      \o When(c[4] # None, Wordy(<<" ", "=", " ">>) \o <<c[4]>>) \o Wordy(<<";", " ">>)
    [] k = "if"    -> Wordy(<<"if", " ">>) \o <<c[1]>> \o W(" ") \o <<c[2]>>
                      \o When(c[3] # None, Wordy(<<" ", "else", " ">>) \o <<c[3]>>)
    [] k = "while" -> Wordy(<<"while", " ">>) \o <<c[1]>> \o W(" ") \o <<c[2]>>
    [] k = "match" -> Wordy(<<"match", " ">>) \o <<c[1]>> \o Body(Each(c[2].c, <<" ">>))
    [] k = "arm"   -> <<c[1]>> \o When(c[2] # None, Wordy(<<" ", "if", " ">>) \o <<c[2]>>)
                      \o Wordy(<<" ", "=>", " ">>) \o <<c[3]>> \o When(c[3].k # "block", W(","))
format_operation(k, c) ==
  CASE k = "call"  -> Tight(c[1]) \o Params(c[3])
    [] k = "method" -> Tight(c[1]) \o W(".") \o <<c[2]>> \o Params(c[3])
    [] k = "associated" -> <<c[1]>> \o W("::") \o <<c[2]>> \o When(c[3].k = "args", Params(c[3]))
    [] k \in BinaryOps -> format_expr_with_precedence(c[1], expr_precedence(Leaf(k, ""))) \o W(" ")
                          \o Wordy(CASE k = "<<" -> <<"<", "<">> [] k = ">>" -> <<">", ">">> [] OTHER -> <<k>>)
                          \o W(" ") \o format_expr_with_precedence(c[2], expr_precedence(Leaf(k, "")) + 1)
    [] k \in DOMAIN Unary -> W(Unary[k]) \o format_expr_with_precedence(c[1], 11)
    [] k = "="      -> format_expr_with_precedence(c[1], 2) \o Wordy(<<" ", "=", " ">>)
                       \o format_expr_with_precedence(c[2], 1)
    [] k = "field"  -> Tight(c[1]) \o W(".") \o <<c[2]>>
    [] k = "index"  -> Tight(c[1]) \o W("[") \o Commas(c[2].c) \o W("]")
    [] k = "try"    -> Tight(c[1]) \o W("?")
    [] k = "as"     -> format_expr_with_precedence(c[1], 11) \o Wordy(<<" ", "as", " ">>) \o <<c[2]>>
format_expr(k, c) ==
  CASE k \in {"unsafe", "loop", "comptime", "yield", "spawn"} -> Wordy(<<k, " ">>) \o c
    [] k = "return" -> W("return") \o When(c[1] # None, W(" ") \o c)
    [] k = "closure" -> W("|") \o Commas(c[1].c) \o Wordy(<<"|", " ">>) \o <<c[2]>>
    [] k = "cparam" -> <<c[1]>> \o Colon(c[2])
    [] k = "select" -> W("select") \o Body(Each(c, <<" ">>))
    [] k = "select_arm" -> <<c[1]>> \o Wordy(<<" ", "=>", " ">>) \o <<c[2]>>
    [] k = "default" -> Wordy(<<"default", " ", "=>", " ">>) \o c
    [] k = "quote"  -> Wordy(<<"quote", " ", "{">>) \o c \o W("}")
    [] k = "splice" -> Wordy(<<"#", "(">>) \o c \o W(")")
    [] k = "literal" -> <<c[1]>> \o (IF c[2].c = <<>> THEN Wordy(<<" ", "{", "}">>)
                                     ELSE Wordy(<<" ", "{", " ">>) \o Commas(c[2].c) \o Wordy(<<" ", "}">>))
    [] k = "field_value" -> <<c[1]>> \o Colon(c[2])
    [] k = "borrow" -> W("&") \o Word(c[1], "mut") \o format_expr_with_precedence(c[2], 11)

Items    == {"fn", "sig", "externFn", "extern", "const", "use", "struct", "enum", "trait", "methods", "assoc",
             "field_decl", "inner_field", "variant", "struct_fields", "typeParam", "lifeParam", "dimParam",
             "constParam", "packParam", "module"}
Types    == {"path", "tyGen", "tyTuple", "tuple", "patTuple", "tySlice", "tyRef", "tyMutPtr", "tyPtr", "tyFn",
             "tyConst", "exists", "expand", "tyType"}
Patterns == {"patStruct", "field_pat", "patEnum", "..", "..=", "or", "@", "patRef"}
Control  == {"block", "let", "if", "while", "match", "arm"}
Postfix  == {"call", "method", "associated", "=", "field", "index", "try", "as"}
Lexical  == {"identifier", "integer", "float", "string", "char", "lifetime", "text"}
Fixed    == {"true", "false", "break", "continue", "_", "Dyn"}
\* format_literal writes an integer as it stood in the source.
Parts(node) ==
  CASE node.k = "param"    -> format_param(node.c)
    [] node.k \in Items    -> format_item(node.k, node.c)
    [] node.k \in Types    -> format_ty(node.k, node.c)
    [] node.k \in Patterns -> format_pat(node.k, node.c)
    [] node.k \in Control  -> format_control(node.k, node.c)
    [] node.k \in BinaryOps \cup DOMAIN Unary \cup Postfix -> format_operation(node.k, node.c)
    [] OTHER               -> format_expr(node.k, node.c)

RECURSIVE render(_, _)
render(work, out) ==
  CASE work = <<>> -> out
    [] work # <<>> /\ Head(work).k \in Lexical -> render(Tail(work), Append(out, Head(work).n))
    [] work # <<>> /\ Head(work).k \in Fixed   -> render(Tail(work), Append(out, Head(work).k))
    [] OTHER -> render(Parts(Head(work)) \o Tail(work), out)
format_module(node) == render(<<node>>, <<>>)
=============================================================================
