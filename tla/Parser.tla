------------------------------- MODULE Parser -------------------------------
(***************************************************************************)
(* The recursive-descent parser (paco-syntax/src/parse.rs).                *)
(*                                                                         *)
(* Every parsing function is an operator that looks at the tokens ahead    *)
(* and returns what the function then does: consume a token, call another  *)
(* function, build a node from the values parsed last.  `step` performs    *)
(* one of these, `run` performs them all.  The parser's fields are those   *)
(* of the record `p`: the tokens `t`, the position `i`, the two flags, and *)
(* the call stack as the work left `todo` and the values `st`.             *)
(*                                                                         *)
(* A node is [k, n, c]: kind, name, children.  Spans are left out.  Any    *)
(* diagnostic makes the driver stop after parsing, so the first one ends   *)
(* the parse and recovery is left out.                                     *)
(***************************************************************************)
EXTENDS Lexer, SequencesExt, TLC

Node(kd, c) == [k |-> kd, n |-> "", c |-> c]
Leaf(kd, n) == [k |-> kd, n |-> n, c |-> <<>>]
None        == Leaf("none", "")
Wild        == Leaf("_", "")
Stmt(e)     == Node("expr", <<e>>)
Ident(n)    == Leaf("identifier", n)

\* What a parsing function can do next.
Do(op, a, b, d, n) == [op |-> op, a |-> a, b |-> b, d |-> d, n |-> n]
T(x)        == Do("consume", x, "", "", 0)        \* consume a token
V(x)        == Do("value", x, "", "", 0)          \* consume one and keep its lexeme
G(f)        == Do("call", f, "", "", 0)           \* call a parsing function
Lvl(f, n)   == Do("call", f, "", "", n)           \* ... of one operator level
Opt(x)      == Do("call", "opt", x, "", 0)        \* matches(x), kept
OptV(x)     == Do("call", "optv", x, "", 0)       \* ... with its lexeme
Push(x)     == Do("push", x, "", "", 0)
Pop(n)      == Do("pop", "", "", "", n)
Mark        == Push("mark")
Mk(kd, n)   == Do("make", kd, "", "", n)          \* node of the last n values
All         == -1                                 \* ... of those since the mark
Flag(f, on) == Do("flag", f, "", "", IF on THEN 1 ELSE 0)
Pos         == Do("pos", "", "", "", 0)           \* the cursor name of a for loop
Err         == Do("error", "", "", "", 0)
\* Items between commas up to a closing token; `trailing` says whether a last comma may stay.
List(item, close, trailing) == Do("call", "list", item, close, IF trailing THEN 1 ELSE 0)

at(p, d)  == IF p.i + d <= Len(p.t) THEN kind(p.t[p.i + d].lexeme) ELSE "eof"
top(p)    == p.st[Len(p.st)]
lexeme(p) == p.t[p.i].lexeme
Ahead(p, x, then, else) == IF at(p, 0) = x THEN then ELSE else

-----------------------------------------------------------------------------
\* Lists and optional tokens.
list(p, item, close, trailing) ==
  Ahead(p, close, <<>>, <<G(item), Do("call", "more", item, close, trailing)>>)
more(p, item, close, trailing) ==
  CASE at(p, 0) # "," -> <<>>
    [] at(p, 0) = "," /\ trailing = 1 /\ at(p, 1) = close -> <<T(",")>>
    [] OTHER -> <<T(","), G(item), Do("call", "more", item, close, trailing)>>
opt(p, x)  == Ahead(p, x, <<T(x), Push(x)>>, <<Push("none")>>)
optv(p, x) == Ahead(p, x, <<V(x)>>, <<Push("none")>>)

path == <<Mark, V("identifier"), G("path_more"), Mk("path", All)>>
path_more(p) == Ahead(p, "::", <<T("::"), V("identifier"), G("path_more")>>, <<>>)

-----------------------------------------------------------------------------
\* Types.
Splice == <<T("#"), T("("), G("expr"), T(")"), Mk("splice", 1)>>
ty(p) ==
  CASE at(p, 0) = "type" -> <<T("type"), Push("tyType")>>
    [] at(p, 0) = "#"    -> Splice
    [] at(p, 0) = "("    -> <<T("("), Mark, List("ty", ")", FALSE), T(")"), Mk("tyParen", All)>>
    [] at(p, 0) \in {"unsafe", "extern", "fn"} ->
         <<G("fn_ty_modifiers"), T("fn"), T("("), Mark, List("ty", ")", TRUE), T(")"),
           Mk("tys", All), G("return_ty"), Mk("tyFn", 4)>>
    [] at(p, 0) = "&"    -> <<T("&"), OptV("lifetime"), Opt("mut"), G("ty"), Mk("tyRef", 3)>>
    [] at(p, 0) = "["    -> <<T("["), T("]"), G("ty"), Mk("tySlice", 1)>>
    [] at(p, 0) = "*"    -> IF at(p, 1) = "mut" THEN <<T("*"), T("mut"), G("ty"), Mk("tyMutPtr", 1)>>
                            ELSE <<T("*"), T("const"), G("ty"), Mk("tyPtr", 1)>>
    [] OTHER             -> path \o <<G("ty_args")>>
fn_ty_modifiers(p) ==
  CASE at(p, 0) = "unsafe" -> <<T("unsafe"), Push("unsafe"), T("extern"), V("string")>>
    [] at(p, 0) = "extern" -> <<Push("none"), T("extern"), V("string")>>
    [] OTHER               -> <<Push("none"), Push("none")>>
ty_args(p) == Ahead(p, "<", <<G("generic_type_args"), Mk("tyGen", 2)>>, <<>>)
generic_type_args == <<T("<"), Mark, List("generic_arg", ">", FALSE), T(">"), Mk("args", All)>>
return_ty(p) == Ahead(p, "->", <<T("->"), G("ty")>>, <<Push("none")>>)
\* existential_ty: `?b` is allowed inside, and outside again only where it was before.
existential_ty(p) == IF p.ex THEN <<G("ty")>> ELSE <<Flag("ex", TRUE), G("ty"), Flag("ex", FALSE)>>
return_existential(p) == Ahead(p, "->", <<T("->"), G("existential_ty")>>, <<Push("none")>>)

Operators == {"+", "-", "*", "/", "%"}
starts_const_arg(p) ==
  \/ at(p, 0) = "integer"
  \/ at(p, 0) = "identifier" /\ at(p, 1) \in Operators
  \/ at(p, 0) = "(" /\ (\/ at(p, 1) \in {"integer", "("}
                        \/ at(p, 1) = "identifier" /\ at(p, 2) \in Operators)
generic_arg(p) ==
  CASE lexeme(p) = "Dyn" /\ at(p, 1) \notin {"::", "<"} -> <<T("identifier"), Push("Dyn")>>
    [] at(p, 0) = "?" /\ at(p, 1) = "identifier" ->
         IF p.ex THEN <<T("?"), V("identifier"), Mk("exists", 1)>> ELSE <<Err>>
    [] at(p, 0) = "identifier" /\ at(p, 1) = "..." -> <<V("identifier"), T("..."), Mk("expand", 1)>>
    [] starts_const_arg(p) -> <<Lvl("binary", 8), Mk("tyConst", 1)>>
    [] OTHER -> <<G("ty")>>

\* Generic parameters, bounds and where clauses.
generic_params(p) ==
  Ahead(p, "<", <<T("<"), Mark, List("generic_parameter", ">", TRUE), T(">"), Mk("generics", All)>>,
                <<Mark, Mk("generics", All)>>)
consume_generic_parameter(p) ==
  CASE at(p, 0) = "const" -> <<T("const"), V("identifier"), T(":"), G("ty"), G("pack")>>
    [] lexeme(p) = "dim" /\ at(p, 1) = "identifier" ->
         <<T("identifier"), V("identifier"), Mk("dimParam", 1)>>
    [] at(p, 0) = "lifetime" -> <<V("lifetime"), Mk("lifeParam", 1)>>
    [] OTHER -> <<Mark, V("identifier"), G("bounds"), Mk("typeParam", All)>>
pack(p)        == Ahead(p, "...", <<T("..."), Mk("packParam", 2)>>, <<Mk("constParam", 2)>>)
bounds(p)      == Ahead(p, ":", <<T(":"), G("consume_bound"), G("bounds_more")>>, <<>>)
bounds_more(p) == Ahead(p, "+", <<T("+"), G("consume_bound"), G("bounds_more")>>, <<>>)
consume_bound(p) == Ahead(p, "?", <<Err>>, <<G("ty")>>)
where_clause(p) ==
  Ahead(p, "where", <<T("where"), Mark, G("where_bound"), Do("call", "more", "where_bound", "", 0),
                      Mk("where", All)>>, <<Mark, Mk("where", All)>>)
where_bound == <<Mark, V("identifier"), T(":"), G("consume_bound"), G("bounds_more"), Mk("bound", All)>>

\* The where clause is folded into the bounds of the parameters it names.
MergeWhere(generics, where) ==
  [generics EXCEPT !.c = [j \in DOMAIN @ |->
     [@[j] EXCEPT !.c = @ \o FlattenSeq([w \in DOMAIN where.c |->
        IF where.c[w].c[1] = generics.c[j].c[1] THEN Tail(where.c[w].c) ELSE <<>>])]]]
Declared(generics, where) ==
  \A w \in DOMAIN where.c : \E j \in DOMAIN generics.c : generics.c[j].c[1] = where.c[w].c[1]

-----------------------------------------------------------------------------
\* Blocks and statements.  A block's last child may be its tail.
block == <<T("{"), Mark, G("statements"), T("}"), Mk("block", All)>>
starts_block_like(p) ==
  at(p, 0) \in {"if", "match", "while", "for", "loop", "unsafe", "comptime", "select", "{"}
statements(p) ==
  CASE at(p, 0) \in {"}", "eof"} -> <<>>
    [] at(p, 0) = ";"   -> <<T(";"), G("statements")>>
    [] at(p, 0) = "let" -> <<T("let"), Opt("mut"), G("pattern"), G("let_ty"), G("let_value"), T(";"),
                             Mk("let", 4), G("statements")>>
    [] starts_block_like(p) -> <<G("primary"), G("block_like_end"), G("statements")>>
    [] OTHER            -> <<G("expr"), G("statement_end"), G("statements")>>
let_ty(p)    == Ahead(p, ":", <<T(":"), G("ty")>>, <<Push("none")>>)
let_value(p) == Ahead(p, "=", <<T("="), G("expr")>>, <<Push("none")>>)
block_like_end(p) ==
  CASE at(p, 0) \in {".", "?"} -> <<G("postfix"), G("statement_end")>>
    [] at(p, 0) = ";" -> <<T(";"), Mk("expr", 1)>>
    [] at(p, 0) = "}" -> <<Mk("tail", 1)>>
    [] OTHER          -> <<Mk("expr", 1)>>
\* expect_semicolon reports a missing one.
statement_end(p) ==
  CASE at(p, 0) = ";" -> <<T(";"), Mk("expr", 1)>>
    [] at(p, 0) = "}" -> <<Mk("tail", 1)>>
    [] OTHER          -> <<Err>>

-----------------------------------------------------------------------------
\* Expressions: one level per precedence, the loosest first.
Comparisons == {"==", "!=", "<", "<=", ">", ">="}
Level == <<{"||"}, {"&&"}, Comparisons, {"|"}, {"^"}, {"&"}, {"<", ">"}, {"+", "-"}, {"*", "/", "%"}>>

assignment == <<Lvl("binary", 1), G("assignment_rest")>>
assignment_rest(p) == Ahead(p, "=", <<T("="), G("expr"), Mk("=", 2)>>, <<>>)
\* logical_or down to cast, and left_associative.
binary(n) == IF n = 10 THEN <<G("unary"), G("cast_rest")>> ELSE <<Lvl("binary", n + 1), Lvl("binary_rest", n)>>
shift_operator(p) == at(p, 0) = at(p, 1) /\ p.t[p.i].touches
Shifts == [o \in {"<", ">"} |-> IF o = "<" THEN "<<" ELSE ">>"]

\* Faulty: operators of one level associate to the right.
binary_rest_right(p, n) ==
  LET o == at(p, 0)
  IN  CASE o \notin Level[n] -> <<>>
        [] n = 7 -> IF shift_operator(p) THEN <<T(o), T(o), Lvl("binary", 7), Mk(Shifts[o], 2)>> ELSE <<>>
        [] OTHER -> <<T(o), Lvl("binary", IF n = 3 THEN 4 ELSE n), Mk(o, 2)>>
\* Comparison takes one operator only; `<<` is two `<` that touch.
binary_rest(p, n) ==
  LET o == at(p, 0)
  IN  CASE o \notin Level[n] -> <<>>
        [] o \in Level[n] /\ n = 3 -> <<T(o), Lvl("binary", 4), Mk(o, 2)>>
        [] o \in Level[n] /\ n = 7 ->
             IF shift_operator(p)
             THEN <<T(o), T(o), Lvl("binary", 8), Mk(Shifts[o], 2), Lvl("binary_rest", 7)>> ELSE <<>>
        [] OTHER -> <<T(o), Lvl("binary", n + 1), Mk(o, 2), Lvl("binary_rest", n)>>
cast_rest(p) == Ahead(p, "as", <<T("as"), G("ty"), Mk("as", 2), G("cast_rest")>>, <<>>)

Prefix == ("!" :> "not") @@ ("~" :> "bitnot") @@ ("-" :> "neg") @@ ("*" :> "deref")
unary(p) ==
  CASE at(p, 0) = "&"     -> <<T("&"), Opt("mut"), G("unary"), Mk("borrow", 2)>>
    [] at(p, 0) \in DOMAIN Prefix -> <<T(at(p, 0)), G("unary"), Mk(Prefix[at(p, 0)], 1)>>
    [] at(p, 0) = "spawn" -> <<T("spawn"), G(IF at(p, 1) = "{" THEN "block" ELSE "unary"), Mk("spawn", 1)>>
    [] OTHER              -> <<G("primary"), G("postfix")>>

argument_list == <<Mark, List("argument", ")", FALSE), T(")"), Mk("args", All)>>
argument(p) == IF at(p, 0) = "identifier" /\ at(p, 1) = ":"
               THEN <<T("identifier"), T(":"), G("expr")>> ELSE <<G("expr")>>
postfix(p) ==
  CASE at(p, 0) = "(" -> <<T("("), Push("none"), G("argument_list"), Mk("call", 3), G("postfix")>>
    [] at(p, 0) = "." /\ at(p, 1) = "#" ->
         <<T("."), T("#"), T("("), G("expr"), T(")"), Mk("splice_field", 2), G("postfix")>>
    [] at(p, 0) = "." /\ at(p, 1) # "#" -> <<T("."), V("identifier"), G("method_or_field"), G("postfix")>>
    [] at(p, 0) = "?" -> <<T("?"), Mk("try", 1), G("postfix")>>
    [] at(p, 0) = "[" -> <<T("["), Mark, G("expr"), Do("call", "more", "expr", "", 0), T("]"),
                           Mk("args", All), Mk("index", 2), G("postfix")>>
    [] OTHER          -> <<>>
method_or_field(p) == Ahead(p, "(", <<T("("), G("argument_list"), Mk("method", 3)>>, <<Mk("field", 2)>>)

\* The brackets opened at position j close at the token before this one.
RECURSIVE after_angles(_, _, _)
after_angles(p, j, depth) ==
  LET x == at(p, j)
  IN  CASE x = "eof" -> "eof"
        [] x = "<"   -> after_angles(p, j + 1, depth + 1)
        [] x = ">"   -> IF depth = 1 THEN at(p, j + 1) ELSE after_angles(p, j + 1, depth - 1)
        [] OTHER     -> after_angles(p, j + 1, depth)
\* Whether `<` at offset j opens generic arguments rather than a comparison.
starts_generic_type_application(p, j) ==
  at(p, j) = "<" /\ after_angles(p, j, 0) \in {"{", "::", "("}

\* A path in an expression: further segments only if something still follows them.
expr_type_path(p) ==
  CASE starts_generic_type_application(p, 0) -> <<Mk("path", All), G("generic_type_args"), Mk("tyGen", 2)>>
    [] at(p, 0) = "::" /\ at(p, 1) = "identifier"
         /\ (at(p, 2) = "::" \/ starts_generic_type_application(p, 2)) ->
         <<T("::"), V("identifier"), G("expr_type_path")>>
    [] OTHER -> <<Mk("path", All)>>
after_path(p) ==
  CASE p.sl /\ at(p, 0) = "{" -> <<G("struct_literal")>>
    [] at(p, 0) = "::"        -> <<T("::"), V("identifier"), G("associated")>>
    [] top(p).k = "tyGen" /\ Len(top(p).c[1].c) = 1 /\ at(p, 0) = "(" ->
         <<T("("), G("argument_list"), Mk("genericCall", 2)>>
    [] top(p).k = "path" /\ Len(top(p).c) = 1 /\ ~(p.sl /\ at(p, 0) = "{") /\ at(p, 0) # "::" ->
         <<Mk("ident", 1)>>
    [] OTHER -> <<Err>>
associated(p) ==
  CASE p.sl /\ at(p, 0) = "{" -> <<Mk("qualified", 2), G("struct_literal")>>
    [] at(p, 0) = "("         -> <<T("("), G("argument_list"), Mk("associated", 3)>>
    [] OTHER                  -> <<Mark, Mk("noargs", All), Mk("associated", 3)>>
struct_literal == <<T("{"), Mark, List("field_value", "}", FALSE), T("}"), Mk("fields", All),
                    Mk("literal", 2)>>
field_value == <<V("identifier"), T(":"), G("expr"), Mk("field_value", 2)>>

\* expr_without_struct_literals.
condition(p) == IF p.sl THEN <<Flag("sl", FALSE), G("expr"), Flag("sl", TRUE)>> ELSE <<G("expr")>>

keyword_expr(p) ==
  CASE at(p, 0) = "if"     -> <<G("if_expr")>>
    [] at(p, 0) = "while"  -> <<T("while"), G("while_expr")>>
    [] at(p, 0) = "for"    -> <<Pos, T("for"), V("identifier"), T("in"), G("condition"), G("for_expr")>>
    [] at(p, 0) = "loop"   -> <<T("loop"), G("block"), Mk("loop", 1)>>
    [] at(p, 0) = "unsafe" -> <<T("unsafe"), G("block"), Mk("unsafe", 1)>>
    [] at(p, 0) = "comptime" -> <<T("comptime"), G("block"), Mk("comptime", 1)>>
    [] at(p, 0) = "quote"  -> <<T("quote"), T("{"), G(IF at(p, 2) = "methods" THEN "methods_block" ELSE "expr"),
                                T("}"), Mk("quote", 1)>>
    [] at(p, 0) = "#"      -> Splice
    [] at(p, 0) = "return" -> IF at(p, 1) \in {"}", ";"} THEN <<T("return"), Push("none"), Mk("return", 1)>>
                              ELSE <<T("return"), G("expr"), Mk("return", 1)>>
    [] at(p, 0) = "("      -> <<T("("), Mark, List("expr", ")", TRUE), T(")"), Mk("paren", All)>>
    [] at(p, 0) = "{"      -> <<G("block")>>
    [] OTHER               -> <<Err>>
primary(p) ==
  CASE at(p, 0) \in {"|", "||"} -> <<G("closure")>>
    [] at(p, 0) \in {"integer", "float", "string", "char"} -> <<V(at(p, 0))>>
    [] at(p, 0) \in {"true", "false", "break", "continue"} -> <<T(at(p, 0)), Push(at(p, 0))>>
    [] at(p, 0) = "match"  -> <<T("match"), G("condition"), T("{"), Mark, G("match_arms"), T("}"),
                                Mk("arms", All), Mk("match", 2)>>
    [] at(p, 0) = "select" -> <<T("select"), T("{"), Mark, G("select_arms"), T("}"), Mk("select", All)>>
    [] at(p, 0) = "yield"  -> <<T("yield"), G("expr"), Mk("yield", 1)>>
    [] at(p, 0) = "identifier" -> <<Mark, V("identifier"), G("expr_type_path"), G("after_path")>>
    [] OTHER               -> keyword_expr(p)

BlockLike == {"block", "unsafe", "if", "loop", "while", "match", "select", "comptime"}
separator(p, body) ==
  CASE at(p, 0) = "," -> <<T(",")>>
    [] at(p, 0) = "}" \/ body.k \in BlockLike -> <<>>
    [] OTHER -> <<Err>>
match_arms(p) ==
  Ahead(p, "}", <<>>, <<G("pattern"), G("guard"), T("=>"), G("expr"), Mk("arm", 3), G("match_arm_end"),
                        G("match_arms")>>)
match_arm_end(p)  == separator(p, top(p).c[3])
select_arm_end(p) == separator(p, top(p))
guard(p) == Ahead(p, "if", <<T("if"), G("condition")>>, <<Push("none")>>)
select_arms(p) ==
  CASE at(p, 0) = "}" -> <<>>
    [] lexeme(p) = "default" /\ at(p, 1) = "=>" ->
         <<T("identifier"), T("=>"), G("expr"), G("select_arm_end"), Mk("tail", 1), Mk("block", 1),
           Mk("default", 1), G("select_arms")>>
    [] OTHER -> <<G("select_operation"), T("=>"), G("expr"), G("select_arm_end"), Mk("tail", 1),
                  Mk("block", 1), Mk("select_arm", 2), G("select_arms")>>
select_operation(p) ==
  IF at(p, 0) = "identifier" /\ at(p, 1) = "=" THEN <<V("identifier"), T("="), G("condition"), Mk("=", 2)>>
  ELSE <<G("condition")>>

closure(p) ==
  Ahead(p, "||", <<T("||"), Mark, Mk("params", All), G("closure_body"), Mk("closure", 2)>>,
                 <<T("|"), Mark, List("closure_param", "|", TRUE), T("|"), Mk("params", All),
                   G("closure_body"), Mk("closure", 2)>>)
closure_param == <<G("pattern_atom"), G("let_ty"), Mk("cparam", 2)>>
closure_body(p) == Ahead(p, "{", <<G("block")>>, <<G("expr")>>)

if_expr(p) ==
  IF at(p, 1) = "let"
  THEN <<T("if"), T("let"), G("pattern"), T("="), G("condition"), G("block"), G("else_branch"), Mk("if_let", 4)>>
  ELSE <<T("if"), G("condition"), G("block"), G("else_branch"), Mk("if", 3)>>
else_branch(p) ==
  CASE at(p, 0) # "else" -> <<Push("none")>>
    [] at(p, 0) = "else" /\ at(p, 1) = "if" -> <<T("else"), G("if_expr")>>
    [] OTHER -> <<T("else"), G("block")>>
while_expr(p) ==
  Ahead(p, "let", <<T("let"), G("pattern"), T("="), G("condition"), G("block"), Mk("while_let", 3)>>,
                  <<G("condition"), G("block"), Mk("while", 2)>>)
for_expr(p) ==
  CASE at(p, 0) = ".."  -> <<T(".."), G("condition"), G("block"), Mk("for_range", 5)>>
    [] at(p, 0) = "..=" -> <<T("..="), G("condition"), G("block"), Mk("for_range_inclusive", 5)>>
    [] OTHER            -> <<G("block"), Mk("for_iter", 4)>>

-----------------------------------------------------------------------------
\* Patterns.
pattern == <<Mark, G("binding_pattern"), G("pattern_more"), Mk("or", All)>>
pattern_more(p) == Ahead(p, "|", <<T("|"), G("binding_pattern"), G("pattern_more")>>, <<>>)
binding_pattern(p) ==
  IF at(p, 0) = "identifier" /\ at(p, 1) = "@"
  THEN <<V("identifier"), T("@"), G("binding_pattern"), Mk("@", 2)>>
  ELSE <<G("pattern_atom"), G("range_pattern")>>
range_pattern(p) ==
  IF at(p, 0) \in {"..", "..="} THEN <<T(at(p, 0)), G("pattern_atom"), Mk(at(p, 0), 2)>> ELSE <<>>
pattern_atom(p) ==
  CASE at(p, 0) = "&" -> <<T("&"), Opt("mut"), G("pattern_atom"), Mk("patRef", 2)>>
    [] at(p, 0) \in {"_", "true", "false"}          -> <<T(at(p, 0)), Push(at(p, 0))>>
    [] at(p, 0) \in {"integer", "string", "char"}   -> <<V(at(p, 0))>>
    [] at(p, 0) = "identifier" -> path \o <<G("pattern_fields")>>
    [] at(p, 0) = "(" -> <<T("("), Mark, List("pattern", ")", FALSE), T(")"), Mk("patTuple", All)>>
    [] OTHER -> <<Err>>
pattern_fields(p) ==
  CASE at(p, 0) = "(" -> <<T("("), Mark, List("pattern", ")", FALSE), T(")"), Mk("pats", All), Mk("patEnum", 2)>>
    [] at(p, 0) = "{" -> <<T("{"), Mark, G("struct_pattern"), T("}"), Mk("pats", All), Mk("patStruct", 2)>>
    [] OTHER          -> <<Mk("patPath", 1)>>
struct_pattern(p) ==
  CASE at(p, 0) = "}"  -> <<>>
    [] at(p, 0) = ".." -> <<T(".."), Push("rest")>>
    [] OTHER           -> <<V("identifier"), G("field_pattern"), Mk("field_pat", 2), G("struct_pattern_more")>>
field_pattern(p) == Ahead(p, ":", <<T(":"), G("pattern")>>, <<Do("again", "", "", "", 0)>>)
struct_pattern_more(p) == Ahead(p, ",", <<T(","), G("struct_pattern")>>, <<>>)

-----------------------------------------------------------------------------
\* Items.  An item's attributes and its `pub` are the two values below it.
Modifiers == {"comptime", "unsafe", "iter", "extern"}
parse_module == <<Mark, G("module_decl"), G("items"), Mk("module", All)>>
module_decl(p) == Ahead(p, "module", <<T("module"), V("identifier"), T(";")>>, <<Push("none")>>)
items(p) == Ahead(p, "eof", <<>>, <<G("attributes"), Opt("pub"), G("item"), G("items")>>)
item(p) ==
  CASE at(p, 0) \in Modifiers \cup {"fn"} -> <<G("function_modifiers"), G("modified_item")>>
    [] at(p, 0) \in {"struct", "enum", "trait"} ->
         <<T(at(p, 0)), V("identifier"), G("generic_params"), G("where_clause"), T("{"), Mark,
           Do("call", "members", at(p, 0), "", 0), T("}"), Mk("members", All), Mk(at(p, 0), 6)>>
    [] at(p, 0) = "methods" -> <<Pop(2), G("methods_block")>>
    [] at(p, 0) = "use"     -> <<Pop(2), T("use"), G("module_path"), G("alias"), T(";"), Mk("use", 2)>>
    [] at(p, 0) = "const"   -> <<G("const_decl")>>
    [] OTHER                -> <<Err>>
modified_item(p) ==
  CASE at(p, 0) = "fn" -> <<T("fn"), G("function_decl")>>
    [] at(p, 0) # "fn" /\ top(p).c[4] # None ->
         <<T("{"), Mark, G("extern_fns"), T("}"), Mk("externs", All), Mk("extern", 4)>>
    [] OTHER -> <<Err>>
extern_fns(p) ==
  Ahead(p, "}", <<>>, <<G("attributes"), T("fn"), V("identifier"), G("generic_params"), T("("),
                        G("parameter_list"), G("return_ty"), T(";"), Mk("externFn", 5), G("extern_fns")>>)

attributes == <<Mark, G("attribute_more"), Mk("attrs", All)>>
attribute_more(p) == Ahead(p, "#", <<G("parse_one_attribute"), G("attribute_more")>>, <<>>)
parse_one_attribute == <<T("#"), T("["), Mark, V("identifier"), G("attribute_args"), T("]"), Mk("attr", All)>>
attribute_args(p) == Ahead(p, "(", <<T("("), List("attribute_arg", ")", TRUE), T(")")>>, <<>>)
attribute_arg(p) ==
  CASE at(p, 0) = "#" -> <<G("parse_one_attribute")>>
    [] at(p, 0) = "identifier" /\ at(p, 1) = "=" ->
         <<V("identifier"), T("="), G("attribute_value"), Mk("assign", 2)>>
    [] OTHER -> <<G("attribute_value")>>
attribute_value(p) == Ahead(p, "identifier", path, <<G("literal_token")>>)
literal_token(p) ==
  CASE at(p, 0) \in {"integer", "float", "string"} -> <<V(at(p, 0))>>
    [] at(p, 0) \in {"true", "false"} -> <<T(at(p, 0)), Push(at(p, 0))>>
    [] OTHER -> <<Err>>

\* comptime and iter exclude each other.
function_modifiers(p) ==
  Ahead(p, "comptime", <<Opt("comptime"), Push("none"), Opt("unsafe"), G("abi"), Mk("mods", 4)>>,
                       <<Push("none"), Opt("iter"), Opt("unsafe"), G("abi"), Mk("mods", 4)>>)
abi(p) == Ahead(p, "extern", <<T("extern"), V("string")>>, <<Push("none")>>)
function_decl ==
  <<G("fn_name"), G("generic_params"), T("("), G("parameter_list"), G("return_existential"),
    G("where_clause"), G("block"), Mk("fn", 9)>>
fn_name(p) == Ahead(p, "#", Splice, <<V("identifier")>>)
parameter_list == <<Mark, List("parameter", ")", TRUE), T(")"), Mk("params", All)>>
SelfTy(mutable) == Node("tyRef", <<None, mutable, Node("path", <<Ident("Self")>>)>>)
parameter(p) ==
  CASE at(p, 0) = "&" -> <<T("&"), Opt("mut"), V("identifier"), Mk("receiver", 2)>>
    [] lexeme(p) = "self" -> <<V("identifier"), Mk("receiver", 1)>>
    [] OTHER -> <<V("identifier"), T(":"), G("ty"), Mk("param", 2)>>

\* struct_decl, enum_decl, methods_block, trait_decl: what one member may be.
members(p, of) ==
  CASE at(p, 0) \in {"}", "eof"} -> <<>>
    [] at(p, 0) \notin {"}", "eof"} /\ of = "trait" -> <<G("trait_member"), Do("call", "members", of, "", 0)>>
    [] OTHER -> <<G("attributes"), Opt("pub"), Do("call", "member", of, "", 0),
                  Do("call", "members", of, "", 0)>>
member(p, of) ==
  CASE at(p, 0) = "const" -> <<G("const_decl"), Do("call", "maybe_comma", of, "", 0)>>
    [] at(p, 0) \in Modifiers \cup {"fn"} ->
         <<G("function_modifiers"), T("fn"), G("function_decl"), Do("call", "maybe_comma", of, "", 0)>>
    [] at(p, 0) = "type" /\ of = "struct" -> <<Pop(2), T("type"), G("assoc_type_decl")>>
    [] of = "struct" /\ at(p, 0) = "identifier" -> <<G("field_decl"), Mk("field_decl", 4), G("member_end")>>
    [] of = "enum" /\ at(p, 0) = "identifier" /\ top(p) = None ->
         <<Pop(1), V("identifier"), G("variant_fields"), Mk("variant", 3), G("member_end")>>
    [] OTHER -> <<Err>>
maybe_comma(p, of) == IF of # "methods" /\ at(p, 0) = "," THEN <<T(",")>> ELSE <<>>
member_end(p) ==
  CASE at(p, 0) = "," -> <<T(",")>>
    [] at(p, 0) = "}" -> <<>>
    [] OTHER          -> <<Err>>
field_decl == <<V("identifier"), T(":"), G("existential_ty")>>
inner_field == <<G("field_decl"), Mk("inner_field", 2)>>
variant_fields(p) ==
  CASE at(p, 0) = "(" -> <<T("("), Mark, List("ty", ")", FALSE), T(")"), Mk("tuple", All)>>
    [] at(p, 0) = "{" -> <<T("{"), Mark, List("inner_field", "}", FALSE), T("}"), Mk("struct_fields", All)>>
    [] OTHER          -> <<Push("none")>>
trait_member(p) ==
  CASE at(p, 0) = "fn" -> <<T("fn"), V("identifier"), G("generic_params"), T("("), G("parameter_list"),
                            G("return_existential"), G("where_clause"), G("trait_body"), Mk("sig", 6)>>
    [] at(p, 0) = "type"  -> <<T("type"), G("assoc_type_decl")>>
    [] at(p, 0) = "const" -> <<Push("none"), Push("none"), G("const_decl")>>
    [] OTHER              -> <<Err>>
trait_body(p) == Ahead(p, ";", <<T(";"), Push("none")>>, <<G("block")>>)
assoc_type_decl == <<V("identifier"), G("assoc_default"), T(";"), Mk("assoc", 2)>>
assoc_default(p) == Ahead(p, "=", <<T("="), G("ty")>>, <<Push("none")>>)
methods_block ==
  <<T("methods"), G("generic_params"), G("ty"), G("where_clause"), T("{"), Mark,
    Do("call", "members", "methods", "", 0), T("}"), Mk("members", All), Mk("methods", 4)>>
const_decl == <<T("const"), V("identifier"), T(":"), G("ty"), T("="), G("expr"), T(";"), Mk("const", 5)>>

\* `a::b` or `host.name/a/b`.
module_path == <<Mark, V("identifier"), G("module_path_more")>>
module_path_more(p) ==
  IF at(p, 0) \in {".", "/"}
  THEN <<Do("call", "segments", ".", "", 0), T("/"), V("identifier"), Do("call", "segments", "/", "", 0),
         Mk("domain", All)>>
  ELSE <<G("path_more"), Mk("path", All)>>
segments(p, dot) == Ahead(p, dot, <<T(dot), V("identifier"), Do("call", "segments", dot, "", 0)>>, <<>>)
alias(p) == Ahead(p, "as", <<T("as"), V("identifier")>>, <<Push("none")>>)

-----------------------------------------------------------------------------
\* The loops that are written as other loops.
Block(stmts)       == Node("block", stmts)
Let(mutable, x, e) == Node("let", <<mutable, x, None, e>>)
Arm(pat, body)     == Node("arm", <<pat, None, body>>)
Break              == Leaf("break", "")
Match(e, arms)     == Node("match", <<e, Node("arms", arms)>>)
BinaryOps          == UNION {Level[j] : j \in DOMAIN Level} \cup {"<<", ">>"}

if_let_expr(pat, e, then, else) ==
  Match(e, <<Arm(pat, then), Arm(Wild, IF else = None THEN Block(<<>>) ELSE else)>>)
while_let_expr(pat, e, body) ==
  Node("loop", <<Block(<<Stmt(Match(e, <<Arm(pat, body), Arm(Wild, Break)>>))>>)>>)
for_iter_expr(cursor, x, e, body) ==
  LET next   == Node("method", <<cursor, Ident("next"), Node("args", <<>>)>>)
      Of(v, pats) == Node("patEnum", <<Node("path", <<Ident("Option"), Ident(v)>>), Node("pats", pats)>>)
      step   == Match(next, <<Arm(Of("Some", <<x>>), body), Arm(Of("None", <<>>), Break)>>)
  IN  Block(<<Let(Leaf("mut", ""), cursor, e), Stmt(Node("loop", <<Block(<<Stmt(step)>>)>>))>>)

\* rewrite_continue_in_expr: the children of a node it goes into.
Visited(k) ==
  CASE k \in {"block", "args", "arms", "tuple", "index", "fields"} \cup BinaryOps -> 1..9
    [] k = "if" -> {2, 3}
    [] k \in {"match", "=", "borrow", "field_value", "literal"} -> {2}
    [] k \in {"arm", "call", "method", "associated"} -> {3}
    [] k = "let" -> {4}
    [] k \in {"expr", "tail", "return", "yield", "unsafe", "try", "as", "field", "not", "neg",
              "bitnot", "deref"} -> {1}
    [] OTHER -> {}
\* Faulty: a `continue` goes straight to the next test of the condition.
rewrite_continue_not(node, increment) == node
RECURSIVE rewrite_continue(_, _)
rewrite_continue(node, increment) ==
  IF node.k = "continue" THEN Block(<<Stmt(increment), Stmt(node)>>)
  ELSE [node EXCEPT !.c = [j \in DOMAIN @ |->
          IF j \in Visited(node.k) THEN rewrite_continue(@[j], increment) ELSE @[j]]]
for_increment_expr(cursor) == Node("=", <<cursor, Node("+", <<cursor, Leaf("integer", "1")>>)>>)
append_statement(body, s) ==
  Append([j \in DOMAIN body |-> IF body[j].k = "tail" THEN Stmt(body[j].c[1]) ELSE body[j]], s)
\* The end of the range is evaluated before every round.
for_range_expr(cursor, x, from, op, to, body) ==
  LET round == <<Let(None, x, cursor)>> \o append_statement(body.c, Stmt(for_increment_expr(cursor)))
      test  == Node("if", <<Node(op, <<cursor, to>>), Block(round), Break>>)
  IN  Block(<<Let(Leaf("mut", ""), cursor, from), Stmt(Node("loop", <<Block(<<Stmt(test)>>)>>))>>)

-----------------------------------------------------------------------------
\* The node a function returns for the values it parsed.
Bad == Leaf("error", "")
Only(k, ms) == Node("members", SelectSeq(ms.c, LAMBDA m : m.k = k))
Decl(kd, generics, where, c) == IF Declared(generics, where) THEN Node(kd, c) ELSE Bad
PackLast(c) == \A j \in DOMAIN c : c[j].k = "packParam" => j = Len(c)
Build(kd, c) ==
  CASE kd \in {"paren", "tyParen", "or"} ->
         IF Len(c) = 1 THEN c[1]
         ELSE Node(CASE kd = "paren" -> "tuple" [] kd = "tyParen" -> "tyTuple" [] OTHER -> "or", c)
    [] kd = "ident" -> c[1].c[1]
    [] kd = "patPath" -> IF Len(c[1].c) = 1 THEN c[1].c[1] ELSE Node("patEnum", <<c[1], Node("pats", <<>>)>>)
    [] kd = "qualified" -> IF c[1].k = "path" THEN Node("path", Append(c[1].c, c[2])) ELSE Bad
    [] kd = "genericCall"  -> Node("call", <<c[1].c[1].c[1], c[1].c[2], c[2]>>)
    [] kd = "splice_field" -> Node("call", <<Ident("splice_field"), None, Node("args", c)>>)
    [] kd = "receiver" ->
         IF c[Len(c)].n # "self" THEN Bad
         ELSE Node("param", <<c[Len(c)], IF Len(c) = 1 THEN Node("path", <<Ident("Self")>>) ELSE SelfTy(c[1])>>)
    [] kd = "generics" -> IF PackLast(c) THEN Node(kd, c) ELSE Bad
    [] kd = "fn"       -> Decl(kd, c[5], c[8], <<c[1], c[2], c[3], c[4], MergeWhere(c[5], c[8]), c[6], c[7], c[9]>>)
    [] kd = "sig"      -> Decl(kd, c[2], c[5], <<c[1], MergeWhere(c[2], c[5]), c[3], c[4], c[6]>>)
    [] kd \in {"struct", "enum", "trait"} ->
         Decl(kd, c[4], c[5], <<c[1], c[2], c[3], MergeWhere(c[4], c[5]), Only("field_decl", c[6]),
              Only("variant", c[6]), Only("fn", c[6]), Only("sig", c[6]), Only("const", c[6]), Only("assoc", c[6])>>)
    [] kd = "methods" -> Decl(kd, c[1], c[3], <<MergeWhere(c[1], c[3]), c[2], Only("fn", c[4]), Only("const", c[4])>>)
    [] kd = "const"   -> Node(kd, Tail(c))
    [] kd = "extern"  -> Node(kd, <<c[1], c[3].c[4], c[4]>>)
    [] kd = "select"  ->
         LET defaults == SelectSeq(c, LAMBDA a : a.k = "default")
         IN  Node(kd, SelectSeq(c, LAMBDA a : a.k # "default")
                      \o (IF defaults = <<>> THEN <<>> ELSE <<defaults[Len(defaults)]>>))
    [] kd = "if_let"    -> if_let_expr(c[1], c[2], c[3], c[4])
    [] kd = "while_let" -> while_let_expr(c[1], c[2], c[3])
    [] kd = "for_iter"  -> for_iter_expr(c[1], c[2], c[3], c[4])
    [] kd \in {"for_range", "for_range_inclusive"} ->
         for_range_expr(c[1], c[2], c[3], IF kd = "for_range" THEN "<" ELSE "<=", c[4],
                        rewrite_continue(c[5], for_increment_expr(c[1])))
    [] OTHER -> Node(kd, c)

-----------------------------------------------------------------------------
\* The parsing function of a name.
production(p, f, x, y, n) ==
  CASE f = "expr" -> assignment [] f = "path_more" -> path_more(p) [] f = "ty" -> ty(p)
    [] f = "fn_ty_modifiers" -> fn_ty_modifiers(p) [] f = "ty_args" -> ty_args(p)
    [] f = "generic_type_args" -> generic_type_args [] f = "return_ty" -> return_ty(p)
    [] f = "existential_ty" -> existential_ty(p)
    [] f = "return_existential" -> return_existential(p) [] f = "generic_arg" -> generic_arg(p)
    [] f = "generic_params" -> generic_params(p)
    [] f = "generic_parameter" -> consume_generic_parameter(p)
    [] f = "bounds_more" -> bounds_more(p) [] f = "consume_bound" -> consume_bound(p)
    [] f = "where_clause" -> where_clause(p) [] f = "where_bound" -> where_bound
    [] f = "block" -> block [] f = "statements" -> statements(p) [] f = "let_value" -> let_value(p)
    [] f = "block_like_end" -> block_like_end(p) [] f = "statement_end" -> statement_end(p)
    [] f = "assignment_rest" -> assignment_rest(p) [] f = "cast_rest" -> cast_rest(p)
    [] f = "unary" -> unary(p) [] f = "argument_list" -> argument_list
    [] f = "argument" -> argument(p) [] f = "postfix" -> postfix(p)
    [] f = "method_or_field" -> method_or_field(p) [] f = "expr_type_path" -> expr_type_path(p)
    [] f = "after_path" -> after_path(p) [] f = "associated" -> associated(p)
    [] f = "struct_literal" -> struct_literal [] f = "field_value" -> field_value
    [] f = "condition" -> condition(p) [] f = "primary" -> primary(p)
    [] f = "match_arms" -> match_arms(p) [] f = "select_arm_end" -> select_arm_end(p)
    [] f = "guard" -> guard(p) [] f = "select_arms" -> select_arms(p)
    [] f = "select_operation" -> select_operation(p) [] f = "closure" -> closure(p)
    [] f = "closure_param" -> closure_param [] f = "closure_body" -> closure_body(p)
    [] f = "if_expr" -> if_expr(p) [] f = "else_branch" -> else_branch(p)
    [] f = "while_expr" -> while_expr(p) [] f = "for_expr" -> for_expr(p)
    [] f = "pattern" -> pattern [] f = "pattern_more" -> pattern_more(p)
    [] f = "binding_pattern" -> binding_pattern(p) [] f = "range_pattern" -> range_pattern(p)
    [] f = "pattern_atom" -> pattern_atom(p) [] f = "pattern_fields" -> pattern_fields(p)
    [] f = "struct_pattern" -> struct_pattern(p) [] f = "field_pattern" -> field_pattern(p)
    [] f = "struct_pattern_more" -> struct_pattern_more(p) [] f = "parse_module" -> parse_module
    [] f = "module_decl" -> module_decl(p) [] f = "items" -> items(p) [] f = "item" -> item(p)
    [] f = "modified_item" -> modified_item(p) [] f = "extern_fns" -> extern_fns(p)
    [] f = "attributes" -> attributes [] f = "attribute_more" -> attribute_more(p)
    [] f = "parse_one_attribute" -> parse_one_attribute
    [] f = "attribute_args" -> attribute_args(p) [] f = "attribute_arg" -> attribute_arg(p)
    [] f = "attribute_value" -> attribute_value(p) [] f = "literal_token" -> literal_token(p)
    [] f = "function_modifiers" -> function_modifiers(p) [] f = "abi" -> abi(p)
    [] f = "function_decl" -> function_decl [] f = "fn_name" -> fn_name(p)
    [] f = "parameter_list" -> parameter_list [] f = "parameter" -> parameter(p)
    [] f = "member_end" -> member_end(p) [] f = "field_decl" -> field_decl
    [] f = "inner_field" -> inner_field [] f = "variant_fields" -> variant_fields(p)
    [] f = "trait_member" -> trait_member(p) [] f = "trait_body" -> trait_body(p)
    [] f = "assoc_type_decl" -> assoc_type_decl [] f = "assoc_default" -> assoc_default(p)
    [] f = "methods_block" -> methods_block [] f = "const_decl" -> const_decl
    [] f = "module_path" -> module_path [] f = "module_path_more" -> module_path_more(p)
    [] f = "alias" -> alias(p) [] f = "list" -> list(p, x, y, n) [] f = "more" -> more(p, x, y, n)
    [] f = "opt" -> opt(p, x) [] f = "optv" -> optv(p, x) [] f = "binary" -> binary(n)
    [] f = "binary_rest" -> binary_rest(p, n) [] f = "members" -> members(p, x)
    [] f = "member" -> member(p, x) [] f = "maybe_comma" -> maybe_comma(p, x)
    [] f = "segments" -> segments(p, x) [] f = "pack" -> pack(p) [] f = "bounds" -> bounds(p)
    [] f = "let_ty" -> let_ty(p) [] f = "match_arm_end" -> match_arm_end(p)

\* The values since the last mark.
Marked(st) == SelectInSeq(Reverse(st), LAMBDA v : v.k = "mark") - 1
fail(p)    == [p EXCEPT !.ok = FALSE, !.todo = <<>>]
push(p, v) == IF v = Bad THEN fail(p) ELSE [p EXCEPT !.st = Append(@, v)]
make(p, kd, n) ==
  LET last == Len(p.st)
      m    == IF n = All THEN Marked(p.st) ELSE n
      kept == last - m - (IF n = All THEN 1 ELSE 0)
  IN  push([p EXCEPT !.st = SubSeq(@, 1, kept)], Build(kd, SubSeq(p.st, last - m + 1, last)))

\* One thing the parser does.
step(p, do) ==
  CASE do.op \in {"consume", "value"} /\ at(p, 0) # do.a -> fail(p)
    [] do.op = "consume" /\ at(p, 0) = do.a -> [p EXCEPT !.i = @ + 1]
    [] do.op = "value" /\ at(p, 0) = do.a   -> push([p EXCEPT !.i = @ + 1], Leaf(do.a, lexeme(p)))
    [] do.op = "call"  -> [p EXCEPT !.todo = production(p, do.a, do.b, do.d, do.n) \o @]
    [] do.op = "push"  -> push(p, Leaf(do.a, ""))
    [] do.op = "pop"   -> [p EXCEPT !.st = SubSeq(@, 1, Len(@) - do.n)]
    [] do.op = "make"  -> make(p, do.a, do.n)
    [] do.op = "flag"  -> IF do.a = "sl" THEN [p EXCEPT !.sl = do.n = 1] ELSE [p EXCEPT !.ex = do.n = 1]
    [] do.op = "pos"   -> push(p, Ident("$" \o ToString(p.i)))
    [] do.op = "again" -> push(p, top(p))
    [] do.op = "error" -> fail(p)
\* At most 2^n of them.
RECURSIVE run(_, _)
run(p, n) == CASE p.todo = <<>> -> p
               [] p.todo # <<>> /\ n = 0 -> step([p EXCEPT !.todo = Tail(@)], Head(p.todo))
               [] OTHER -> run(run(p, n - 1), n - 1)

\* parse_module: the module of a text, or Bad with at least one diagnostic.
Start(text) == [t |-> lex(text), i |-> 2, st |-> <<>>, todo |-> parse_module, sl |-> TRUE, ex |-> FALSE, ok |-> TRUE]
Result(p) == IF p.ok THEN top(p) ELSE Bad
parse(text) == Result(run(Start(text), 20))
=============================================================================
