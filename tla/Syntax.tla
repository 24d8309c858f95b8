------------------------------- MODULE Syntax -------------------------------
(***************************************************************************)
(* `paco fmt --write` on a source file, again and again, and what the      *)
(* programs it reads and writes mean.                                      *)
(*                                                                         *)
(* `file` is the file's text, `ast` what the parser makes of it, `first`   *)
(* what it made of the text the programmer wrote, `runs` the runs of fmt.  *)
(***************************************************************************)
EXTENDS Formatter

CONSTANTS Sources,    \* [text, ops, body]: a file, and how it was put together
          MaxRuns,    \* runs of `paco fmt`
          Rounds      \* bound on the rounds of a loop that is followed

VARIABLES source, file, ast, first, runs
vars == <<source, file, ast, first, runs>>

Init == /\ source \in Sources
        /\ file = source.text
        /\ ast = parse(file)
        /\ first = ast
        /\ runs = 0

\* format_file: a file with a syntax error is left as it is.
format_file ==
  /\ runs < MaxRuns
  /\ ast # Bad
  /\ file' = format_module(ast)
  /\ ast' = parse(file')
  /\ runs' = runs + 1
  /\ UNCHANGED <<source, first>>

Next == format_file
Spec == Init /\ [][Next]_vars

-----------------------------------------------------------------------------
\* The programs the formatter can write down.  What it leaves out or writes so that it
\* reads back as something else is excluded here, one line each.
Greedy   == {"closure", "return", "yield", "spawn"}
Operands == [k \in BinaryOps \cup {"=", "as", "not", "neg", "bitnot", "deref", "borrow", "call", "method",
                                   "field", "index", "try"} |->
               CASE k \in BinaryOps \cup {"="} -> {1, 2} [] k = "borrow" -> {2} [] OTHER -> {1}]
FirstOf(pat) == IF pat.k = "or" THEN pat.c[1] ELSE pat
Atom(pat)    == IF pat.k \in {"..", "..="} THEN pat.c[1] ELSE pat
Written(k, n, c) ==
  \* an operand is never parenthesised for running on to the right or for being a statement
  /\ k \in DOMAIN Operands => \A j \in Operands[k] : c[j].k \notin Greedy \cup BlockLike
  \* a comparison on the left of a comparison
  /\ k \in Comparisons => c[1].k \notin Comparisons
  \* `spawn` takes one operand only
  /\ k = "spawn" => expr_precedence(c[1]) >= 11
  \* `& &` is written `&&`
  /\ k = "borrow" /\ c[1] = None => ~ (c[2].k = "borrow")
  /\ k = "tyRef" /\ c[1] = None /\ c[2] = None => c[3].k # "tyRef"
  /\ k = "patRef" /\ c[1] = None => c[2].k # "patRef"
  \* the type of a cast takes a `<` that follows it
  /\ k \in {"<", "<<"} => c[1].k # "as"
  \* a function kept in a field is called like a method
  /\ k = "call" => c[1].k \notin {"field", "associated"}
  \* type arguments of a call, `f()` as a pattern, the cursor of a for loop
  /\ k = "call" => c[2] = None
  /\ k = "patEnum" => Len(c[1].c) > 1 \/ c[2].c # <<>>
  /\ k = "identifier" => n \in Names
  \* the comma between a block and the next arm
  /\ k = "arms" => \A j \in 2..Len(c) : c[j - 1].c[3].k = "block" => Atom(FirstOf(c[j].c[1])).k \notin {"patTuple", "patRef"}
  \* the arms of a select are wrapped in one more block
  /\ k # "select"
  \* attributes, `pub`, `comptime fn`, `iter unsafe`, the host of a path, bounds on constants
  /\ k = "attrs" => c = <<>>
  /\ k \in {"fn", "struct", "enum", "trait", "field_decl"} => c[2] = None
  /\ k = "const" => c[1] = None
  /\ k = "mods" => c[1] = None /\ (c[2] = None \/ c[3] = None)
  /\ k # "domain"
  /\ k \in {"constParam", "packParam", "dimParam"} => Len(c) = (IF k = "dimParam" THEN 1 ELSE 2)
  /\ k = "externFn" => c[3].c = <<>>
RECURSIVE Faithful(_)
Faithful(node) == Written(node.k, node.n, node.c) /\ \A j \in DOMAIN node.c : Faithful(node.c[j])

\* Formatting a file, any number of times, does not change the program it holds.
RoundTrip == first # Bad /\ Faithful(first) => ast = first

-----------------------------------------------------------------------------
\* The tree of an operator chain a o1 b o2 c ...: the loosest operator is applied last, and
\* of several of one precedence the last one.
Loosest(ops) == CHOOSE j \in DOMAIN ops :
  /\ \A h \in DOMAIN ops : expr_precedence(Leaf(ops[j], "")) <= expr_precedence(Leaf(ops[h], ""))
  /\ \A h \in j + 1..Len(ops) : expr_precedence(Leaf(ops[j], "")) < expr_precedence(Leaf(ops[h], ""))
RECURSIVE Tree(_, _)
Tree(names, ops) ==
  IF ops = <<>> THEN Ident(names[1])
  ELSE Node(ops[Loosest(ops)], <<Tree(SubSeq(names, 1, Loosest(ops)), SubSeq(ops, 1, Loosest(ops) - 1)),
                                 Tree(SubSeq(names, Loosest(ops) + 1, Len(names)),
                                      SubSeq(ops, Loosest(ops) + 1, Len(ops)))>>)
RECURSIVE Chained(_)
Chained(node) == \/ node.k \in Comparisons /\ \E j \in 1..2 : node.c[j].k \in Comparisons
                 \/ \E j \in DOMAIN node.c : Chained(node.c[j])
FnBody(module) == module.c[2].c[8]

\* The parser groups operators by the precedences the formatter parenthesises by, and takes
\* no comparison of a comparison.
PrecedenceMatches ==
  source.ops # <<>> =>
    LET tree == Tree(<<"a", "b", "c", "x", "y">>, source.ops)
    IN  IF Chained(tree) THEN first = Bad ELSE first # Bad /\ FnBody(first).c[1].c[1] = tree

-----------------------------------------------------------------------------
\* What a function body does: the calls it makes, and how it ends.
Done(s)      == s.end # ""
Value(s, v)  == [s EXCEPT !.val = v]
Digit        == [d \in Integer |-> CASE d = "0" -> 0 [] d = "1" -> 1 [] OTHER -> 2]
Accepts(pat, v) == CASE pat.k = "integer" -> Digit[pat.n] = v [] OTHER -> TRUE
RECURSIVE exec(_, _, _)
Apply(op, l, r) == CASE op = "+" -> l + r [] op = "<" -> l < r [] op = "<=" -> l <= r [] op = "==" -> l = r
Both(op, l, r)  == IF Done(r) THEN r ELSE Value(r, Apply(op, l.val, r.val))
Call(s)         == IF Done(s) THEN s ELSE [s EXCEPT !.calls = Append(@, s.val)]
Assign(s, x)    == IF Done(s) THEN s ELSE [s EXCEPT !.env = (x :> s.val) @@ @]
Loop(node, s, left) ==
  CASE s.end = "break" -> [s EXCEPT !.end = ""]
    [] s.end # "break" /\ left = 0 -> [s EXCEPT !.end = "stuck"]
    [] s.end = "stuck" -> s
    [] OTHER -> exec(node, [s EXCEPT !.end = ""], left - 1)
Choice(node, s, left) ==
  IF Done(s) THEN s ELSE exec(IF s.val THEN node.c[2] ELSE node.c[3], s, left)
\* The first arm whose pattern accepts the value and whose guard, if any, says so.
RECURSIVE Choose(_, _, _)
Choose(arms, s, left) ==
  LET says == exec(arms[1].c[2], s, left)
  IN  CASE Done(s) -> s
        [] ~Done(s) /\ ~Accepts(arms[1].c[1], s.val) -> Choose(Tail(arms), s, left)
        [] OTHER -> CASE arms[1].c[2] = None \/ Done(says) -> exec(arms[1].c[3], says, left)
                      [] OTHER -> IF says.val THEN exec(arms[1].c[3], says, left)
                                  ELSE Choose(Tail(arms), Value(says, s.val), left)
\* A `break` or `continue` in the condition is one of the loop around the `while`.
While(node, s, left) ==
  CASE Done(s) \/ ~s.val -> s
    [] left = 0 -> [s EXCEPT !.end = "stuck"]
    [] OTHER -> LET body == exec(node.c[2], s, left)
                IN  CASE body.end = "break" -> [body EXCEPT !.end = ""]
                      [] body.end = "stuck" -> body
                      [] OTHER -> exec(node, [body EXCEPT !.end = ""], left - 1)
exec(node, s, left) ==
  CASE Done(s) \/ node.k = "none" -> s
    [] node.k \in {"break", "continue"} -> [s EXCEPT !.end = node.k]
    [] node.k = "integer"    -> Value(s, Digit[node.n])
    [] node.k = "identifier" -> Value(s, IF node.n \in DOMAIN s.env THEN s.env[node.n] ELSE 0)
    [] node.k = "let"        -> Assign(exec(node.c[4], s, left), node.c[2].n)
    [] node.k = "="          -> Assign(exec(node.c[2], s, left), node.c[1].n)
    [] node.k \in {"call", "method"} -> Call(exec(node.c[3], exec(node.c[1], s, left), left))
    [] node.k = "select"     -> exec(node.c[Len(node.c)].c[1], s, left)
    [] node.k \in {"+", "<", "<=", "=="} ->
         FoldLeft(LAMBDA l, j : Both(node.k, l, exec(node.c[2], l, left)), exec(node.c[1], s, left), <<1>>)
    [] node.k = "if"    -> Choice(node, exec(node.c[1], s, left), left)
    [] node.k = "match" -> Choose(node.c[2].c, exec(node.c[1], s, left), left)
    [] node.k = "loop"  -> Loop(node, exec(node.c[1], s, left), left)
    [] node.k = "while" -> While(node, exec(node.c[1], s, left), left)
    [] OTHER            -> FoldLeft(LAMBDA t, child : exec(child, t, left), s, node.c)

State0 == [env |-> <<>>, calls |-> <<>>, val |-> 0, end |-> ""]
\* A for loop over a range, as its body says: one execution of the body for every value.
RECURSIVE each(_, _, _, _)
each(body, v, to, s) ==
  IF v > to \/ s.end = "break" THEN [s EXCEPT !.end = ""]
  ELSE each(body, v + 1, to, exec(body, [s EXCEPT !.env = ("x" :> v), !.end = ""], Rounds))

\* Where a `continue` of the loop's own keeps the loop from counting: in a condition, a
\* scrutinee, a guard, a callee, a receiver or an assignment's target, and anywhere in a select.
Stray(k) == CASE k \in {"if", "while", "match", "call", "method", "="} -> {1}
              [] k = "arm" -> {2} [] k \in {"select", "select_arm", "default"} -> {1, 2} [] OTHER -> {}
Own(k) == CASE k \in {"loop", "closure", "spawn"} -> {} [] k = "while" -> {1} [] OTHER -> 1..9
RECURSIVE Continues(_)
Continues(node) == node.k = "continue" \/ \E j \in DOMAIN node.c \cap Own(node.k) : Continues(node.c[j])
RECURSIVE Strays(_)
Strays(node) == \E j \in DOMAIN node.c \cap Own(node.k) :
                  (j \in Stray(node.k) /\ Continues(node.c[j])) \/ Strays(node.c[j])

\* A `for` over a range runs its body once for every value of the range, in order, and then
\* ends, if every `continue` in it stands where rewrite_continue_in_expr looks: in blocks,
\* branches, arm bodies, operands and arguments.  A `continue` anywhere else skips the
\* increment as well: the loop runs the same round for ever.  (Every body in Sources comes to
\* its `continue`.)
ForVisitsRange ==
  source.body # <<>> =>
    LET did  == exec(FnBody(first), State0, Rounds)
        body == FnBody(parse(source.body))
    IN  IF Strays(body) THEN did.end = "stuck"
        ELSE did.end = "" /\ did.calls = each(body, 0, source.to, State0).calls
=============================================================================
