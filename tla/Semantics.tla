----------------------------- MODULE Semantics ------------------------------
(***************************************************************************)
(* What a checked program means, independently of MIR, layouts and the     *)
(* machine: an evaluator of the typed tree.                                *)
(*                                                                         *)
(* A borrow is the value "ref", the location n and the path a.  `x` holds  *)
(* the program's tables P and its checked bodies, `s` the store, the fuel  *)
(* left and the profile.  An outcome o is "value", or why there is none.   *)
(***************************************************************************)
EXTENDS Infer, Bitwise

Got(v, s)      == [o |-> "value", v |-> v, s |-> s]
Ends(o, v, s)  == [o |-> o, v |-> v, s |-> s]
next(r, F(_))  == IF r.o = "value" THEN F(r) ELSE r
Store0(fuel, debug) == [store |-> <<>>, fuel |-> fuel, debug |-> debug]

RECURSIVE At(_, _), Put(_, _, _)
At(v, path)      == IF path = <<>> THEN v ELSE At(v.a[path[1]], Tail(path))
Put(v, path, u)  == IF path = <<>> THEN u ELSE [v EXCEPT !.a[path[1]] = Put(@, Tail(path), u)]
LoadAt(s, r)     == At(s.store[r.n], r.a)
Loaded(s, v)     == IF v.t = "ref" THEN LoadAt(s, v) ELSE v
SaveAt(s, r, u)  == [s EXCEPT !.store[r.n] = Put(@, r.a, u)]
fresh(s, v)      == [s EXCEPT !.store = Append(@, v)]
Newest_(s)       == Val("ref", Len(s.store), <<>>)

-----------------------------------------------------------------------------
\* Integers: exact, and a panic where the result is not one of the width.
InWidth(v, w)  == lowest(w) <= v /\ v <= highest(w)
Wrap(v, w)     == LET raw == v % (2 ^ Bits[w]) IN IF raw > highest(w) THEN raw - 2 ^ Bits[w] ELSE raw
Num(v, w, s)   == IF InWidth(v, w) \/ ~s.debug THEN Got(Val(w, Wrap(v, w), <<>>), s) ELSE Ends("panic", UnitVal, s)
Trunc(l, r)    == LET q == (IF l < 0 THEN -l ELSE l) \div (IF r < 0 THEN -r ELSE r) IN IF (l < 0) = (r < 0) THEN q ELSE -q
Raw(v, w)      == v % (2 ^ Bits[w])
Exactly(op, l, r) == CASE op \in {"+", "add"} -> l + r [] op \in {"-", "sub"} -> l - r [] op \in {"*", "mul"} -> l * r
Compared(op, l, r) == CASE op = "<" -> l < r [] op = "<=" -> l <= r [] op = ">" -> l > r [] op = ">=" -> l >= r
IntOp(op, l, r, w, s) ==
  CASE op \in {"+", "-", "*"} -> Num(Exactly(op, l, r), w, s)
    [] op \in {"/", "%"} -> IF r = 0 \/ (op = "/" /\ ~InWidth(Trunc(l, r), w)) THEN Ends("panic", UnitVal, s)
                            ELSE IF op = "/" THEN Num(Trunc(l, r), w, s) ELSE Num(l - r * Trunc(l, r), w, s)
    [] op \in {"<", "<=", ">", ">="} -> Got(BoolVal(Compared(op, l, r)), s)
    [] op \in {"<<", ">>"} -> IF s.debug /\ ~(r \in 0 .. Bits[w] - 1) THEN Ends("panic", UnitVal, s)
                              ELSE after(r % Bits[w], LAMBDA by : Got(Val(w, IF op = "<<" THEN Wrap(l * 2 ^ by, w) ELSE l \div 2 ^ by, <<>>), s))
    [] op = "&" -> Got(Val(w, Wrap(Raw(l, w) & Raw(r, w), w), <<>>), s)
    [] op = "|" -> Got(Val(w, Wrap(Raw(l, w) | Raw(r, w), w), <<>>), s)
    [] op = "^" -> Got(Val(w, Wrap(Raw(l, w) ^^ Raw(r, w), w), <<>>), s)
OverflowMethod(family, op, l, r, w) ==
  LET v == Exactly(op, l, r)
  IN  CASE family = "wrapping" -> Val(w, Wrap(v, w), <<>>)
        [] family = "saturating" -> Val(w, IF v < lowest(w) THEN lowest(w) ELSE IF v > highest(w) THEN highest(w) ELSE v, <<>>)
        [] family = "checked" -> IF InWidth(v, w) THEN Val("data", 0, <<Val(w, v, <<>>)>>) ELSE Val("data", 1, <<>>)
        [] family = "overflowing" -> Val("data", 0, <<Val(w, Wrap(v, w), <<>>), BoolVal(~InWidth(v, w))>>)
BinaryVal(op, l, r, s) ==
  CASE op \in {"==", "!="} -> Got(BoolVal((Loaded(s, l) = Loaded(s, r)) = (op = "==")), s)
    [] op \notin {"==", "!="} /\ Loaded(s, l).t = "text" -> Got(TextVal(Len(Loaded(s, l).a) + Len(Loaded(s, r).a)), s)
    [] OTHER -> IntOp(op, l.n, r.n, l.t, s)

-----------------------------------------------------------------------------
\* Patterns: whether they match, and what they bind.
Literal(e, t) == CASE e.k = "integer" -> Val(IF t.k = "Int" THEN t.n ELSE "i64", IntValue[e.n], <<>>)
                   [] e.k = "string" -> TextVal(1) [] OTHER -> BoolVal(e.k = "true")
VariantNo(P, v) == LET en == CHOOSE en \in DOMAIN P.types : VariantsNamed(P, en, v) # {}
                   IN  (CHOOSE i \in DOMAIN P.types[en].variants : P.types[en].variants[i].n = v) - 1
IsVariant(P, v) == \E en \in DOMAIN P.types : P.types[en].k = "Enum" /\ VariantsNamed(P, en, v) # {}
FieldNo(P, n, f) == CHOOSE i \in DOMAIN P.types[n].fields : P.types[n].fields[i].n = f
Misses == [ok |-> FALSE, b |-> Empty]
Binds(b) == [ok |-> TRUE, b |-> b]
RECURSIVE Matching(_, _, _)
MatchAll(P, ps, vs) == FoldLeft(LAMBDA m, i : IF ~m.ok THEN m ELSE after(Matching(P, ps[i], vs[i]), LAMBDA n :
                                                 IF n.ok THEN Binds(n.b @@ m.b) ELSE Misses), Binds(Empty), Indices(ps))
Matching(P, p, v) ==
  LET fields == SelectSeq(p.c[2].c, LAMBDA f : f.k # "rest")
      both(n) == after(Matching(P, p.c[2], v), LAMBDA m : IF m.ok THEN Binds((n :> v) @@ m.b) ELSE Misses)
  IN  CASE p.k = "_" -> Binds(Empty)
        [] p.k = "identifier" -> IF ~IsVariant(P, p.n) THEN Binds(p.n :> v)
                                 ELSE IF v.n = VariantNo(P, p.n) THEN Binds(Empty) ELSE Misses
        [] p.k \in Literals -> IF v.n = Literal(p, Unit).n THEN Binds(Empty) ELSE Misses
        [] p.k \in {"..", "..="} ->
             IF /\ p.c[1].k \in Literals => Literal(p.c[1], Unit).n <= v.n
                /\ p.c[2].k \in Literals => (v.n < Literal(p.c[2], Unit).n \/ (p.k = "..=" /\ v.n = Literal(p.c[2], Unit).n))
             THEN Binds(Empty) ELSE Misses
        [] p.k = "@" -> both(p.c[1].n)
        [] p.k = "patEnum" -> IF v.n # VariantNo(P, Last(p.c[1].c).n) THEN Misses ELSE MatchAll(P, p.c[2].c, v.a)
        [] p.k = "patTuple" -> MatchAll(P, p.c, v.a)
        [] p.k = "patStruct" -> MatchAll(P, [i \in DOMAIN fields |-> fields[i].c[2]],
                                         [i \in DOMAIN fields |-> v.a[FieldNo(P, Last(p.c[1].c).n, fields[i].c[1].n)]])
        [] p.k = "or" -> FoldLeft(LAMBDA m, i : IF m.ok THEN m ELSE Matching(P, p.c[i], v), Misses, Indices(p.c))
Bring(env, s, b) ==
  FoldLeft(LAMBDA r, n : [env |-> (n :> Len(r.s.store) + 1) @@ r.env, s |-> fresh(r.s, b[n])], [env |-> env, s |-> s], SetToSeq(DOMAIN b))

-----------------------------------------------------------------------------
\* Expressions.
RECURSIVE Eval(_, _, _, _), EvalPlace(_, _, _, _), EvalBlock(_, _, _, _, _)
EvalAll(es, env, x, s) ==
  FoldLeft(LAMBDA r, i : next(r, LAMBDA q : after(Eval(es[i], env, x, q.s), LAMBDA u :
             IF u.o = "value" THEN Got(Append(q.v, u.v), u.s) ELSE u)), Got(<<>>, s), Indices(es))
\* A parameter that is a reference takes one to a value that is not.
AsParam(s, d, v) == IF d.k = "tyRef" /\ v.t # "ref" THEN [s |-> fresh(s, v), v |-> Val("ref", Len(s.store) + 1, <<>>)]
                    ELSE [s |-> s, v |-> IF d.k # "tyRef" THEN Loaded(s, v) ELSE v]
Apply(x, base, args, s) ==
  LET d == x.checked[base].decl
      enter(r, i) == after(AsParam(r.s, d.c[6].c[i].c[2], args[i]), LAMBDA p :
                       [env |-> (d.c[6].c[i].c[1].n :> Len(p.s.store) + 1) @@ r.env, s |-> fresh(p.s, p.v)])
  IN  IF s.fuel = 0 THEN Ends("fuel", UnitVal, s)
      ELSE after(FoldLeft(enter, [env |-> Empty, s |-> [s EXCEPT !.fuel = @ - 1, !.debug = @ \/ d.c[3].c[1].k = "comptime"]], Indices(args)), LAMBDA r :
             after(EvalBlock(x.checked[base].body.c, 1, r.env, [x EXCEPT !.ret = x.checked[base].ret], r.s), LAMBDA q :
               Ends(IF q.o = "return" THEN "value" ELSE q.o, q.v, [q.s EXCEPT !.debug = s.debug])))
\* A receiver or an operator's argument is passed by reference to a reference parameter.
EvalFor(e, d, env, x, s) ==
  IF d.k = "tyRef" /\ e.t.k # "Borrow" THEN EvalPlace(e, env, x, s) ELSE Eval(e, env, x, s)
Invoke(on, m, es, env, x, s) ==
  LET base == <<target_type_name(Strip(on)), m>>
      d    == x.checked[base].decl
      each(r, i) == next(r, LAMBDA q : after(EvalFor(es[i], d.c[6].c[i].c[2], env, x, q.s), LAMBDA u :
                      IF u.o = "value" THEN Got(Append(q.v, u.v), u.s) ELSE u))
  IN  next(FoldLeft(each, Got(<<>>, s), Indices(es)), LAMBDA r : Apply(x, base, r.v, r.s))
EvalBlock(c, i, env, x, s) ==
  IF i > Len(c) THEN Got(UnitVal, s)
  ELSE IF c[i].k = "tail" THEN Eval(c[i].c[1], env, x, s)
  ELSE IF c[i].k = "expr" THEN next(Eval(c[i].c[1], env, x, s), LAMBDA r : EvalBlock(c, i + 1, env, x, r.s))
  ELSE next(Eval(c[i].c[4], env, x, s), LAMBDA r :
         after(Matching(x.P, c[i].c[2], r.v), LAMBDA m :
           IF ~m.ok THEN Ends("refuted", UnitVal, r.s)
           ELSE after(Bring(env, r.s, m.b), LAMBDA b : EvalBlock(c, i + 1, b.env, x, b.s))))
RECURSIVE Loop(_, _, _, _, _)
Loop(test, body, env, x, s) ==
  IF s.fuel = 0 THEN Ends("fuel", UnitVal, s)
  ELSE next(IF test.k = "none" THEN Got(BoolVal(TRUE), s) ELSE Eval(test, env, x, s), LAMBDA t :
    IF t.v.n = 0 THEN Got(UnitVal, t.s)
    ELSE after(EvalBlock(body.c, 1, env, x, [t.s EXCEPT !.fuel = @ - 1]), LAMBDA r :
           IF r.o = "break" THEN Got(UnitVal, r.s)
           ELSE IF r.o \in {"value", "continue"} THEN Loop(test, body, env, x, r.s) ELSE r))
RECURSIVE Arms(_, _, _, _, _, _)
Arms(arms, i, v, env, x, s) ==
  IF i > Len(arms) THEN Ends("refuted", UnitVal, s)
  ELSE after(Matching(x.P, arms[i].c[1], v), LAMBDA m :
         IF ~m.ok THEN Arms(arms, i + 1, v, env, x, s)
         ELSE after(Bring(env, s, m.b), LAMBDA b :
                next(IF arms[i].c[2].k = "none" THEN Got(BoolVal(TRUE), b.s) ELSE Eval(arms[i].c[2], b.env, x, b.s), LAMBDA g :
                  IF g.v.n = 0 THEN Arms(arms, i + 1, v, env, x, g.s) ELSE Eval(arms[i].c[3], b.env, x, g.s))))
EvalPlace(e, env, x, s) ==
  CASE e.k = "identifier" /\ e.n \in DOMAIN env -> Got(Val("ref", env[e.n], <<>>), s)
    [] e.k = "field" -> next(EvalPlace(e.c[1], env, x, s), LAMBDA r :
                          after(IF LoadAt(r.s, r.v).t = "ref" THEN LoadAt(r.s, r.v) ELSE r.v, LAMBDA on :
                            Got([on EXCEPT !.a = Append(@, FieldNo(x.P, Strip(e.c[1].t).n, e.c[2].n))], r.s)))
    [] e.k = "deref" -> Eval(e.c[1], env, x, s)
    [] OTHER -> next(Eval(e, env, x, s), LAMBDA r : Got(Val("ref", Len(r.s.store) + 1, <<>>), fresh(r.s, r.v)))

Construct(P, v, es, env, x, s) == next(EvalAll(es, env, x, s), LAMBDA r : Got(Val("data", VariantNo(P, v), r.v), r.s))
EvalCall(e, env, x, s) ==
  LET name == e.c[1].n
  IN  IF name = "panic" THEN next(EvalAll(e.c[3].c, env, x, s), LAMBDA r : Ends("panic", UnitVal, r.s))
      ELSE IF <<name>> \in DOMAIN x.checked THEN next(EvalAll(e.c[3].c, env, x, s), LAMBDA r : Apply(x, <<name>>, r.v, r.s))
      ELSE Construct(x.P, name, e.c[3].c, env, x, s)
EvalMethod(e, env, x, s) ==
  LET on == e.c[1].t
      m  == e.c[2].n
      two == <<e.c[1]>> \o e.c[3].c
  IN  IF on.k = "Int" /\ m \in DOMAIN int_overflow_method
      THEN next(EvalAll(two, env, x, s), LAMBDA r :
             Got(OverflowMethod(int_overflow_method[m][1], int_overflow_method[m][2], r.v[1].n, r.v[2].n, r.v[1].t), r.s))
      ELSE IF m \in {"unwrap", "expect"}
      THEN next(Eval(e.c[1], env, x, s), LAMBDA r :
             IF r.v.n = VariantNo(x.P, IF on.n = "Option" THEN "Some" ELSE "Ok") THEN Got(r.v.a[1], r.s)
             ELSE next(EvalAll(e.c[3].c, env, x, r.s), LAMBDA q : Ends("panic", UnitVal, q.s)))
      ELSE Invoke(on, m, two, env, x, s)
EvalAssociated(e, env, x, s) ==
  LET of == IF e.c[1].k = "tyGen" THEN e.c[1].c[1].c[1].n ELSE e.c[1].c[1].n
  IN  IF VariantsNamed(x.P, of, e.c[2].n) # {} THEN Construct(x.P, e.c[2].n, e.c[3].c, env, x, s)
      ELSE next(EvalAll(e.c[3].c, env, x, s), LAMBDA r : Apply(x, <<of, e.c[2].n>>, r.v, r.s))
EvalTry(e, env, x, s) ==
  next(Eval(e.c[1], env, x, s), LAMBDA r :
    IF r.v.n = VariantNo(x.P, "Ok") THEN Got(r.v.a[1], r.s)
    ELSE after(<<target_type_name(x.ret.a[2]), "from">>, LAMBDA from :
           next(IF e.c[1].t.a[2] = x.ret.a[2] THEN Got(r.v.a[1], r.s) ELSE Apply(x, from, r.v.a, r.s), LAMBDA q :
             Ends("return", Val("data", VariantNo(x.P, "Err"), <<q.v>>), q.s))))
EvalBinary(e, env, x, s) ==
  LET l == e.c[1].t
  IN  CASE e.k \in {"&&", "||"} -> next(Eval(e.c[1], env, x, s), LAMBDA r :
                                     IF (r.v.n = 1) = (e.k = "&&") THEN Eval(e.c[2], env, x, r.s) ELSE r)
        [] e.k \in {"<", "<=", ">", ">="} /\ l.k \in Nominal ->
             next(Invoke(l, "cmp", e.c, env, x, s), LAMBDA r : Got(BoolVal(Compared(e.k, r.v.n, 0)), r.s))
        [] e.k \in DOMAIN OperatorMethod /\ Strip(l).k \in Nominal -> Invoke(l, OperatorMethod[e.k], e.c, env, x, s)
        [] OTHER -> next(EvalAll(e.c, env, x, s), LAMBDA r : BinaryVal(e.k, r.v[1], r.v[2], r.s))
EvalUnary(e, env, x, s) ==
  IF e.k = "neg" /\ e.c[1].t.k \in Nominal THEN Invoke(e.c[1].t, "neg", e.c, env, x, s)
  ELSE IF e.k = "neg" /\ e.c[1].k = "integer" THEN Got(Val(e.t.n, -IntValue[e.c[1].n], <<>>), s)
  ELSE next(Eval(e.c[1], env, x, s), LAMBDA r :
         CASE e.k = "not" -> Got(BoolVal(r.v.n = 0), r.s)
           [] e.k = "neg" -> Num(-r.v.n, r.v.t, r.s)
           [] e.k = "bitnot" -> Got(Val(r.v.t, Wrap(-r.v.n - 1, r.v.t), <<>>), r.s))
EvalStruct(e, env, x, s) ==
  next(EvalAll([i \in DOMAIN e.c[2].c |-> e.c[2].c[i].c[2]], env, x, s), LAMBDA r :
    Got(Val("data", 0, [j \in DOMAIN r.v |-> r.v[CHOOSE i \in DOMAIN r.v : FieldNo(x.P, e.t.n, e.c[2].c[i].c[1].n) = j]]), r.s))
Eval(e, env, x, s) ==
  CASE e.k \in Literals -> Got(Literal(e, e.t), s)
    [] e.k = "identifier" -> IF e.n \in DOMAIN env THEN Got(s.store[env[e.n]], s)
                             ELSE IF IsVariant(x.P, e.n) THEN Got(Val("data", VariantNo(x.P, e.n), <<>>), s)
                             ELSE Ends("panic", UnitVal, s)      \* a variable of the run, at compile time
    [] e.k \in {"field", "deref"} -> next(EvalPlace(e, env, x, s), LAMBDA r : Got(LoadAt(r.s, r.v), r.s))
    [] e.k \in BinaryOps  -> EvalBinary(e, env, x, s)
    [] e.k \in {"not", "neg", "bitnot"} -> EvalUnary(e, env, x, s)
    [] e.k = "borrow" -> next(EvalPlace(e.c[2], env, x, s), LAMBDA r : Got(IF LoadAt(r.s, r.v).t = "ref" THEN LoadAt(r.s, r.v) ELSE r.v, r.s))
    [] e.k = "as"     -> next(Eval(e.c[1], env, x, s), LAMBDA r : Got(Val(e.t.n, Wrap(r.v.n, e.t.n), <<>>), r.s))
    [] e.k = "call"   -> EvalCall(e, env, x, s)
    [] e.k = "method" -> EvalMethod(e, env, x, s)
    [] e.k = "associated" -> EvalAssociated(e, env, x, s)
    [] e.k = "block"  -> EvalBlock(e.c, 1, env, x, s)
    [] e.k = "unsafe" -> EvalBlock(e.c[1].c, 1, env, x, s)
    [] e.k = "comptime" -> after(EvalBlock(e.c[1].c, 1, env, x, [s EXCEPT !.debug = TRUE]), LAMBDA r : [r EXCEPT !.s.debug = s.debug])
    [] e.k = "if"     -> next(Eval(e.c[1], env, x, s), LAMBDA r :
                           IF r.v.n = 1 THEN EvalBlock(e.c[2].c, 1, env, x, r.s)
                           ELSE IF e.c[3].k = "none" THEN Got(UnitVal, r.s) ELSE Eval(e.c[3], env, x, r.s))
    [] e.k = "while"  -> Loop(e.c[1], e.c[2], env, x, s)
    [] e.k = "loop"   -> Loop([k |-> "none"], e.c[1], env, x, s)
    [] e.k = "match"  -> next(Eval(e.c[1], env, x, s), LAMBDA r : Arms(e.c[2].c, 1, Loaded(r.s, r.v), env, x, r.s))
    [] e.k = "return" -> IF e.c[1].k = "none" THEN Ends("return", UnitVal, s)
                         ELSE next(Eval(e.c[1], env, x, s), LAMBDA r : Ends("return", r.v, r.s))
    [] e.k \in {"break", "continue"} -> Ends(e.k, UnitVal, s)
    [] e.k = "try"    -> EvalTry(e, env, x, s)
    [] e.k = "="      -> next(Eval(e.c[2], env, x, s), LAMBDA r :
                           next(EvalPlace(e.c[1], env, x, r.s), LAMBDA q : Got(UnitVal, SaveAt(q.s, q.v, r.v))))
    [] e.k = "literal" -> EvalStruct(e, env, x, s)
    [] e.k = "tuple"  -> IF e.c = <<>> THEN Got(UnitVal, s) ELSE next(EvalAll(e.c, env, x, s), LAMBDA r : Got(Val("data", 0, r.v), r.s))
=============================================================================
