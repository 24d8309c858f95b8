------------------------------ MODULE MirLower ------------------------------
(***************************************************************************)
(* The lowering of typed bodies to MIR (paco-mir/src/lower.rs, Lowerer)    *)
(* and the worklist of generic instances (paco-driver/src/lowering.rs).    *)
(*                                                                         *)
(* A place is a local and a path into it; an operand copies or moves a     *)
(* place or is a constant.  The lowerer `w` is the code's, with two stacks *)
(* in place of the recursion of its functions: `todo`, the tasks left, and *)
(* `vals`, the operands, places and rvalues they returned.  A task stands  *)
(* for the rest of a function after a call it makes.                       *)
(*                                                                         *)
(* `crash` is a panic of the compiler.  Spans, closures, slices, spawn,    *)
(* select, generators, test assertions and dimensions are left out.        *)
(***************************************************************************)
EXTENDS Infer

Local(l)        == [l |-> l, path |-> <<>>]
Step(kd, n, i, ty) == [k |-> kd, n |-> n, i |-> i, ty |-> ty]
Into(p, step)   == [p EXCEPT !.path = Append(@, step)]
Field(p, f)     == Into(p, Step("field", f, 0, Unit))
Item(p, i)      == Into(p, Step("item", "", i, Unit))
VariantField(p, v, i) == Into(p, Step("variant", v, i, Unit))
Deref(p, ty)    == Into(p, Step("deref", "", 0, ty))

Copy(p)         == [k |-> "Copy", p |-> p]
Move(p)         == [k |-> "Move", p |-> p]
Const(v, ty)    == [k |-> "Const", v |-> v, ty |-> ty]
UnitConst       == Const(0, Unit)

Rv(r, o, a, p, ty) == [r |-> r, o |-> o, a |-> a, p |-> p, ty |-> ty]
Use(a)          == Rv("Use", "", <<a>>, Local(0), Unit)
BinaryOp(o, l, r) == Rv("BinaryOp", o, <<l, r>>, Local(0), Unit)
UnaryOp(o, a)   == Rv("UnaryOp", o, <<a>>, Local(0), Unit)
Ref(p)          == Rv("Ref", "", <<>>, p, Unit)
Aggregate(ty, v, fields) == Rv("Aggregate", v, fields, Local(0), ty)
Discriminant(p) == Rv("Discriminant", "", <<>>, p, Unit)
Cast(a, ty)     == Rv("Cast", "", <<a>>, Local(0), ty)

Assign(p, r)    == [s |-> "Assign", p |-> p, r |-> r]
Drop(l)         == [s |-> "Drop", p |-> Local(l)]
Goto(b)         == [t |-> "Goto", to |-> b]
SwitchInt(d, targets, otherwise) == [t |-> "SwitchInt", d |-> d, targets |-> targets, otherwise |-> otherwise]
Call(f, args, dst, resume) == [t |-> "Call", f |-> f, args |-> args, dst |-> dst, resume |-> resume]
Return(a)       == [t |-> "Return", a |-> a]
Unreachable     == [t |-> "Unreachable"]
Placeholder     == [ss |-> <<>>, t |-> Unreachable]

is_copy(t)      == t.k \in {"Int", "Char", "Bool", "Borrow"}
Read(p, t)      == IF is_copy(t) THEN Copy(p) ELSE Move(p)

-----------------------------------------------------------------------------
\* Names of instances.  A mangled name is its parts, joined by "_" in the code.
RECURSIVE mangle_type(_)
mangle_type(t) ==
  LET args == FlattenSeq([i \in DOMAIN t.a |-> mangle_type(t.a[i])])
  IN  CASE t.k \in Nominal \cup {"Int"} -> <<t.n>> \o args
        [] t.k = "Borrow" -> <<IF t.n = "mut" THEN "refmut" ELSE "ref">> \o args
        [] t.k = "Generic" -> <<"generic", t.n>>
        [] t.k \in {"Tuple", "Bool", "String", "Char", "Unit"} -> <<t.k>> \o args
        [] OTHER -> <<"unknown">>
mangled_name(base, key) == base \o FlattenSeq([i \in DOMAIN key |-> mangle_type(key[i])])
\* A call site needs an instance (InstantiationRegistry::record; see record).
want(w, base, key) == IF key = <<>> THEN w ELSE [w EXCEPT !.wanted = Append(@, <<base, key>>)]

\* Builtin functions of the runtime the lowering calls.
PANIC_SYMBOL == <<"$panic">>

-----------------------------------------------------------------------------
\* The lowerer.
NewLowerer(P, sub, ret) ==
  [P |-> P, sub |-> sub, ret |-> ret, locals |-> <<>>, blocks |-> <<Placeholder>>, current |-> 1, dead |-> 0,
   ss |-> <<>>, scopes |-> <<Empty>>, scope_locals |-> <<<<>>>>, loops |-> <<>>, wanted |-> <<>>, crash |-> FALSE,
   todo |-> <<>>, vals |-> <<>>, tries |-> {}, name |-> <<>>, in_comptime |-> FALSE, values |-> Empty,
   outlined |-> <<>>, outer |-> <<>>]

declare_local(w, ty) == [w EXCEPT !.locals = Append(@, ty)]
Newest(w)       == Len(w.locals)
push(w, st)     == IF w.dead = w.current THEN w ELSE [w EXCEPT !.ss = Append(@, st)]
reserve(w, n)   == [w EXCEPT !.blocks = @ \o [i \in 1..n |-> Placeholder]]
Reserved(w)     == Len(w.blocks)
finish_current(w, t) == [w EXCEPT !.blocks[w.current] = [ss |-> w.ss, t |-> t], !.ss = <<>>]
switch_to(w, b) == [w EXCEPT !.current = b]
terminate_and_abandon(w, t) ==
  after(reserve(finish_current(w, t), 1), LAMBDA v : [v EXCEPT !.current = Reserved(v), !.dead = Reserved(v)])
type_of(w, e)   == substitute_generics(e.t, w.sub)

open_scope(w)   == [w EXCEPT !.scopes = Append(@, Empty), !.scope_locals = Append(@, <<>>)]
pop_scope(w)    == [w EXCEPT !.scopes = Front(@), !.scope_locals = Front(@)]
bind(w, n, l)   == [w EXCEPT !.scopes[Len(w.scopes)] = Bound(@, n, l),
                             !.scope_locals[Len(w.scopes)] = Append(@, l)]
Scopes(w, n)    == {i \in DOMAIN w.scopes : n \in DOMAIN w.scopes[i]}
try_resolve(w, n) == IF Scopes(w, n) = {} THEN 0
                     ELSE w.scopes[CHOOSE i \in Scopes(w, n) : \A j \in Scopes(w, n) : j <= i][n]
drop_local(w, l) == IF is_copy(w.locals[l]) \/ w.locals[l] = Unit THEN w ELSE push(w, Drop(l))
drop_scopes_from(w, depth) ==
  FoldLeft(drop_local, w, Reverse(FlattenSeq(SubSeq(w.scope_locals, depth, Len(w.scope_locals)))))
close_scope(w)  == pop_scope(drop_scopes_from(w, Len(w.scopes)))

\* Tasks and values.
T(d, x)         == [d |-> d, x |-> x]
then(w, tasks)  == [w EXCEPT !.todo = tasks \o @]
give(w, v)      == [w EXCEPT !.vals = Append(@, v)]
Top(w)          == Last(w.vals)
Tops(w, n)      == SubSeq(w.vals, Len(w.vals) - n + 1, Len(w.vals))
without(w, n)   == [w EXCEPT !.vals = SubSeq(@, 1, Len(@) - n)]
crashed(w)      == [w EXCEPT !.crash = TRUE, !.todo = <<>>]
Operands(es)    == [i \in DOMAIN es |-> T("operand", es[i])]

\* A new temporary that holds the rvalue, and the operand that reads it.
temp(w, rvalue, ty) == push(declare_local(w, ty), Assign(Local(Newest(w) + 1), rvalue))
into_temp(w, rvalue, ty) == after(temp(w, rvalue, ty), LAMBDA v : give(v, Read(Local(Newest(v)), ty)))
binary(w, o, l, r, ty) == temp(w, BinaryOp(o, l, r), ty)
compare(w, o, l, r)    == binary(w, o, l, r, Bool)
This(w)                == Copy(Local(Newest(w)))
\* The current block ends in `t` and the next one, made for it, is entered.
enter_next(w, t)       == switch_to(finish_current(w, t), Reserved(w))
emit_call(w, f, args, ty) ==
  IF ty = Unit THEN give(after(reserve(w, 1), LAMBDA v : enter_next(v, Call(f, args, <<>>, Reserved(v)))), UnitConst)
  ELSE after(reserve(declare_local(w, ty), 1), LAMBDA v :
         give(enter_next(v, Call(f, args, <<Local(Newest(v))>>, Reserved(v))), Read(Local(Newest(v)), ty)))
lower_panic(w)  == terminate_and_abandon(without(emit_call(w, PANIC_SYMBOL, <<>>, Unit), 1), Unreachable)
branch_unless(w, condition, fail) ==
  after(reserve(w, 1), LAMBDA v : enter_next(v, SwitchInt(condition, <<<<0, fail>>>>, Reserved(v))))

\* The result of a branching expression, absent where it has no value.
declare_result(w, ty) == IF ty = Unit THEN w ELSE declare_local(w, ty)
Store(ty, l)    == IF ty = Unit THEN T("discard", 0) ELSE T("assign", l)
Result(ty, l)   == T("give", IF ty = Unit THEN UnitConst ELSE Read(Local(l), ty))

-----------------------------------------------------------------------------
\* Blocks and statements.
lower_block(w, e) ==
  LET tail == e.c # <<>> /\ Last(e.c).k = "tail"
  IN  then(open_scope(w),
           [i \in 1 .. Len(e.c) - (IF tail THEN 1 ELSE 0) |-> T("statement", e.c[i])]
             \o (IF tail THEN <<T("operand", Last(e.c).c[1]), T("detach", Last(e.c).c[1])>> ELSE <<T("give", UnitConst)>>)
             \o <<T("close_scope", 0)>>)
lower_statement(w, s) ==
  then(w, (IF s.k = "expr" THEN <<T("operand", s.c[1]), T("discard", 0)>>
           ELSE IF s.c[2].k = "identifier" THEN <<T("rvalue", s.c[4]), T("let", s)>>
           ELSE <<T("place", s.c[4]), T("let_pattern", s)>>)
          \o <<T("drop_temps", Len(w.locals))>>)
\* The temporaries of a statement are dropped at its end, the last one first.
drop_temps(w, first) ==
  FoldLeft(drop_local, w, Reverse(SelectSeq([i \in 1 .. Len(w.locals) - first |-> first + i],
                                            LAMBDA l : l \notin ToSet(Last(w.scope_locals)))))
lower_let(w, s) ==
  after(temp(without(w, 1), Top(w), type_of(w, s.c[4])), LAMBDA v : bind(v, s.c[2].n, Newest(v)))
lower_let_pattern(w, s) ==
  after([pat |-> s.c[2], place |-> Top(w), ty |-> type_of(w, s.c[4]), fail |-> Reserved(w) + 1], LAMBDA x :
    then(reserve(without(w, 1), 1), <<T("test", x), T("refuted", x.fail), T("bind", x)>>))
refuted(w, unmatched) ==
  after(finish_current(reserve(w, 1), Goto(Reserved(w) + 1)), LAMBDA v :
    switch_to(finish_current(switch_to(v, unmatched), Unreachable), Reserved(v)))
\* detach: a value read out of a place is moved before the locals of the scope are dropped.
detach(w, ty) == IF Top(w).k = "Const" \/ is_copy(ty) \/ ty = Unit THEN w ELSE into_temp(without(w, 1), Use(Top(w)), ty)

-----------------------------------------------------------------------------
\* Control flow.
lower_if(w, e, ty) ==
  after(reserve(declare_result(without(w, 1), ty), 3), LAMBDA v :
    then(switch_to(finish_current(v, SwitchInt(Top(w), <<<<1, Reserved(v) - 2>>>>, Reserved(v) - 1)), Reserved(v) - 2),
         <<T("block", e.c[2]), Store(ty, Newest(v)), T("goto", Reserved(v)), T("switch_to", Reserved(v) - 1),
           IF e.c[3].k = "none" THEN T("give", UnitConst) ELSE T("operand", e.c[3]),
           Store(ty, Newest(v)), T("goto", Reserved(v)), T("switch_to", Reserved(v)), Result(ty, Newest(v))>>))
lower_short_circuit(w, e) ==
  then(declare_local(w, Bool),
       <<T("operand", e.c[1]), T("assign", Newest(w) + 1), T("short_circuit", [e |-> e, r |-> Newest(w) + 1])>>)
short_circuit(w, e, r) ==
  after(reserve(w, 2), LAMBDA v :
    then(switch_to(finish_current(v, IF e.k = "&&" THEN SwitchInt(Copy(Local(r)), <<<<1, Reserved(v) - 1>>>>, Reserved(v))
                                     ELSE SwitchInt(Copy(Local(r)), <<<<1, Reserved(v)>>>>, Reserved(v) - 1)), Reserved(v) - 1),
         <<T("operand", e.c[2]), T("assign", r), T("goto", Reserved(v)), T("switch_to", Reserved(v)),
           T("give", Use(Copy(Local(r))))>>))
push_loop(w, header, exit) == [w EXCEPT !.loops = Append(@, [header |-> header, exit |-> exit, depth |-> Len(w.scopes) + 1])]
lower_while(w, e) ==
  after(reserve(w, 3), LAMBDA v :
    then(switch_to(finish_current(v, Goto(Reserved(v) - 2)), Reserved(v) - 2),
         <<T("operand", e.c[1]), T("while", [e |-> e, b |-> Reserved(v)])>>))
while_body(w, e, b) ==
  then(push_loop(switch_to(finish_current(without(w, 1), SwitchInt(Top(w), <<<<1, b - 1>>>>, b)), b - 1), b - 2, b),
       <<T("block", e.c[2]), T("discard", 0), T("end_loop", 0)>>)
lower_loop(w, e) ==
  after(reserve(w, 2), LAMBDA v :
    then(push_loop(switch_to(finish_current(v, Goto(Reserved(v) - 1)), Reserved(v) - 1), Reserved(v) - 1, Reserved(v)),
         <<T("block", e.c[1]), T("discard", 0), T("end_loop", 0)>>))
end_loop(w) ==
  LET l == Last(w.loops)
  IN  give(switch_to(finish_current([w EXCEPT !.loops = Front(@)], Goto(l.header)), l.exit), UnitConst)
leave_loop(w, to) == give(terminate_and_abandon(drop_scopes_from(w, Last(w.loops).depth), Goto(to)), UnitConst)
lower_return(w) ==
  give(terminate_and_abandon(drop_scopes_from(without(w, 1), 2), Return(Top(w))), UnitConst)

-----------------------------------------------------------------------------
\* Patterns.
variant_index(w, en, v) == (CHOOSE i \in DOMAIN w.P.types[en].variants : w.P.types[en].variants[i].n = v) - 1
unit_variant_pattern(w, p, ty) ==
  p.k = "identifier" /\ Strip(ty).k = "Enum" /\ VariantsNamed(w.P, Strip(ty).n, p.n) # {}
lower_literal(e, ty) ==
  CASE e.k = "integer" -> Const(IntValue[e.n], IF ty.k = "Int" THEN ty ELSE IntTy("i64"))
    [] e.k = "string"  -> Const(1, Text)
    [] e.k = "char"    -> Const(e.n, Char)
    [] OTHER           -> Const(e.k = "true", Bool)
is_switchable_pattern(p) ==
  \/ p.k \in {"integer", "true", "false", "_", "identifier"}
  \/ p.k = "patEnum" /\ \A i \in DOMAIN p.c[2].c : p.c[2].c[i].k \in {"identifier", "_"}
RECURSIVE pattern_binds(_)
pattern_binds(p) ==
  p.k \in {"identifier", "@"} \/ (p.k \in {"patTuple", "or", "patEnum", "patStruct", "pats", "field_pat", "patRef"}
                                  /\ \E i \in DOMAIN p.c : pattern_binds(p.c[i]))

\* The subpatterns of a pattern with their places and types.
Subpatterns(w, x) ==
  LET p  == x.pat
      on == Strip(x.ty)
      at(pat, place, ty) == [x EXCEPT !.pat = pat, !.place = place, !.ty = ty]
      fs == SelectSeq(p.c[2].c, LAMBDA f : f.k # "rest")
      v  == Last(p.c[1].c).n
  IN  CASE p.k = "patTuple"  -> [i \in DOMAIN p.c |-> at(p.c[i], Item(x.place, i), on.a[i])]
        [] p.k = "patEnum"   -> [i \in DOMAIN p.c[2].c |->
                                   at(p.c[2].c[i], VariantField(x.place, v, i), variant_field_types(w.P, on, v)[i])]
        [] p.k = "patStruct" -> [i \in DOMAIN fs |-> at(fs[i].c[2], Field(x.place, fs[i].c[1].n),
                                                        instantiated_struct_fields(w.P, on)[fs[i].c[1].n])]
        [] p.k \in {"@", "patRef"} -> <<at(p.c[2], x.place, x.ty)>>
        [] OTHER -> <<>>
Each(d, xs) == [i \in DOMAIN xs |-> T(d, xs[i])]

compare_place(w, o, place, literal, ty, fail) ==
  after(compare(w, o, Copy(place), lower_literal(literal, ty)), LAMBDA v : branch_unless(v, This(v), fail))
test_variant(w, x, v) ==
  after(temp(w, Discriminant(x.place), IntTy("i64")), LAMBDA d :
    after(compare(d, "==", This(d), Const(variant_index(w, Strip(x.ty).n, v), IntTy("i64"))), LAMBDA t :
      branch_unless(t, This(t), x.fail)))
lower_pattern_test(w, x) ==
  LET p == x.pat
  IN  CASE unit_variant_pattern(w, p, x.ty) -> test_variant(w, x, p.n)
        [] p.k \in Literals -> compare_place(w, "==", x.place, p, x.ty, x.fail)
        [] p.k \in {"..", "..="} ->
             after(IF p.c[1].k \in Literals THEN compare_place(w, ">=", x.place, p.c[1], x.ty, x.fail) ELSE w, LAMBDA v :
               IF p.c[2].k \in Literals
               THEN compare_place(v, IF p.k = "..=" THEN "<=" ELSE "<", x.place, p.c[2], x.ty, x.fail) ELSE v)
        [] p.k = "patEnum" -> then(test_variant(w, x, Last(p.c[1].c).n), Each("test", Subpatterns(w, x)))
        [] p.k \in {"patTuple", "patStruct", "@", "patRef"} -> then(w, Each("test", Subpatterns(w, x)))
        [] p.k = "or" -> then(reserve(w, 1), <<T("alternative", [x |-> x, i |-> 1, next |-> 0, matched |-> Reserved(w) + 1,
                                                                 shared |-> Empty])>>)
        [] OTHER -> w
\* Pat::Or.  The bindings of each alternative are moved to shared locals, made for the first one.
alternative(w, a) ==
  IF a.i > Len(a.x.pat.c)
  THEN FoldLeft(LAMBDA u, n : bind(u, n, a.shared[n]), switch_to(finish_current(w, Goto(a.x.fail)), a.matched),
                SetToSeq(DOMAIN a.shared))
  ELSE after([a.x EXCEPT !.pat = a.x.pat.c[a.i], !.fail = Reserved(w) + 1], LAMBDA x :
         then(reserve(w, 1), <<T("test", x)>>
                \o (IF pattern_binds(x.pat) THEN <<T("open_scope", 0), T("bind", x), T("share", a)>> ELSE <<>>)
                \o <<T("matched", [a EXCEPT !.next = x.fail])>>))
share(w, a) ==
  LET bound == Last(w.scopes)
      names == SetToSeq(DOMAIN bound)
  IN  after(IF a.shared # Empty THEN a.shared
            ELSE [n \in DOMAIN bound |-> Newest(w) + CHOOSE i \in DOMAIN names : names[i] = n], LAMBDA shared :
        FoldLeft(LAMBDA u, n : push(u, Assign(Local(shared[n]), Use(Read(Local(bound[n]), w.locals[bound[n]])))),
                 give(FoldLeft(LAMBDA u, n : IF a.shared # Empty THEN u ELSE declare_local(u, w.locals[bound[n]]),
                               pop_scope(w), names), shared), names))
matched(w, a) ==
  LET binds == pattern_binds(a.x.pat.c[a.i])
  IN  then(switch_to(finish_current(IF binds THEN without(w, 1) ELSE w, Goto(a.matched)), a.next),
           <<T("alternative", [a EXCEPT !.i = @ + 1, !.shared = IF binds THEN Top(w) ELSE @])>>)
bind_pattern_at(w, x) ==
  LET p == x.pat
      named(n) == after(temp(w, Use(Read(x.place, x.ty)), x.ty), LAMBDA v : bind(v, n, Newest(v)))
  IN  CASE unit_variant_pattern(w, p, x.ty) -> w
        [] p.k = "identifier" /\ ~unit_variant_pattern(w, p, x.ty) -> named(p.n)
        [] p.k = "@" -> then(named(p.c[1].n), Each("bind", Subpatterns(w, x)))
        [] p.k \in {"patTuple", "patEnum", "patStruct", "patRef"} -> then(w, Each("bind", Subpatterns(w, x)))
        [] OTHER -> w

-----------------------------------------------------------------------------
\* match: one switch where every pattern allows it, a chain of tests otherwise.
ArmTarget(w, ty, p) == CASE p.k = "integer" -> IntValue[p.n] [] p.k = "true" -> 1 [] p.k = "false" -> 0
                         [] OTHER -> variant_index(w, ty.n, Last(p.c[1].c).n)
lower_match_switch(w, arms, place, on, ty, r) ==
  LET first == Reserved(w) - Len(arms) - 1
      catches(i) == arms[i].c[1].k \in {"_", "identifier"}
      cases == SelectSeq(Indices(arms), LAMBDA i : ~catches(i))
  IN  then(finish_current(w, SwitchInt(IF on.k = "Enum" THEN This(w) ELSE Copy(place),
                                       [i \in DOMAIN cases |-> <<ArmTarget(w, on, arms[cases[i]].c[1]), first + cases[i]>>],
                                       first + Last(IF \E i \in DOMAIN arms : catches(i) THEN SelectSeq(Indices(arms), catches) ELSE Indices(arms)))),
           FlattenSeq([i \in DOMAIN arms |->
             <<T("switch_to", first + i), T("open_scope", 0),
               T("bind", [pat |-> arms[i].c[1], place |-> place, ty |-> on, fail |-> 0]), T("operand", arms[i].c[3]),
               Store(ty, r), T("close_scope", 0), T("goto", Reserved(w))>>])
           \o <<T("switch_to", Reserved(w)), Result(ty, r)>>)
lower_match_chain(w, arms, place, on, ty) ==
  after(reserve(declare_result(w, ty), 1), LAMBDA v :
    then(v, Each("arm", [i \in DOMAIN arms |-> [arm |-> arms[i], place |-> place, on |-> on, ty |-> ty,
                                                r |-> Newest(v), meet |-> Reserved(v)]])
            \o <<T("unreachable", 0), T("switch_to", Reserved(v)), Result(ty, Newest(v))>>))
lower_match(w, e, on, ty) ==
  IF \E i \in DOMAIN e.c[2].c : e.c[2].c[i].c[2].k # "none" \/ ~is_switchable_pattern(e.c[2].c[i].c[1])
  THEN lower_match_chain(without(w, 1), e.c[2].c, Top(w), on, ty)
  ELSE after(reserve(declare_result(without(w, 1), ty), Len(e.c[2].c) + 1), LAMBDA v :
         lower_match_switch(IF on.k = "Enum" THEN temp(v, Discriminant(Top(w)), IntTy("i64")) ELSE v,
                            e.c[2].c, Top(w), on, ty, Newest(v)))
\* lower_match_chain, one arm: a failed test or guard falls through to the next.
chain_arm(w, a) ==
  LET x == [pat |-> a.arm.c[1], place |-> a.place, ty |-> a.on, fail |-> Reserved(w) + 1]
      body == <<T("operand", a.arm.c[3]), Store(a.ty, a.r), T("close_scope", 0), T("goto", a.meet)>>
  IN  then(open_scope(reserve(w, 1)), <<T("test", x), T("bind", x)>>
              \o (IF a.arm.c[2].k = "none" THEN body \o <<T("switch_to", x.fail)>>
                  ELSE <<T("operand", a.arm.c[2]), T("guard", [body |-> body, next |-> x.fail])>>))
guard(w, g) ==
  then(branch_unless(reserve(without(w, 1), 1), Top(w), Reserved(w) + 1),
       g.body \o <<T("rejected", [at |-> Reserved(w) + 1, bound |-> Last(w.scope_locals), next |-> g.next])>>)
rejected(w, r) ==
  switch_to(finish_current(FoldLeft(drop_local, switch_to(w, r.at), Reverse(r.bound)), Goto(r.next)), r.next)

-----------------------------------------------------------------------------
\* Calls.
own_generic_args(w, e) == [j \in DOMAIN e.i |-> substitute_generics(e.i[j], w.sub)]
call_instance(w, base, key, args, e, ty) ==
  then(want(w, base, key), Operands(args) \o <<T("call", [f |-> mangled_name(base, key), n |-> Len(args), ty |-> ty])>>)
lower_enum_variant_construction(w, v, args, e) ==
  then(w, Operands(args) \o <<T("aggregate", [ty |-> type_of(w, e), v |-> v, n |-> Len(args)])>>)
\* Compile-time code.  A `comptime` block, or a call of a `comptime fn` from other code, is outlined into
\* a function without parameters, its site, unless its value is known already.
is_comptime_only(sig) == sig.decl.c[3].c[1].k = "comptime"
RECURSIVE referenced(_)
referenced(e) == (IF e.k = "identifier" THEN {e.n} ELSE {}) \cup UNION {referenced(e.c[i]) : i \in DOMAIN e.c}
SiteKey(w, e) == <<e, w.sub>>
RECURSIVE materialize(_, _, _)
materialize(w, v, ty) ==
  IF ty.k \notin Nominal \cup {"Tuple"}
  THEN give(w, Const(CASE ty.k = "Bool" -> v.n = 1 [] ty.k = "String" -> Len(v.a) [] OTHER -> v.n, ty))
  ELSE LET variant == IF ty.k = "Enum" THEN w.P.types[ty.n].variants[v.n + 1].n ELSE ""
           types   == CASE ty.k = "Enum"   -> variant_field_types(w.P, ty, variant)
                        [] ty.k = "Struct" -> [i \in DOMAIN v.a |-> instantiated_struct_fields(w.P, ty)[w.P.types[ty.n].fields[i].n]]
                        [] ty.k = "Tuple"  -> ty.a
       IN  after(FoldLeft(LAMBDA u, i : materialize(u, v.a[i], types[i]), w, Indices(v.a)), LAMBDA u :
             into_temp(without(u, Len(v.a)), Aggregate(ty, variant, Tops(u, Len(v.a))), ty))
lower_comptime(w, e, inner) ==
  CASE w.in_comptime -> then(w, <<T("operand", inner)>>)
    [] ~w.in_comptime /\ SiteKey(w, e) \in DOMAIN w.values -> materialize(w, w.values[SiteKey(w, e)], type_of(w, e))
    [] OTHER -> then([NewLowerer(w.P, w.sub, type_of(w, e)) EXCEPT !.in_comptime = TRUE, !.outer = <<w>>],
                     (IF \E n \in referenced(inner) : try_resolve(w, n) # 0 THEN <<T("panic", 0)>> ELSE <<T("operand", inner)>>)
                     \o <<T("outlined", e)>>)
SiteName(w) == Append(w.name, <<"comptime", Len(w.outlined) + 1>>)
outlined(w, e) ==
  after(finish_current(w, Return(Top(w))), LAMBDA b : after(w.outer[1], LAMBDA o :
    emit_call([o EXCEPT !.wanted = @ \o b.wanted,
                        !.outlined = Append(@, [name |-> SiteName(o), key |-> SiteKey(o, e), e |-> e, body |-> b])],
              SiteName(o), <<>>, w.ret)))
lower_call(w, e) ==
  LET name == e.c[1].n
      args == e.c[3].c
  IN  IF name = "panic" /\ name \notin DOMAIN w.P.functions
      THEN then(w, (IF args = <<>> THEN <<>> ELSE <<T("operand", args[1]), T("discard", 0)>>) \o <<T("panic", 0)>>)
      ELSE IF name \in DOMAIN w.P.functions /\ ~w.in_comptime /\ is_comptime_only(w.P.functions[name]) THEN lower_comptime(w, e, e)
      ELSE IF name \in DOMAIN w.P.functions THEN call_instance(w, <<name>>, own_generic_args(w, e), args, e, type_of(w, e))
      ELSE lower_enum_variant_construction(w, name, args, e)
nominal_type_args(t) == IF t.k = "Borrow" THEN nominal_generic_args(t.a[1]) ELSE nominal_generic_args(t)
lower_associated_call(w, e) ==
  LET of == IF e.c[1].k = "tyGen" THEN e.c[1].c[1].c[1].n ELSE e.c[1].c[1].n
      on == IF e.c[1].k = "tyGen" THEN substitute_generics(ty_from_ast(w.P.types, e.c[1], [g \in DOMAIN w.sub |-> Generic(g)]), w.sub)
            ELSE type_of(w, e)
  IN  IF w.P.types[of].k = "Enum" /\ VariantsNamed(w.P, of, e.c[2].n) # {}
      THEN lower_enum_variant_construction(w, e.c[2].n, e.c[3].c, e)
      ELSE call_instance(w, <<of, e.c[2].n>>, nominal_type_args(on) \o own_generic_args(w, e), e.c[3].c, e, type_of(w, e))

\* method_takes_ref_operand: the operator passes a value to a `&Self` parameter by reference.
method_takes_ref_operand(w, on, m, arg) ==
  LET sig == w.P.methods[<<target_type_name(Strip(on)), m>>]
  IN  sig.params # <<>> /\ sig.decl.c[6].c[2].c[2].k = "tyRef" /\ sig.decl.c[6].c[2].c[2].c[2].k # "mut"
      /\ type_of(w, arg).k # "Borrow"
lower_method_call_with(w, recv, m, args, e, borrow_args, ty) ==
  LET on   == type_of(w, recv)
      base == <<target_type_name(Strip(on)), m>>
      key  == nominal_type_args(on) \o own_generic_args(w, e)
  IN  IF on.k = "Int" /\ m \in DOMAIN int_overflow_method /\ Len(args) = 1
      THEN then(w, <<T("operand", recv), T("operand", args[1]), T("overflow", [m |-> m, w |-> on.n, ty |-> ty])>>)
      ELSE IF m \in {"unwrap", "expect"} /\ Strip(on).k = "Enum" /\ Strip(on).n \in {"Option", "Result"}
      THEN IF on.k = "Enum" THEN then(w, <<T("operand", recv), T("unwrap", [recv |-> recv, m |-> m, args |-> args, ty |-> ty])>>)
           ELSE crashed(w)
      ELSE then(want(w, base, key),
                <<T("operand", recv)>>
                \o FlattenSeq([i \in DOMAIN args |->
                     IF borrow_args THEN <<T("place", args[i]), T("borrow_arg", type_of(w, args[i]))>> ELSE <<T("operand", args[i])>>])
                \o <<T("call", [f |-> mangled_name(base, key), n |-> Len(args) + 1, ty |-> ty])>>)
\* A temporary whose payload is taken by moving it (TRY_TEMP).
own_try(w, l) == [w EXCEPT !.tries = @ \cup {l}]
\* lower_unwrap.
lower_unwrap(w, value, on, m, args, ty) ==
  LET ok == IF on.n = "Option" THEN "Some" ELSE "Ok"
      scrutinee == Local(Newest(w) + 1)
  IN  after(reserve(temp(temp(own_try(w, scrutinee.l), Use(value), on), Discriminant(scrutinee), IntTy("i64")), 2), LAMBDA v :
        then(enter_next(v, SwitchInt(This(v), <<<<variant_index(w, on.n, ok), Reserved(v) - 1>>>>, Reserved(v))),
             (IF m = "expect" /\ args # <<>> THEN <<T("operand", args[1]), T("discard", 0)>> ELSE <<>>)
             \o <<T("panic", 0), T("discard", 0), T("switch_to", Reserved(v) - 1),
                  T("give", Use(Move(VariantField(scrutinee, ok, 1)))), T("temp", ty), T("read", ty)>>))
lower_operator(w, e, m, ty) ==
  lower_method_call_with(w, e.c[1], m, <<e.c[2]>>, e, method_takes_ref_operand(w, type_of(w, e.c[1]), m, e.c[2]), ty)

\* lower_overflow_method.
assign_by_condition(w, condition, target, yes, no) ==
  after(reserve(w, 3), LAMBDA v :
    after(finish_current(push(switch_to(finish_current(v, SwitchInt(condition, <<<<1, Reserved(v) - 2>>>>, Reserved(v) - 1)),
                                        Reserved(v) - 2), Assign(Local(target), yes)), Goto(Reserved(v))), LAMBDA t :
      switch_to(finish_current(push(switch_to(t, Reserved(v) - 1), Assign(Local(target), no)), Goto(Reserved(v))), Reserved(v))))
\* The bound is the newest local.
saturation_bound(w, op, l, r, ty) ==
  after(compare(w, "<", r, Const(0, ty)), LAMBDA v :
    after(CASE op = "add" -> v
            [] op = "sub" -> compare(v, "==", This(v), Const(FALSE, Bool))
            [] OTHER -> after(compare(v, "<", l, Const(0, ty)), LAMBDA u : compare(u, "!=", This(u), This(v))), LAMBDA to :
      assign_by_condition(declare_local(to, ty), This(to), Newest(to) + 1, Use(Const(lowest(ty.n), ty)), Use(Const(highest(ty.n), ty)))))
saturate(w, op, l, r, ty, wrapped, over, result) ==
  IF is_signed(ty.n)
  THEN after(saturation_bound(w, op, l, r, ty), LAMBDA v : assign_by_condition(v, over, result, Use(This(v)), Use(wrapped)))
  ELSE assign_by_condition(w, over, result, Use(Const(IF op = "sub" THEN lowest(ty.n) ELSE highest(ty.n), ty)), Use(wrapped))
lower_overflow_method(w, family, op, l, r, ty, result) ==
  after(binary(w, "wrapping " \o op, l, r, ty), LAMBDA wr :
    IF family = "wrapping" THEN give(wr, This(wr))
    ELSE after(compare(wr, op \o " overflows", l, r), LAMBDA ov :
           after(declare_local(ov, result), LAMBDA v :
             give(CASE family = "overflowing" -> push(v, Assign(Local(Newest(v)), Aggregate(result, "", <<This(wr), This(ov)>>)))
                    [] family = "checked" -> assign_by_condition(v, This(ov), Newest(v), Aggregate(result, "None", <<>>),
                                                                 Aggregate(result, "Some", <<This(wr)>>))
                    [] OTHER -> saturate(v, op, l, r, ty, This(wr), This(ov), Newest(v)), This(v)))))

\* `?`: the error, converted by `from` where the types differ, is returned.
lower_try(w, p, ty) ==
  after(reserve(temp(IF p.path # <<>> \/ p.l \in ToSet(FlattenSeq(w.scope_locals)) THEN w ELSE own_try(w, p.l),
                     Discriminant(p), IntTy("i64")), 2), LAMBDA v :
    after(enter_next(v, SwitchInt(This(v), <<<<variant_index(w, ty.n, "Ok"), Reserved(v) - 1>>>>, Reserved(v))), LAMBDA s :
      then(IF w.ret.a[2] = ty.a[2] THEN give(s, Read(VariantField(p, "Err", 1), ty.a[2]))
           ELSE emit_call(s, <<target_type_name(w.ret.a[2]), "from">>, <<Read(VariantField(p, "Err", 1), ty.a[2])>>, w.ret.a[2]),
           <<T("aggregate", [ty |-> w.ret, v |-> "Err", n |-> 1]), T("return", 0), T("discard", 0),
             T("switch_to", Reserved(v) - 1), T("give", Use(Move(VariantField(p, "Ok", 1)))), T("temp", ty.a[1]), T("read", ty.a[1])>>)))

-----------------------------------------------------------------------------
\* Expressions.  What follows a statement that does not return has no type (infer_block), and
\* lowering it panics, but for the kinds whose type is not asked for.
Untyped == {"block", "unsafe", "while", "loop", "return", "break", "continue", "="}
lower_operand(w, e) ==
  CASE "t" \notin DOMAIN e /\ e.k \notin Untyped -> crashed(w)
    [] e.k \in Literals -> give(w, lower_literal(e, type_of(w, e)))
    [] e.k = "identifier" ->
         IF try_resolve(w, e.n) # 0 THEN give(w, Read(Local(try_resolve(w, e.n)), type_of(w, e)))
         ELSE lower_enum_variant_construction(w, e.n, <<>>, e)
    [] e.k = "call"   -> lower_call(w, e)
    [] e.k = "method" -> lower_method_call_with(w, e.c[1], e.c[2].n, e.c[3].c, e, FALSE, type_of(w, e))
    [] e.k = "associated" -> lower_associated_call(w, e)
    [] e.k = "comptime" -> lower_comptime(w, e, e.c[1])
    [] e.k = "block"  -> lower_block(w, e)
    [] e.k = "unsafe" -> lower_block(w, e.c[1])
    [] e.k = "if"     -> then(w, <<T("operand", e.c[1]), T("if", e)>>)
    [] e.k = "while"  -> lower_while(w, e)
    [] e.k = "loop"   -> lower_loop(w, e)
    [] e.k = "match"  -> then(w, <<T("place", e.c[1]), T("match", e)>>)
    [] e.k = "return" -> then(w, (IF e.c[1].k = "none" THEN <<T("give", UnitConst)>>
                                  ELSE <<T("operand", e.c[1]), T("detach", e.c[1])>>) \o <<T("return", 0)>>)
    [] e.k = "break"    -> leave_loop(w, Last(w.loops).exit)
    [] e.k = "continue" -> leave_loop(w, Last(w.loops).header)
    [] e.k = "try"    -> then(w, <<T("place", e.c[1]), T("try", e)>>)
    [] e.k = "="      -> then(w, <<T("rvalue", e.c[2]), T("place", e.c[1]), T("store", 0)>>)
    [] e.k = "literal" -> then(w, [i \in DOMAIN e.c[2].c |-> T("operand", e.c[2].c[i].c[2])] \o <<T("struct", e)>>)
    [] OTHER          -> then(w, <<T("place", e), T("read", type_of(w, e))>>)
lower_place(w, e) ==
  CASE "t" \notin DOMAIN e -> crashed(w)
    [] e.k = "identifier" -> IF try_resolve(w, e.n) # 0 THEN give(w, Local(try_resolve(w, e.n))) ELSE crashed(w)
    [] e.k = "field"  -> then(w, <<T("place", e.c[1]), T("field", e.c[2].n)>>)
    [] e.k = "call"   -> then(w, <<T("operand", e), T("place_of", 0)>>)
    [] e.k = "deref"  -> then(w, <<T("operand", e.c[1]), T("deref", type_of(w, e))>>)
    [] OTHER          -> then(w, <<T("rvalue", e), T("temp", type_of(w, e))>>)
Comparisons == {"<", "<=", ">", ">="}
lower_rvalue(w, e) ==
  LET binaryOp == e.k \in BinaryOps
      l == type_of(w, e.c[1])
  IN  CASE "t" \notin DOMAIN e /\ e.k \notin Untyped \cup {"&&", "||"} -> crashed(w)
        [] e.k \in {"&&", "||"} -> lower_short_circuit(w, e)
        [] e.k \in BinaryOps \ {"&&", "||"} ->
             IF e.k \in Comparisons /\ l.k \in Nominal
             THEN lower_operator(then(w, <<T("order", e.k)>>), e, "cmp", IntTy("i64"))
             ELSE IF e.k \in Arithmetic /\ Strip(l).k \in Nominal
             THEN lower_operator(then(w, <<T("use", 0)>>), e, OperatorMethod[e.k], type_of(w, e))
             ELSE then(w, <<T("operand", e.c[1]), T("operand", e.c[2]), T("binary", e.k)>>)
        [] e.k = "deref" -> then(w, <<T("place", e), T("read", type_of(w, e)), T("use", 0)>>)
        [] e.k = "neg" /\ l.k \in Nominal -> 
             lower_method_call_with(then(w, <<T("use", 0)>>), e.c[1], "neg", <<>>, e, FALSE, type_of(w, e))
        [] e.k = "neg" /\ l.k \notin Nominal /\ e.c[1].k = "integer" ->
             give(w, Use(Const(-IntValue[e.c[1].n], type_of(w, e))))
        [] (e.k = "neg" /\ l.k \notin Nominal /\ e.c[1].k # "integer") \/ e.k \in {"not", "bitnot"} ->
             then(w, <<T("operand", e.c[1]), T("unary", e.k)>>)
        [] e.k = "as"    -> then(w, <<T("operand", e.c[1]), T("cast", type_of(w, e))>>)
        [] e.k = "borrow" -> then(w, <<T("place", e.c[2]), T("ref", type_of(w, e))>>)
        [] e.k = "tuple" -> IF e.c = <<>> THEN give(w, Use(UnitConst))
                            ELSE then(w, Operands(e.c) \o <<T("tuple", [ty |-> type_of(w, e), n |-> Len(e.c)])>>)
        [] OTHER -> then(w, <<T("operand", e), T("use", 0)>>)

-----------------------------------------------------------------------------
\* One task.  `top` is the value the task before it returned.
control(w, d, x) ==
  CASE d = "statement"   -> lower_statement(w, x)
    [] d = "block"       -> lower_block(w, x)
    [] d = "drop_temps"  -> drop_temps(w, x)
    [] d = "open_scope"  -> open_scope(w)
    [] d = "close_scope" -> close_scope(w)
    [] d = "goto"        -> finish_current(w, Goto(x))
    [] d = "switch_to"   -> switch_to(w, x)
    [] d = "unreachable" -> finish_current(w, Unreachable)
    [] d = "refuted"     -> refuted(w, x)
    [] d = "short_circuit" -> short_circuit(w, x.e, x.r)
    [] d = "end_loop"    -> end_loop(w)
    [] d = "test"        -> lower_pattern_test(w, x)
    [] d = "bind"        -> bind_pattern_at(w, x)
    [] d = "alternative" -> alternative(w, x)
    [] d = "share"       -> share(w, x)
    [] d = "matched"     -> matched(w, x)
    [] d = "arm"         -> chain_arm(w, x)
    [] d = "rejected"    -> rejected(w, x)
    [] d = "panic"       -> give(lower_panic(w), UnitConst)
    [] d = "give"        -> give(w, x)
    [] d = "operand"     -> lower_operand(w, x)
    [] d = "place"       -> lower_place(w, x)
    [] d = "rvalue"      -> lower_rvalue(w, x)
returned(w, d, x, top) ==
  LET u == without(w, 1)
  IN  CASE d = "discard" -> u
        [] d = "let"     -> lower_let(w, x)
        [] d = "let_pattern" -> lower_let_pattern(w, x)
        [] d = "detach"  -> detach(w, type_of(w, x))
        [] d = "assign"  -> push(u, Assign(Local(x), Use(top)))
        [] d = "if"      -> lower_if(w, x, type_of(w, x))
        [] d = "while"   -> while_body(w, x.e, x.b)
        [] d = "match"   -> lower_match(w, x, type_of(w, x.c[1]), type_of(w, x))
        [] d = "guard"   -> guard(w, x)
        [] d = "return"  -> lower_return(w)
        [] d = "try"     -> lower_try(u, top, type_of(w, x.c[1]))
        [] d = "unwrap"  -> lower_unwrap(u, top, type_of(w, x.recv), x.m, x.args, x.ty)
        [] d = "overflow" -> lower_overflow_method(without(w, 2), int_overflow_method[x.m][1], int_overflow_method[x.m][2],
                                                  Tops(w, 2)[1], top, IntTy(x.w), x.ty)
        [] d = "borrow_arg" -> into_temp(u, Ref(top), Borrow("", x))
        [] d = "temp"    -> give(temp(u, top, x), Local(Newest(w) + 1))
        [] d = "read"    -> give(u, Read(top, x))
        [] d = "field"   -> give(u, Field(top, x))
        [] d = "place_of" -> IF top.k = "Const" THEN crashed(w) ELSE give(u, top.p)
        [] d = "deref"   -> give(u, Deref(top.p, x))
        [] d = "store"   -> give(push(without(w, 2), Assign(top, Tops(w, 2)[1])), UnitConst)
        [] d = "use"     -> give(u, Use(top))
        [] d = "order"   -> give(u, BinaryOp(x, top, Const(0, IntTy("i64"))))
        [] d = "binary"  -> give(without(w, 2), BinaryOp(x, Tops(w, 2)[1], top))
        [] d = "unary"   -> give(u, UnaryOp(x, top))
        [] d = "cast"    -> give(u, Cast(top, x))
        [] d = "ref"     -> give(u, IF top.path = <<>> /\ w.locals[top.l].k = "Borrow" /\ w.locals[top.l].a = x.a
                                    THEN Use(Copy(top)) ELSE Ref(top))
        [] d = "outlined"  -> outlined(w, x)
        [] d = "call"      -> emit_call(without(w, x.n), x.f, Tops(w, x.n), x.ty)
        [] d = "aggregate" -> into_temp(without(w, x.n), Aggregate(x.ty, x.v, Tops(w, x.n)), x.ty)
        [] d = "tuple"     -> give(without(w, x.n), Aggregate(x.ty, "", Tops(w, x.n)))
        [] d = "struct"    ->
             LET fs  == x.c[2].c
                 ty  == type_of(w, x)
                 at(f) == CHOOSE i \in DOMAIN fs : fs[i].c[1].n = f.n
             IN  into_temp(without(w, Len(fs)),
                           Aggregate(ty, "", [j \in DOMAIN w.P.types[ty.n].fields |->
                                                Tops(w, Len(fs))[at(w.P.types[ty.n].fields[j])]]), ty)
Controls == {"statement", "block", "drop_temps", "open_scope", "close_scope", "goto", "switch_to", "unreachable", "refuted",
  "short_circuit", "end_loop", "test", "bind", "alternative", "share", "matched", "arm", "rejected", "panic", "give", "operand", "place", "rvalue"}
step(w) ==
  LET t == Head(w.todo)
      v == [w EXCEPT !.todo = Tail(@)]
  IN  IF t.d \in Controls THEN control(v, t.d, t.x)
      ELSE returned(v, t.d, t.x, IF v.vals = <<>> THEN UnitConst ELSE Top(v))
\* At most 2^n tasks.
RECURSIVE steps(_, _)
steps(w, n) == IF w.todo = <<>> THEN w ELSE IF n = 0 THEN step(w) ELSE steps(steps(w, n - 1), n - 1)

-----------------------------------------------------------------------------
\* lower_instance: the body of a function under a substitution.
param_type(sig, sub, i) ==
  LET ty == substitute_generics(sig.body[i], sub)
      d  == sig.decl.c[6].c[i].c[2]
  IN  IF d.k = "tyRef" /\ ~is_copy(ty) THEN Borrow(IF d.c[2].k = "mut" THEN "mut" ELSE "", ty) ELSE ty
\* The body, and those of its sites.
Made(w, params, debug) ==
  [locals |-> w.locals, blocks |-> w.blocks, params |-> params, ret |-> w.ret, tries |-> w.tries, debug |-> debug]
lower_instance(P, sig, body, sub, name, values, debug) ==
  LET ps == Indices(sig.body)
      w  == FoldLeft(LAMBDA u, i : bind(u, sig.decl.c[6].c[i].c[1].n, i),
                     FoldLeft(LAMBDA u, i : declare_local(u, param_type(sig, sub, i)),
                              [NewLowerer(P, sub, substitute_generics(sig.ret, sub)) EXCEPT
                                 !.name = name, !.values = values, !.in_comptime = is_comptime_only(sig)], ps), ps)
  IN  after(steps(lower_block(w, body), 20), LAMBDA v :
        after(IF v.crash THEN v ELSE finish_current(v, Return(Top(v))), LAMBDA r :
          [crash |-> r.crash, wanted |-> r.wanted,
           sites |-> [i \in DOMAIN r.outlined |-> [name |-> r.outlined[i].name, key |-> r.outlined[i].key, e |-> r.outlined[i].e, ty |-> r.outlined[i].body.ret]],
           bodies |-> (name :> Made(r, Len(ps), debug)) @@ [n \in {o.name : o \in ToSet(r.outlined)} |->
                        Made(r.outlined[CHOOSE i \in DOMAIN r.outlined : r.outlined[i].name = n].body, 0, debug)]]))

\* instance: the function an instance is of, and its substitution (Session::instance).
function_of(P, base) ==
  CASE Len(base) = 1 -> P.functions[base[1]]
    [] Len(base) = 2 /\ base \in DOMAIN P.methods -> P.methods[base]
    [] OTHER -> P.associated[base]
Declared(P, base) == IF Len(base) = 1 THEN base[1] \in DOMAIN P.functions ELSE base \in DOMAIN P.methods \cup DOMAIN P.associated
instance(P, base, key) ==
  LET sig   == function_of(P, base)
      split == Len(key) - Len(sig.generics)
      own   == [g \in ToSet(sig.generics) |-> key[split + CHOOSE i \in DOMAIN sig.generics : sig.generics[i] = g]]
  IN  IF sig.self.k \in Nominal
      THEN own @@ unify_type(sig.self, [sig.self EXCEPT !.a = SubSeq(key, 1, split)], Empty).sub ELSE own
\* function_is_generic: lowered per instance only.
RECURSIVE has_generic(_)
has_generic(t) == t.k = "Generic" \/ \E i \in DOMAIN t.a : has_generic(t.a[i])
function_is_generic(sig) == sig.generics # <<>> \/ \E t \in ToSet(sig.body) \cup {sig.ret, sig.self} : has_generic(t)
=============================================================================
