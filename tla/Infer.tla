-------------------------------- MODULE Infer --------------------------------
(***************************************************************************)
(* Type inference of function bodies (paco-types/src/lib.rs).              *)
(*                                                                         *)
(* `infer` types a tree: it returns the tree with a type `t` on every node *)
(* (and `i`, what the call there binds its type parameters to), and the    *)
(* state after it.  The visitor is the same for all nodes; what a node     *)
(* does before its children (Begin), before and after each of them (Enter, *)
(* After) and at its end (Leave) is what the code's function for that node *)
(* does, in its order.  The state `s` holds the scopes and the codes       *)
(* reported `errs`; its other fields are the context of the node and are   *)
(* restored at its end (a stack of nodes stands for the recursion).  Name  *)
(* resolution is folded in: a name means its innermost binding.  Closures, *)
(* slices, floats, raw pointers, generators and printing are left out.     *)
(***************************************************************************)
EXTENDS Types, Usefulness

CONSTANT Bits                \* the number of bits of each integer type
ASSUME BitsAssumption == Bits \in [Widths -> {1, 2, 4, 8, 16, 32, 64}]

lowest(w)  == IF is_signed(w) THEN -(2 ^ (Bits[w] - 1)) ELSE 0
highest(w) == IF is_signed(w) THEN 2 ^ (Bits[w] - 1) - 1 ELSE 2 ^ Bits[w] - 1

-----------------------------------------------------------------------------
\* The signature of a function declaration `d` of the type `self` (Unknown outside a type).
SelfEnv(self) == IF self = Unknown THEN Empty
                 ELSE [g \in {a.n : a \in {b \in ToSet(self.a) : b.k = "Generic"}} |-> Generic(g)]
                      @@ ("Self" :> self)
receiver_from_param(d) ==
  CASE d.c[6].c = <<>> -> "none"
    [] d.c[6].c # <<>> /\ d.c[6].c[1].c[1].n # "self" -> "none"
    [] OTHER -> IF d.c[6].c[1].c[2].k = "tyRef" /\ d.c[6].c[1].c[2].c[2].k = "mut" THEN "mut" ELSE "shared"
function_sig(types, d, self) ==
  LET env  == generic_substitutions(generic_names(d.c[5])) @@ SelfEnv(self)
      recv == receiver_from_param(d)
      body == [i \in DOMAIN d.c[6].c |-> IF i = 1 /\ recv # "none" THEN self
                                         ELSE ty_from_ast(types, d.c[6].c[i].c[2], env)]
  IN  [generics |-> generic_names(d.c[5]), self |-> self, body |-> body, recv |-> recv,
       params |-> IF recv = "none" THEN body ELSE Tail(body),
       ret |-> IF d.c[7].k = "none" THEN Unit ELSE ty_from_ast(types, d.c[7], env),
       unsafe |-> d.c[3].c[3].k # "none", bounds |-> param_bounds(d.c[5]), decl |-> d]

\* collect_types, collect_functions and their kin: the tables of a module's items.
Named(items, kinds) == {i \in DOMAIN items : items[i].k \in kinds}
collect_types(items) ==
  [n \in {items[i].c[3].n : i \in Named(items, {"struct", "enum"})} |->
     LET d == items[CHOOSE i \in Named(items, {"struct", "enum"}) : items[i].c[3].n = n]
     IN  [k |-> IF d.k = "struct" THEN "Struct" ELSE "Enum", generics |-> generic_names(d.c[4]),
          fields |-> [i \in DOMAIN d.c[5].c |-> [n |-> d.c[5].c[i].c[3].n, ty |-> d.c[5].c[i].c[4]]],
          variants |-> [i \in DOMAIN d.c[6].c |-> [n |-> d.c[6].c[i].c[2].n, tys |-> d.c[6].c[i].c[3].c]],
          fns |-> d.c[7].c]]
SelfType(types, n) == Ty(types[n].k, n, [i \in DOMAIN types[n].generics |-> Generic(types[n].generics[i])])
attached(types, items) ==
  UNION {{[on |-> n, sig |-> function_sig(types, types[n].fns[j], SelfType(types, n))] :
            j \in DOMAIN types[n].fns} : n \in DOMAIN types}
  \cup UNION {LET target == ty_from_ast(types, items[i].c[2], generic_substitutions(generic_names(items[i].c[1])))
              IN  {[on |-> target_type_name(target), sig |-> function_sig(types, items[i].c[3].c[j], target)] :
                     j \in DOMAIN items[i].c[3].c} : i \in Named(items, {"methods"})}
Table(all) == [key \in {<<a.on, a.sig.decl.c[4].n>> : a \in all} |->
                 (CHOOSE a \in all : <<a.on, a.sig.decl.c[4].n>> = key).sig]
collect(items) ==
  LET types == collect_types(items)
      all   == attached(types, items)
  IN  [types |-> types,
       functions |-> [n \in {items[i].c[4].n : i \in Named(items, {"fn"})} |->
          function_sig(types, items[CHOOSE i \in Named(items, {"fn"}) : items[i].c[4].n = n], Unknown)],
       methods |-> Table({a \in all : a.sig.recv # "none"}),
       associated |-> Table({a \in all : a.sig.recv = "none"})]

-----------------------------------------------------------------------------
\* Instances of declared fields.
OwnerEnv(P, t) == [g \in ToSet(P.types[t.n].generics) |->
                     t.a[CHOOSE i \in DOMAIN t.a : P.types[t.n].generics[i] = g]]
instantiate_ty(P, ty, owner) == ty_from_ast(P.types, ty, OwnerEnv(P, owner))
instantiated_struct_fields(P, t) ==
  LET fs == P.types[t.n].fields
  IN  [f \in {fs[i].n : i \in DOMAIN fs} |->
         instantiate_ty(P, fs[CHOOSE i \in DOMAIN fs : fs[i].n = f].ty, t)]
VariantsNamed(P, en, v) == {i \in DOMAIN P.types[en].variants : P.types[en].variants[i].n = v}
Variant(P, en, v) == P.types[en].variants[CHOOSE i \in VariantsNamed(P, en, v) : TRUE]
variant_field_types(P, t, v) ==
  [i \in DOMAIN Variant(P, t.n, v).tys |-> instantiate_ty(P, Variant(P, t.n, v).tys[i], t)]
is_zero_field_variant(P, t, v) ==
  t.k = "Enum" /\ \E i \in VariantsNamed(P, t.n, v) : P.types[t.n].variants[i].tys = <<>>
EnumsWith(P, v) == {en \in DOMAIN P.types : P.types[en].k = "Enum" /\ VariantsNamed(P, en, v) # {}}
VariantType(P, v) == fresh_enum_params(SelfType(P.types, CHOOSE en \in EnumsWith(P, v) : TRUE))
find_zero_field_variant_enum(P, v) ==
  IF EnumsWith(P, v) # {} /\ is_zero_field_variant(P, VariantType(P, v), v) THEN VariantType(P, v) ELSE Unknown

\* satisfies: no declared type satisfies a trait but by its methods.
OperatorTrait == [o \in {"+", "-", "*", "/", "%"} |->
  CASE o = "+" -> "Add" [] o = "-" -> "Sub" [] o = "*" -> "Mul" [] o = "/" -> "Div" [] o = "%" -> "Rem"]
OperatorMethod == [o \in {"+", "-", "*", "/", "%"} |->
  CASE o = "+" -> "add" [] o = "-" -> "sub" [] o = "*" -> "mul" [] o = "/" -> "div" [] o = "%" -> "rem"]
satisfies(P, t, trait, bounds) ==
  CASE t.k = "Generic" -> t.n \in DOMAIN bounds /\ trait \in bounds[t.n]
    [] t.k = "Int" -> trait # "Neg" \/ is_signed(t.n)
    [] t.k \in {"Bool", "Char"} -> trait \in {"Ord", "Copy", "Hash"}
    [] t.k = "String" -> trait = "Hash"
    [] t.k \in Nominal -> /\ trait \notin {"Numeric", "Copy"}
                          /\ \A o \in DOMAIN OperatorTrait :
                               OperatorTrait[o] = trait => <<t.n, OperatorMethod[o]>> \in DOMAIN P.methods
    [] OTHER -> TRUE
check_bounds(P, bounds, sub, known) ==
  \A g \in DOMAIN bounds \cap DOMAIN sub :
    sub[g] = Generic(g) \/ \A trait \in bounds[g] : satisfies(P, sub[g], trait, known)

-----------------------------------------------------------------------------
\* The state, scopes and patterns.
report(s, codes)  == [s EXCEPT !.errs = @ \cup codes]
push_scope(s)     == [s EXCEPT !.scopes = Append(@, Empty)]
bind_local(s, n, t, mutable) ==
  [s EXCEPT !.scopes[Len(s.scopes)] = (n :> [ty |-> t, mutable |-> mutable]) @@ @]
Within(s, n) == {i \in DOMAIN s.scopes : n \in DOMAIN s.scopes[i]}
lookup(s, n) == IF Within(s, n) = {} THEN [ty |-> Unknown, mutable |-> TRUE]
                ELSE s.scopes[CHOOSE i \in Within(s, n) : \A j \in Within(s, n) : j <= i][n]

literal_type(k) == CASE k = "integer" -> IntTy("i64") [] k = "string" -> Text [] k = "char" -> Char [] OTHER -> Bool

Indices(q) == [i \in DOMAIN q |-> i]
\* bind_pattern_types and, with `let`, bind_let_pattern.
RECURSIVE bind_pattern_types(_, _, _, _, _, _)
bind_tuple_pattern(P, s, elements, t, mutable) ==
  IF t.k # "Tuple" THEN report(s, {"E0302"})
  ELSE IF Len(t.a) # Len(elements) THEN report(s, {"E0305"})
  ELSE FoldLeft(LAMBDA r, i : bind_pattern_types(P, r, elements[i], t.a[i], mutable, TRUE), s, Indices(elements))
\* The alternatives bind the same names, with compatible types.
bind_or_pattern_types(P, s, patterns, t) ==
  LET alt(i)   == bind_pattern_types(P, push_scope(s), patterns[i], t, FALSE, FALSE)
      found(i) == Last(alt(i).scopes)
      same     == \A i \in DOMAIN patterns :
                    /\ DOMAIN found(i) = DOMAIN found(1)
                    /\ \A n \in DOMAIN found(1) : compatible(found(1)[n].ty, found(i)[n].ty)
  IN  report([s EXCEPT !.scopes[Len(s.scopes)] = IF same THEN found(1) @@ @ ELSE @],
             UNION {alt(i).errs : i \in DOMAIN patterns} \cup (IF same THEN {} ELSE {"E0306"}))
bind_pattern_types(P, s, p, t, mutable, let) ==
  LET sameKeys(fs) == {fs[i].c[1].n : i \in DOMAIN fs}
  IN  CASE p.k = "identifier" -> IF ~let /\ is_zero_field_variant(P, t, p.n) THEN s ELSE bind_local(s, p.n, t, let /\ mutable)
        [] p.k = "_" -> s
        [] p.k \in Literals -> report(s, IF compatible(literal_type(p.k), t) THEN {} ELSE {"E0302"})
        [] p.k = "@" -> bind_pattern_types(P, bind_local(s, p.c[1].n, t, FALSE), p.c[2], t, FALSE, FALSE)
        [] p.k \in {"..", "..="} ->
             report(s, (IF t = IntTy("i64") THEN {} ELSE {"E0302"})
                       \cup (IF \A i \in 1..2 : p.c[i].k = "integer" THEN {} ELSE {"E0306"}))
        [] p.k = "patTuple" -> bind_tuple_pattern(P, s, p.c, t, mutable)
        [] p.k = "patEnum" ->
             LET v == Last(p.c[1].c).n
             IN  IF t.k # "Enum" THEN report(s, {"E0302"})
                 ELSE IF Len(p.c[1].c) >= 2 /\ p.c[1].c[1].n # t.n THEN report(s, {"E0302"})
                 ELSE IF VariantsNamed(P, t.n, v) = {} THEN report(s, {"E0314"})
                 ELSE IF Len(variant_field_types(P, t, v)) # Len(p.c[2].c) THEN report(s, {"E0305"})
                 ELSE FoldLeft(LAMBDA r, i : bind_pattern_types(P, r, p.c[2].c[i], variant_field_types(P, t, v)[i], FALSE, FALSE),
                               s, Indices(p.c[2].c))
        [] p.k = "patStruct" ->
             LET fs == SelectSeq(p.c[2].c, LAMBDA f : f.k # "rest")
                 ts == instantiated_struct_fields(P, t)
             IN  IF t.k # "Struct" THEN report(s, {"E0302"})
                 ELSE IF t.n # Last(p.c[1].c).n THEN report(s, {"E0302"})
                 ELSE IF ~(sameKeys(fs) \subseteq DOMAIN ts) THEN report(s, {"E0311"})
                 ELSE report(FoldLeft(LAMBDA r, i : bind_pattern_types(P, r, fs[i].c[2], ts[fs[i].c[1].n], FALSE, FALSE),
                                      s, Indices(fs)),
                             IF Len(fs) = Len(p.c[2].c) /\ sameKeys(fs) # DOMAIN ts THEN {"E0305"} ELSE {})
        [] p.k = "or" -> bind_or_pattern_types(P, s, p.c, t)
        [] OTHER -> report(s, {"E0359"})

\* check_match_coverage: types without constructors the analysis knows are not checked.
constructors_for_type(P, t) ==
  CASE t.k = "Bool" -> {<<"bool", "true">>, <<"bool", "false">>}
    [] t.k = "Enum" -> {<<t.n, P.types[t.n].variants[i].n>> : i \in DOMAIN P.types[t.n].variants}
    [] OTHER -> {}
check_match_coverage(P, t, arms) ==
  LET r == analyze_match(arms, constructors_for_type(P, t), IF t.k = "Enum" THEN t.n ELSE "none")
  IN  IF t.k \notin {"Bool", "Enum", "Int", "String", "Char"} THEN {}
      ELSE (IF r.exhaustive THEN {} ELSE {"E0401"}) \cup (IF r.reachable THEN {} ELSE {"E0402"})

-----------------------------------------------------------------------------
\* What a node's function finds: its type, the codes it reports, the bindings of its call.
Found(t)       == [t |-> t, errs |-> {}, i |-> <<>>]
Wrong(code)    == [t |-> Error, errs |-> {code}, i |-> <<>>]
Provided(ok, code, t) == IF ok THEN Found(t) ELSE Wrong(code)
Typed(e, t)    == [k |-> e.k, n |-> e.n, c |-> e.c, t |-> t, i |-> <<>>]

RECURSIVE is_assignable_field_base(_, _)
is_assignable_field_base(s, e) ==
  CASE e.k = "identifier" -> LET b == lookup(s, e.n)
                             IN  IF b.ty.k = "Borrow" THEN b.ty.n = "mut" ELSE b.mutable
    [] e.k = "field" -> is_assignable_field_base(s, e.c[1])
    [] e.k = "deref" -> e.c[1].k = "identifier" /\ lookup(s, e.c[1].n).ty.k = "Borrow" /\ lookup(s, e.c[1].n).ty.n = "mut"
    [] OTHER -> FALSE
is_mutable_place(s, e) ==
  IF e.k = "identifier" THEN Within(s, e.n) # {} /\ lookup(s, e.n).mutable ELSE is_assignable_field_base(s, e)

\* infer_operator_method: an operator of a struct or an enum is a method of it.
infer_operator_method(P, s, method, recv, arg) ==
  LET on  == Strip(recv)
      sig == P.methods[<<on.n, method>>]
      u   == unify_type(sig.body[1], on, Bound(generic_substitutions(sig.generics), "Self", on))
      to  == sig.params[1]
      v   == unify_type(IF to.k = "Borrow" /\ to.n = "" /\ arg.k # "Borrow" THEN to.a[1] ELSE to, arg, u.sub)
      sub == IF arg = Unknown THEN u.sub ELSE v.sub
  IN  IF on.k \notin Nominal THEN Wrong("E0301")
      ELSE IF <<on.n, method>> \notin DOMAIN P.methods THEN Wrong("E0334")
      ELSE IF arg # Unknown /\ ~v.ok THEN Wrong("E0301")
      ELSE IF ~check_bounds(P, sig.bounds, sub, s.bounds) THEN Wrong("E0340")
      ELSE [t |-> substitute_generics(sig.ret, sub), errs |-> {},
            i |-> [j \in DOMAIN sig.generics |-> sub[sig.generics[j]]]]

Arithmetic == DOMAIN OperatorTrait
\* A struct or an enum is ordered by its `cmp`.
Ordering(P, s, l, r) ==
  LET m == infer_operator_method(P, s, "cmp", l, r)
  IN  IF m.t = IntTy("i64") THEN [m EXCEPT !.t = Bool] ELSE Wrong("E0301")
infer_binary(P, s, op, l, r) ==
  LET generic(trait) == l.k = "Generic" /\ l = r /\ satisfies(P, l, trait, s.bounds)
  IN  CASE Wildcard(l) \/ Wildcard(r) -> Found(Error)
        [] op \in Arithmetic /\ ~Wildcard(l) /\ ~Wildcard(r) ->
             IF (l.k = "Int" /\ l = r) \/ generic(OperatorTrait[op]) THEN Found(l)
             ELSE IF l.k = "Int" /\ r.k = "Int" THEN Wrong("E0301")
             ELSE infer_operator_method(P, s, OperatorMethod[op], l, r)
        [] op \in {"&", "|", "^"} /\ ~Wildcard(l) /\ ~Wildcard(r) -> Provided(l.k = "Int" /\ l = r, "E0301", l)
        [] op \in {"<<", ">>"} /\ ~Wildcard(l) /\ ~Wildcard(r) -> Provided(l.k = "Int" /\ r.k = "Int", "E0301", l)
        [] op \in {"==", "!="} /\ ~Wildcard(l) /\ ~Wildcard(r) -> Provided(compatible(l, r), "E0301", Bool)
        [] op \in {"<", "<=", ">", ">="} /\ ~Wildcard(l) /\ ~Wildcard(r) ->
             IF l.k \in Nominal THEN Ordering(P, s, l, r)
             ELSE Provided((l.k \in {"Int", "Char", "Bool"} /\ l = r) \/ generic("Ord"), "E0301", Bool)
        [] OTHER -> Provided(compatible(l, Bool) /\ compatible(r, Bool), "E0301", Bool)

infer_unary(P, s, op, t) ==
  CASE op = "not" /\ compatible(t, Bool) -> Found(Bool)
    [] ~(op = "not" /\ compatible(t, Bool)) /\ Wildcard(t) -> Found(Error)
    [] op = "neg" /\ ~Wildcard(t) ->
         IF t.k \in Nominal THEN infer_operator_method(P, s, "neg", t, Unknown)
         ELSE Provided((t.k = "Int" /\ is_signed(t.n)) \/ (t.k = "Generic" /\ satisfies(P, t, "Neg", s.bounds)), "E0301", t)
    [] op = "bitnot" /\ ~Wildcard(t) -> Provided(t.k = "Int", "E0301", t)
    [] op = "deref" /\ ~Wildcard(t)  -> Provided(t.k = "Borrow", "E0301", Strip(t))
    [] OTHER -> Wrong("E0301")

infer_field(P, t, f) ==
  LET on == Strip(t)
  IN  IF on.k # "Struct" THEN Wrong("E0311")
      ELSE Provided(f \in DOMAIN instantiated_struct_fields(P, on), "E0311", instantiated_struct_fields(P, on)[f])

infer_cast(P, s, from, to) ==
  Provided(\A t \in {from, to} : t.k \in {"Int", "Char"} \/ (t.k = "Generic" /\ satisfies(P, t, "Numeric", s.bounds)), "E0330", to)
infer_borrow(s, e) ==
  [Found(Borrow(IF e.c[1].k = "mut" THEN "mut" ELSE "", e.c[2].t)) EXCEPT !.errs =
     IF e.c[1].k = "mut" /\ ~is_mutable_place(s, e.c[2]) THEN {"E0307"} ELSE {}]

\* infer_try: the error converts with the `from` of the function's error type.
IsResult(t) == t.k = "Enum" /\ t.n = "Result" /\ Len(t.a) = 2
infer_try(P, s, t) ==
  CASE t = Error -> Found(Error)
    [] t # Error /\ ~IsResult(t) -> Wrong("E0322")
    [] IsResult(t) /\ ~IsResult(s.ret) -> Wrong("E0323")
    [] OTHER ->
         LET to  == s.ret.a[2]
             key == <<target_type_name(to), "from">>
             sig == P.associated[key]
         IN  IF t.a[2] = to THEN Found(t.a[1])
             ELSE IF key \notin DOMAIN P.associated THEN Wrong("E0324")
             ELSE Provided(/\ Len(sig.params) = 1
                           /\ unify_type(sig.params[1], t.a[2], Bound(generic_substitutions(sig.generics), "Self", to)).ok,
                           "E0324", t.a[1])

check_int_literal_range(v, w) == IF lowest(w) <= v /\ v <= highest(w) THEN {} ELSE {"E0329"}

-----------------------------------------------------------------------------
\* Calls.  How a call's arguments are checked, found before they are: the parameter types
\* `want`, the substitution to start from, and the signature (or the variant's enum) `of`.
Plan(kd, want, sub, of) == [k |-> kd, want |-> want, sub |-> sub, of |-> of]
Free(args, t)   == Plan("free", [i \in DOMAIN args.c |-> Unknown], Empty, t)
Refuse(code)    == Plan("wrong", <<>>, Empty, code)
OfVariant(P, t, v) == Plan("variant", variant_field_types(P, t, v), Empty, t)

\* The type arguments written at the call replace the parameters.
infer_function_signature_call(P, s, sig, targs) ==
  Plan("fn", sig.params,
       IF targs.k # "none" /\ Len(targs.c) = Len(sig.generics)
       THEN [g \in ToSet(sig.generics) |->
               ty_from_ast(P.types, targs.c[CHOOSE i \in DOMAIN sig.generics : sig.generics[i] = g],
                           [h \in s.known |-> Generic(h)])]
       ELSE generic_substitutions(sig.generics),
       sig)
infer_call(P, s, e) ==
  LET name == e.c[1].n
  IN  CASE e.c[1].k # "identifier" \/ Within(s, name) # {} -> Refuse("E0302")
        [] OTHER ->
             IF name \in DOMAIN P.functions THEN infer_function_signature_call(P, s, P.functions[name], e.c[2])
             ELSE IF name = "panic" THEN Free(e.c[3], Never)
             ELSE IF EnumsWith(P, name) = {} THEN Refuse("E0319")
             ELSE OfVariant(P, VariantType(P, name), name)

Families == {"wrapping", "saturating", "checked", "overflowing"}
int_overflow_method == [m \in {f \o "_" \o o : f \in Families, o \in {"add", "sub", "mul"}} |->
  CHOOSE p \in Families \X {"add", "sub", "mul"} : p[1] \o "_" \o p[2] = m]
OverflowResult(t, m) == CASE int_overflow_method[m][1] = "checked" -> Option(t)
                          [] int_overflow_method[m][1] = "overflowing" -> Tuple(<<t, Bool>>)
                          [] OTHER -> t
infer_method_call(P, s, e) ==
  LET on  == Strip(e.c[1].t)
      m   == e.c[2].n
      key == <<target_type_name(on), m>>
      sig == P.methods[key]
  IN  CASE on = Error -> Free(e.c[3], Error)
        [] on # Error /\ target_type_name(on) = "none" -> Refuse("E0314")
        [] key \in DOMAIN P.methods ->
             Plan("fn", sig.params, unify_type(sig.body[1], on, Bound(generic_substitutions(sig.generics), "Self", on)).sub, sig)
        [] on # Error /\ target_type_name(on) # "none" /\ key \notin DOMAIN P.methods ->
             IF on.k = "Int" /\ m \in DOMAIN int_overflow_method THEN Plan("builtin", <<on>>, Empty, OverflowResult(on, m))
             ELSE Refuse("E0314")
\* An associated function's Self is the type before `::`, with the arguments written there.
infer_associated_call(P, s, e) ==
  LET env == [g \in s.known |-> Generic(g)]
      on  == ty_from_ast(P.types, e.c[1], env)
      f   == e.c[2].n
      sig == P.associated[<<on.n, f>>]
      own == {i \in DOMAIN on.a : on.a[i].k \notin {"Unknown", "Generic"}}
  IN  CASE on.k = "Enum" /\ VariantsNamed(P, on.n, f) # {} ->
             OfVariant(P, IF e.c[1].k = "path" THEN fresh_enum_params(on) ELSE on, f)
        [] on.k \in Nominal /\ ~(on.k = "Enum" /\ VariantsNamed(P, on.n, f) # {}) ->
             IF <<on.n, f>> \notin DOMAIN P.associated THEN Refuse("E0314")
             ELSE Plan("fn", sig.params,
                       [g \in {P.types[on.n].generics[i] : i \in own} |->
                          on.a[CHOOSE i \in own : P.types[on.n].generics[i] = g]]
                       @@ Bound(generic_substitutions(sig.generics), "Self", on), sig)
        [] OTHER -> Refuse("E0314")

Calls == {"call", "method", "associated"}
Planned(P, s, e) == CASE e.k = "call" -> infer_call(P, s, e) [] e.k = "method" -> infer_method_call(P, s, e)
                      [] OTHER -> infer_associated_call(P, s, e)

\* solve_from_hint: what is unbound still is taken from the type expected of the call.
solve_from_hint(sig, sub, hint) ==
  IF hint = Unknown \/ ~\E g \in ToSet(sig.generics) : sub[g] = Generic(g) THEN sub
  ELSE unify_type(sig.ret, IF IsResult(hint) /\ ~IsResult(sig.ret) THEN hint.a[1] ELSE hint, sub).sub

\* The end of a call, once its arguments are checked and `sub` holds what they bound.
call_type(P, s, e, p, all) ==
  LET arity == IF Len(e.c[3].c) = Len(p.want) THEN {} ELSE {"E0305"}
  IN  CASE p.k = "wrong"   -> Wrong(p.of)
        [] p.k \in {"free", "builtin"} -> [Found(p.of) EXCEPT !.errs = arity]
        [] p.k = "variant" -> [Found(substitute_generics(p.of, all)) EXCEPT !.errs = arity]
        [] p.k = "fn" ->
             [t |-> substitute_generics(p.of.ret, all),
              i |-> [j \in DOMAIN p.of.generics |-> all[p.of.generics[j]]],
              errs |-> arity
                \cup (IF p.of.unsafe /\ ~s.unsafe THEN {"E0325"} ELSE {})
                \cup (IF e.k = "call" /\ e.c[2].k # "none" /\ Len(e.c[2].c) # Len(p.of.generics) THEN {"E0316"} ELSE {})
                \cup (IF check_bounds(P, p.of.bounds, all, s.bounds) THEN {} ELSE {"E0340"})
                \cup (IF e.k = "method" /\ p.of.recv = "mut"
                         /\ ~(IF e.c[1].t.k = "Borrow" THEN e.c[1].t.n = "mut" ELSE is_mutable_place(s, e.c[1]))
                      THEN {"E0307"} ELSE {})]
called(P, s, e, sub) ==
  after(Planned(P, s, e), LAMBDA p :
    call_type(P, s, e, p, IF p.k = "fn" THEN solve_from_hint(p.of, sub, s.hint) ELSE sub))

-----------------------------------------------------------------------------
\* refine_branch: a branch that left a variant's parameter open takes it from the join.
RECURSIVE refine_branch(_, _)
refine_branch(e, target) ==
  LET u == unify_type(e.t, target, Empty)
      r == substitute_generics(e.t, u.sub)
      below == CASE e.k \in {"tail", "unsafe", "arms"} -> DOMAIN e.c
                 [] e.k = "block" -> {i \in DOMAIN e.c : e.c[i].k = "tail"}
                 [] e.k = "if"    -> {2, 3}
                 [] e.k = "match" -> {2}
                 [] e.k = "arm"   -> {3}
                 [] OTHER         -> {}
  IN  IF "t" \notin DOMAIN e THEN e
      ELSE IF ~has_unbound_variant_param(e.t) \/ ~u.ok THEN e
      ELSE [e EXCEPT !.t = r, !.c = [i \in DOMAIN e.c |-> IF i \in below THEN refine_branch(e.c[i], r) ELSE e.c[i]]]
\* recache: the type of a node replaced, its branches refined.
recache(e, t) == IF "t" \in DOMAIN e THEN [refine_branch(e, t) EXCEPT !.t = t] ELSE e

-----------------------------------------------------------------------------
\* The visitor.  Order: the children that are expressions, in the order they are inferred.
BinaryOps == Arithmetic \cup {"&", "|", "^", "<<", ">>", "==", "!=", "<", "<=", ">", ">=", "&&", "||"}
Order(e, s) ==
  CASE e.k \in BinaryOps \cup {"block", "arms", "fields", "tuple"} -> Indices(e.c)
    [] e.k = "args"  -> SubSeq(Indices(e.c), 1, Len(s.want))
    [] e.k = "="     -> <<2, 1>>
    [] e.k = "let"   -> IF e.c[4].k = "none" THEN <<>> ELSE <<4>>
    [] e.k = "return" -> IF e.c[1].k = "none" THEN <<>> ELSE <<1>>
    [] e.k = "if"    -> IF e.c[3].k = "none" THEN <<1, 2>> ELSE <<1, 2, 3>>
    [] e.k = "arm"   -> IF e.c[2].k = "none" THEN <<3>> ELSE <<2, 3>>
    [] e.k \in {"while", "match"} -> <<1, 2>>
    [] e.k = "method" -> <<1, 3>>
    [] e.k \in {"call", "associated"} -> <<3>>
    [] e.k \in {"borrow", "field_value", "literal"} -> <<2>>
    [] e.k \in {"expr", "tail", "not", "neg", "bitnot", "deref", "as", "field", "try", "loop", "unsafe", "comptime"} -> <<1>>
    [] OTHER -> <<>>

TypeHere(P, s, ty) == ty_from_ast(P.types, ty, [g \in s.known |-> Generic(g)])
Begin(P, e, s) ==
  CASE e.k = "block" -> push_scope(s)
    [] e.k = "arm"   -> bind_pattern_types(P, push_scope(s), e.c[1], s.scrut, FALSE, FALSE)
    [] OTHER         -> s

\* The context of child i.  `lit` is the type a literal there takes (infer_literal_against_expected),
\* `hint` the type expected of a call there.
Enter(P, e, i, s) ==
  LET q == [s EXCEPT !.lit = Unknown, !.hint = Unknown]
      p == Planned(P, s, e)
  IN  CASE e.k \in {"tail", "try", "arms"} \/ (e.k = "block" /\ e.c[i].k = "tail") \/ (e.k = "arm" /\ i = 3)
             -> [q EXCEPT !.hint = s.hint]
        [] e.k = "unsafe" -> [q EXCEPT !.hint = s.hint, !.unsafe = TRUE]
        [] e.k = "neg" -> [q EXCEPT !.lit = IF s.lit.k = "Int" /\ e.c[1].k = "integer" /\ is_signed(s.lit.n)
                                            THEN s.lit ELSE Unknown, !.negated = TRUE]
        [] e.k = "tuple" -> [q EXCEPT !.lit = IF s.lit.k = "Tuple" /\ Len(s.lit.a) = Len(e.c) THEN s.lit.a[i] ELSE Unknown,
                                      !.negated = FALSE]
        [] e.k = "let" /\ e.c[3].k # "none" ->
             [q EXCEPT !.lit = TypeHere(P, s, e.c[3]), !.hint = TypeHere(P, s, e.c[3]), !.negated = FALSE]
        [] e.k = "return" -> [q EXCEPT !.hint = s.ret]
        [] e.k = "loop" \/ (e.k = "while" /\ i = 2) -> [q EXCEPT !.loops = @ + 1]
        [] e.k = "match" /\ i = 2 -> [q EXCEPT !.scrut = e.c[1].t, !.hint = s.hint]
        [] e.k \in Calls /\ i = 3 -> [q EXCEPT !.want = p.want, !.sub = p.sub]
        [] e.k = "method" /\ i = 1 -> [q EXCEPT !.hint = IF e.c[2].n \in {"unwrap", "expect"} THEN s.hint ELSE Unknown]
        [] e.k = "args" -> LET now == substitute_generics(s.want[i], s.sub)
                           IN  [q EXCEPT !.hint = IF type_has_foreign_generic(now, s.known) THEN Unknown ELSE now]
        [] e.k = "literal" -> [q EXCEPT !.sub = Empty, !.want = <<TypeHere(P, s, e.c[1])>>]
        [] OTHER -> q

\* check_args and infer_struct_literal: one more value agrees with what is expected of it.
Agree(e, i, s, expected, settle(_, _)) ==
  LET u == unify_type(expected, e.c[i].t, s.sub)
  IN  [e |-> [e EXCEPT !.c[i] = settle(@, u)], s |-> [report(s, IF u.ok THEN {} ELSE {"E0302"}) EXCEPT !.sub = u.sub],
       stop |-> FALSE]
After(P, e, i, s) ==
  CASE e.k = "args" /\ s.want[i] # Unknown ->
         LET settle(a, u) ==
               LET now == substitute_generics(s.want[i], u.sub)
               IN  IF u.ok /\ type_has_foreign_generic(a.t, s.known) /\ ~type_has_foreign_generic(now, s.known)
                   THEN recache(a, now) ELSE a
         IN  Agree(e, i, s, s.want[i], settle)
    [] e.k = "field_value" /\ s.want[1].k = "Struct" ->
         LET fs == instantiated_struct_fields(P, s.want[1])
             settle(a, u) == recache(a, resolve_against_expected(fs[e.c[1].n], a.t, s.known))
         IN  IF e.c[1].n \in DOMAIN fs THEN Agree(e, i, s, fs[e.c[1].n], settle)
             ELSE [e |-> e, s |-> report(s, {"E0311"}), stop |-> FALSE]
    [] OTHER -> [e |-> e, s |-> s, stop |-> e.k = "block" /\ e.c[i].k = "expr" /\ e.c[i].t = Never]

\* loop_breaks: a break of this loop, not of one inside it.
RECURSIVE loop_breaks(_)
loop_breaks(e) == e.k = "break" \/ (e.k \notin {"loop", "while"} /\ \E i \in DOMAIN e.c : loop_breaks(e.c[i]))

infer_block(e) ==
  LET never == \E i \in DOMAIN e.c : e.c[i].k = "expr" /\ "t" \in DOMAIN e.c[i] /\ e.c[i].t = Never
  IN  CASE never -> Never
        [] ~never /\ e.c # <<>> -> IF Last(e.c).k = "tail" THEN Last(e.c).t ELSE Unit
        [] OTHER -> Unit
join(l, r, s) == LET j == join_branch_types(l, r, s.known)
                 IN  [t |-> j, errs |-> IF j = Error /\ ~Wildcard(l) /\ ~Wildcard(r) THEN {"E0304"} ELSE {}, i |-> <<>>]
infer_assign(s, e) ==
  LET to   == e.c[1]
      open == CASE to.k = "identifier" -> lookup(s, to.n).mutable
                [] to.k = "field" -> is_assignable_field_base(s, to.c[1])
                [] to.k = "deref" -> to.c[1].t.k = "Borrow" /\ to.c[1].t.n = "mut"
                [] OTHER -> FALSE
  IN  [t |-> Unit, i |-> <<>>, errs |-> (IF open THEN {} ELSE {"E0307"})
                                  \cup (IF compatible(e.c[2].t, to.t) THEN {} ELSE {"E0302"})]
check_return(s, t) == IF t = Never \/ compatible(t, s.ret) THEN {} ELSE {"E0302"}
infer_struct_literal(P, s, e, sub) ==
  LET t  == TypeHere(P, s, e.c[1])
      fs == e.c[2].c
  IN  IF t.k # "Struct" THEN Wrong("E0311")
      ELSE [t |-> substitute_generics(t, sub), i |-> <<>>,
            errs |-> IF {fs[j].c[1].n : j \in DOMAIN fs} = DOMAIN instantiated_struct_fields(P, t)
                        /\ Len(fs) = Len(P.types[t.n].fields) THEN {} ELSE {"E0311"}]
infer_ident(P, s, n) ==
  IF Within(s, n) # {} THEN Found(lookup(s, n).ty)
  ELSE Provided(find_zero_field_variant_enum(P, n) # Unknown, "E0319", find_zero_field_variant_enum(P, n))

\* What the node finds at its end, its children being typed.
Verdict(P, e, q, s) ==
  CASE e.k \in BinaryOps -> infer_binary(P, s, e.k, e.c[1].t, e.c[2].t)
    [] e.k = "neg" /\ s.lit.k = "Int" /\ e.c[1].k = "integer" /\ is_signed(s.lit.n) -> Found(e.c[1].t)
    [] e.k \in {"not", "bitnot", "deref"} \/ (e.k = "neg" /\ ~(s.lit.k = "Int" /\ e.c[1].k = "integer" /\ is_signed(s.lit.n)))
         -> infer_unary(P, s, e.k, e.c[1].t)
    [] e.k = "integer" ->
         IF s.lit.k # "Int" THEN Found(IntTy("i64"))
         ELSE [Found(s.lit) EXCEPT !.errs = check_int_literal_range(IF s.negated THEN -IntValue[e.n] ELSE IntValue[e.n], s.lit.n)]
    [] e.k \in {"string", "char", "true", "false"} -> Found(literal_type(e.k))
    [] e.k = "identifier" -> infer_ident(P, s, e.n)
    [] e.k \in {"args", "noargs", "fields", "let"} -> Found(Unit)
    [] e.k \in {"expr", "tail", "unsafe", "comptime"} -> Found(e.c[1].t)
    [] e.k = "field_value" -> Found(e.c[2].t)
    [] e.k = "arm"    -> [Found(e.c[3].t) EXCEPT !.errs =
                            IF e.c[2].k = "none" THEN {} ELSE IF compatible(e.c[2].t, Bool) THEN {} ELSE {"E0303"}]
    [] e.k = "arms"   -> FoldLeft(LAMBDA v, a : LET j == join(v.t, a.t, s) IN [j EXCEPT !.errs = @ \cup v.errs],
                                  Found(e.c[1].t), Tail(e.c))
    [] e.k = "match"  -> [Found(e.c[2].t) EXCEPT !.errs = check_match_coverage(P, e.c[1].t, e.c[2].c)]
    [] e.k = "tuple"  -> Found(IF e.c = <<>> THEN Unit ELSE Tuple([i \in DOMAIN e.c |-> e.c[i].t]))
    [] e.k = "block"  -> Found(infer_block(e))
    [] e.k = "if"     -> LET v == join(e.c[2].t, IF e.c[3].k = "none" THEN Unit ELSE e.c[3].t, s)
                         IN  [v EXCEPT !.errs = @ \cup IF compatible(e.c[1].t, Bool) THEN {} ELSE {"E0303"}]
    [] e.k = "while"  -> [Found(Unit) EXCEPT !.errs = IF compatible(e.c[1].t, Bool) THEN {} ELSE {"E0303"}]
    [] e.k = "loop"   -> Found(IF loop_breaks(e.c[1]) THEN Unit ELSE Never)
    [] e.k \in {"break", "continue"} -> [Found(Never) EXCEPT !.errs = IF s.loops > 0 THEN {} ELSE {"E0308"}]
    [] e.k = "return" -> [Found(Never) EXCEPT !.errs =
                            check_return(s, IF e.c[1].k = "none" THEN Unit ELSE resolve_against_expected(s.ret, e.c[1].t, s.known))]
    [] e.k = "="      -> infer_assign(s, e)
    [] e.k = "try"    -> infer_try(P, s, e.c[1].t)
    [] e.k = "as"     -> infer_cast(P, s, e.c[1].t, TypeHere(P, s, e.c[2]))
    [] e.k = "borrow" -> infer_borrow(s, e)
    [] e.k = "field"  -> infer_field(P, e.c[1].t, e.c[2].n)
    [] e.k = "literal" -> infer_struct_literal(P, s, e, q.sub)
    [] e.k \in Calls  -> called(P, s, e, q.sub)
    [] OTHER -> Wrong("unsupported")

\* Types of children settled at the node's end (refine_branch, recache).
Settled(e, v, s) ==
  CASE e.k = "if" -> [e EXCEPT !.c[2] = refine_branch(@, v.t), !.c[3] = IF @.k = "none" THEN @ ELSE refine_branch(@, v.t)]
    [] e.k = "arms" -> [e EXCEPT !.c = [i \in DOMAIN @ |-> refine_branch(@[i], v.t)]]
    [] e.k = "return" -> [e EXCEPT !.c[1] = recache(@, resolve_against_expected(s.ret, IF "t" \in DOMAIN @ THEN @.t ELSE Unit, s.known))]
    [] OTHER -> e
\* check_let: the value agrees with the declared type, the pattern binds it.
check_let(P, e, s) ==
  LET declared == IF e.c[3].k = "none" THEN Unknown ELSE TypeHere(P, s, e.c[3])
      value    == CASE e.c[4].k = "none" -> Unknown
                    [] e.c[4].k # "none" /\ e.c[3].k = "none" -> e.c[4].t
                    [] OTHER -> resolve_against_expected(declared, e.c[4].t, s.known)
  IN  [e |-> IF e.c[3].k = "none" THEN e ELSE [e EXCEPT !.c[4] = recache(@, value)],
       s |-> bind_pattern_types(P, report(s, IF compatible(value, declared) THEN {} ELSE {"E0302"}), e.c[2],
                                IF e.c[3].k = "none" THEN value ELSE declared, e.c[1].k = "mut", TRUE)]
Left(e, v, q, s) ==
  [e |-> [k |-> e.k, n |-> e.n, c |-> Settled(e, v, s).c, t |-> v.t, i |-> v.i],
   s |-> [s EXCEPT !.errs = q.errs \cup v.errs, !.sub = IF e.k \in {"args", "fields", "field_value"} THEN q.sub ELSE @]]
Leave(P, e, q, s) ==
  IF e.k = "let"
  THEN after(check_let(P, e, q), LAMBDA l :
         after(Left(l.e, Found(Unit), l.s, s), LAMBDA r : [r EXCEPT !.s.scopes = l.s.scopes]))
  ELSE after(Verdict(P, e, q, s), LAMBDA v : Left(e, v, q, s))

\* The nodes being typed, outermost first: the node so far, the state at its start and now, the children left.
Frame(P, e, s) == [e |-> e, s |-> s, q |-> Begin(P, e, s), rest |-> Order(e, s)]
descend(P, z, f) == Append(z, Frame(P, f.e.c[Head(f.rest)], Enter(P, f.e, Head(f.rest), f.q)))
back(P, f, r) ==
  after(After(P, [f.e EXCEPT !.c[Head(f.rest)] = r.e], Head(f.rest),
              [f.q EXCEPT !.errs = r.s.errs, !.scopes = r.s.scopes, !.sub = r.s.sub]), LAMBDA a :
    [f EXCEPT !.e = a.e, !.q = a.s, !.rest = IF a.stop THEN <<>> ELSE Tail(@)])
ascend(P, z, f) == Append(SubSeq(z, 1, Len(z) - 2), back(P, z[Len(z) - 1], Leave(P, f.e, f.q, f.s)))
visit(P, z) == IF Last(z).rest = <<>> THEN ascend(P, z, Last(z)) ELSE descend(P, z, Last(z))
RECURSIVE visits(_, _, _)
visits(P, z, n) == IF Len(z) = 1 /\ z[1].rest = <<>> THEN z      \* at most 2^n visits
                   ELSE IF n = 0 THEN visit(P, z) ELSE visits(P, visits(P, z, n - 1), n - 1)
infer(P, e, s) ==
  after(visits(P, <<Frame(P, [k |-> "tail", n |-> "", c |-> <<e>>], s)>>, 16), LAMBDA z : [e |-> z[1].e.c[1], s |-> z[1].q])

\* check_function: the body typed, and the codes reported.
check_function(P, sig) ==
  LET known == ToSet(sig.generics) \cup (DOMAIN SelfEnv(sig.self) \ {"Self"})
      ps  == sig.decl.c[6].c
      s0  == [scopes |-> <<[n \in {ps[i].c[1].n : i \in DOMAIN ps} |->
                 [ty |-> sig.body[CHOOSE i \in DOMAIN ps : ps[i].c[1].n = n], mutable |-> n = "self" /\ sig.recv = "mut"]]>>,
              errs |-> {}, ret |-> sig.ret, loops |-> 0, unsafe |-> FALSE, known |-> known, bounds |-> sig.bounds,
              want |-> <<>>, sub |-> Empty, lit |-> Unknown, negated |-> FALSE, hint |-> sig.ret, scrut |-> Unknown]
  IN  after(infer(P, sig.decl.c[8], s0), LAMBDA r :
        after(resolve_against_expected(sig.ret, r.e.t, known), LAMBDA t :
          [body |-> IF r.e.c # <<>> /\ Last(r.e.c).k = "tail"
                    THEN [r.e EXCEPT !.c[Len(r.e.c)] = recache(@, t), !.c[Len(r.e.c)].c[1] = recache(@, t)] ELSE r.e,
           errs |-> r.s.errs \cup check_return([ret |-> sig.ret], t)]))
=============================================================================
