-------------------------------- MODULE Types --------------------------------
(***************************************************************************)
(* Types and their comparison in the type checker (paco-types/src/lib.rs): *)
(* substitution of type parameters, unification, compatibility, the join   *)
(* of two branches, and the tables of declared items.                      *)
(*                                                                         *)
(* A type is [k, n, a]: its kind, its name (the width of an integer, the   *)
(* name of a struct, "mut" of a borrow) and its component types, the       *)
(* result last in a function's.  Dimensions and floats are left out: no    *)
(* name is an atom (dims.rs) and `subsume_dyn`, `open_binding` and their   *)
(* kin return the type they are given.                                     *)
(***************************************************************************)
EXTENDS Integers, SequencesExt, TLC

\* F of a value computed once.
after(v, F(_)) == F(v)

Ty(kd, n, a)   == [k |-> kd, n |-> n, a |-> a]
IntTy(w)         == Ty("Int", w, <<>>)
Bool           == Ty("Bool", "", <<>>)
Text           == Ty("String", "", <<>>)
Char           == Ty("Char", "", <<>>)
Unit           == Ty("Unit", "", <<>>)
Never          == Ty("Never", "", <<>>)
Unknown        == Ty("Unknown", "", <<>>)
Error          == Ty("Error", "", <<>>)
Generic(g)     == Ty("Generic", g, <<>>)
Tuple(ts)      == Ty("Tuple", "", ts)
Borrow(m, t)   == Ty("Borrow", m, <<t>>)
Fn(ps, r)      == Ty("Fn", "", Append(ps, r))
Option(t)      == Ty("Enum", "Option", <<t>>)

Widths         == {"i8", "i64", "u8", "u64"}
is_signed(w)   == w \in {"i8", "i64"}
Wildcard(t)    == t.k \in {"Unknown", "Error"}
Strip(t)       == IF t.k = "Borrow" THEN t.a[1] ELSE t
Nominal        == {"Struct", "Enum"}
Empty          == [g \in {} |-> Unit]
Bound(sub, g, t) == (g :> t) @@ sub

\* A value (ComptimeValue) is [t, n, a]: its kind (the width of an integer, "bool", "text", "data" or
\* "unit"), its number (the variant of an enum, from 0) and its components.
Val(t, n, a)   == [t |-> t, n |-> n, a |-> a]
UnitVal        == Val("unit", 0, <<>>)
BoolVal(b)     == Val("bool", IF b THEN 1 ELSE 0, <<>>)
TextVal(len)   == Val("text", 0, [i \in 1..len |-> UnitVal])

target_type_name(t) ==
  CASE t.k \in Nominal -> t.n
    [] t.k = "Int"     -> t.n
    [] t.k \in {"Bool", "String", "Char"} -> t.k
    [] OTHER           -> "none"
nominal_generic_args(t) == IF t.k \in Nominal THEN t.a ELSE <<>>
generic_substitutions(gs) == [g \in ToSet(gs) |-> Generic(g)]

-----------------------------------------------------------------------------
\* compatible: equal up to what is unknown.  A function type is compared as a whole.
RECURSIVE compatible(_, _)
compatible(actual, expected) ==
  \/ actual = expected
  \/ Wildcard(actual) \/ Wildcard(expected)
  \/ /\ actual.k = expected.k /\ actual.n = expected.n /\ Len(actual.a) = Len(expected.a)
     /\ actual.k \in Nominal \cup {"Tuple", "Borrow"}
     /\ \A i \in DOMAIN actual.a : compatible(actual.a[i], expected.a[i])

\* substitute_generics: a parameter inside its own binding is not replaced again.
RECURSIVE substituting(_, _, _)
substituting(t, sub, within) ==
  IF t.k # "Generic" THEN [t EXCEPT !.a = [i \in DOMAIN @ |-> substituting(@[i], sub, within)]]
  ELSE IF t.n \notin DOMAIN sub THEN t
  ELSE IF sub[t.n] = t \/ t.n \in within THEN sub[t.n]
  ELSE substituting(sub[t.n], sub, within \cup {t.n})
substitute_generics(t, sub) == substituting(t, sub, {})

\* unify_type.  A parameter bound to another parameter counts as unbound (is_bound).
is_bound(g, sub) == g \in DOMAIN sub /\ sub[g].k # "Generic"
Agreed(sub)  == [ok |-> TRUE, sub |-> sub]
Refused(sub) == [ok |-> FALSE, sub |-> sub]
RECURSIVE unify_type(_, _, _)
unify_type(expected, actual, sub) ==
  CASE expected.k = "Generic" ->
         IF ~is_bound(expected.n, sub) THEN Agreed(Bound(sub, expected.n, actual))
         ELSE IF compatible(actual, sub[expected.n]) THEN Agreed(sub)
         ELSE unify_type(sub[expected.n], actual, sub)
    [] expected.k # "Generic" /\ actual.k = "Generic" ->
         IF ~is_bound(actual.n, sub) THEN Agreed(Bound(sub, actual.n, expected))
         ELSE IF compatible(expected, sub[actual.n]) THEN Agreed(sub)
         ELSE unify_type(sub[actual.n], expected, sub)
    [] expected.k = actual.k /\ actual.k \in Nominal \cup {"Tuple", "Borrow", "Fn"} ->
         IF expected.n # actual.n \/ Len(expected.a) # Len(actual.a) THEN Refused(sub)
         ELSE FoldLeft(LAMBDA r, i : IF r.ok THEN unify_type(expected.a[i], actual.a[i], r.sub) ELSE r,
                       Agreed(sub), [i \in DOMAIN actual.a |-> i])
    [] OTHER -> [ok |-> compatible(actual, expected), sub |-> sub]

\* A parameter that is neither one of the caller's nor bound yet.
RECURSIVE type_has_foreign_generic(_, _)
type_has_foreign_generic(t, known) ==
  \/ t.k = "Generic" /\ t.n \notin known
  \/ t.k # "Fn" /\ \E i \in DOMAIN t.a : type_has_foreign_generic(t.a[i], known)

\* fresh_enum_params renames a variant's parameters: `T` of `Option` is `T#Option`.
Renamed(g, en) == g \o "#" \o en
Fresh == {Renamed(g, en) : g \in {"T", "U", "E"}, en \in {"Option", "Result", "Color"}}
fresh_enum_params(t) ==
  IF t.k # "Enum" THEN t
  ELSE [t EXCEPT !.a = [i \in DOMAIN @ |-> IF @[i].k = "Generic" THEN Generic(Renamed(@[i].n, t.n)) ELSE @[i]]]
RECURSIVE has_unbound_variant_param(_)
has_unbound_variant_param(t) ==
  \/ t.k = "Generic" /\ t.n \in Fresh
  \/ t.k # "Fn" /\ \E i \in DOMAIN t.a : has_unbound_variant_param(t.a[i])

resolve_against_expected(expected, actual, known) ==
  LET sub      == unify_type(expected, actual, Empty).sub
      resolved == substitute_generics(actual, [g \in DOMAIN sub \ known |-> sub[g]])
  IN  IF type_has_foreign_generic(resolved, known) THEN expected ELSE resolved

\* The type of two branches; Error where they do not agree.
join_branch_types(left, right, known) ==
  LET unresolved(t) == has_unbound_variant_param(t) \/ type_has_foreign_generic(t, known)
      there == unify_type(left, right, Empty)
      back  == unify_type(right, left, there.sub)
  IN  CASE compatible(left, right) -> left
        [] ~compatible(left, right) /\ left = Never  -> right
        [] ~compatible(left, right) /\ left # Never /\ right = Never -> left
        [] OTHER -> IF (unresolved(left) \/ unresolved(right)) /\ there.ok /\ back.ok
                    THEN substitute_generics(IF unresolved(left) THEN right ELSE left, back.sub)
                    ELSE Error

-----------------------------------------------------------------------------
\* The items of a program: P.types, P.functions, P.methods, P.associated, P.traits.
generic_names(generics) == [i \in DOMAIN generics.c |-> generics.c[i].c[1].n]
param_bounds(generics) ==
  [g \in {generics.c[i].c[1].n : i \in DOMAIN generics.c} |->
     LET p == CHOOSE i \in DOMAIN generics.c : generics.c[i].c[1].n = g
     IN  {generics.c[p].c[j].c[1].n : j \in 2 .. Len(generics.c[p].c)}]

Primitive == [w \in Widths |-> IntTy(w)] @@ ("bool" :> Bool) @@ ("string" :> Text) @@ ("char" :> Char)
\* ty_from_ast: the type a type expression names, Error where there is none.
RECURSIVE ty_from_ast(_, _, _)
ty_from_ast(types, t, env) ==
  LET name == t.c[1].n
  IN  CASE t.k = "path" ->
             IF name \in DOMAIN Primitive THEN Primitive[name]
             ELSE IF name \in DOMAIN env THEN env[name]
             ELSE IF name \in DOMAIN types
             THEN Ty(types[name].k, name, [i \in DOMAIN types[name].generics |-> Generic(types[name].generics[i])])
             ELSE Error
        [] t.k = "tyGen" ->
             LET of == t.c[1].c[1].n
             IN  IF of \in DOMAIN types /\ Len(types[of].generics) = Len(t.c[2].c)
                 THEN Ty(types[of].k, of, [i \in DOMAIN t.c[2].c |-> ty_from_ast(types, t.c[2].c[i], env)])
                 ELSE Error
        [] t.k = "tyTuple" -> IF t.c = <<>> THEN Unit ELSE Tuple([i \in DOMAIN t.c |-> ty_from_ast(types, t.c[i], env)])
        [] t.k = "tyRef"   -> Borrow(IF t.c[2].k = "mut" THEN "mut" ELSE "", ty_from_ast(types, t.c[3], env))
        [] t.k = "tyFn"    -> Fn([i \in DOMAIN t.c[3].c |-> ty_from_ast(types, t.c[3].c[i], env)],
                                 IF t.c[4].k = "none" THEN Unit ELSE ty_from_ast(types, t.c[4], env))
        [] OTHER -> Error
=============================================================================
