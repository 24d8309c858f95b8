------------------------------- MODULE Layout -------------------------------
(***************************************************************************)
(* The bytes of a value (paco-mir/src/layout.rs, type_layout.rs) and which *)
(* types own something that must be released (glue.rs).                    *)
(*                                                                         *)
(* A layout is its size, its alignment and the offsets of its fields in    *)
(* the order of their declaration.  The caches and the guard against a     *)
(* type that contains itself are left out: no program here declares one.   *)
(***************************************************************************)
EXTENDS Infer

DISCRIMINANT_SIZE == 8
ByteCount(w)   == IF w \in {"i8", "u8"} THEN 1 ELSE 8
Sized(size, align) == [size |-> size, align |-> align, at |-> <<>>]
scalar_layout(t) ==
  CASE t.k \in {"Unit", "Never"} -> Sized(0, 1)
    [] t.k = "Bool"   -> Sized(1, 1)
    [] t.k = "Int"    -> Sized(ByteCount(t.n), ByteCount(t.n))
    [] t.k = "Char"   -> Sized(4, 4)
    [] t.k = "String" -> Sized(16, 8)
    [] OTHER          -> Sized(8, 8)

align_up(offset, align) == ((offset + align - 1) \div align) * align
\* The order fields are laid out in: the largest alignment first, unless the layout is C's.
Ordered(fields, c) ==
  IF c THEN Indices(fields)
  ELSE SortSeq(Indices(fields), LAMBDA i, j : fields[i].align > fields[j].align \/ (fields[i].align = fields[j].align /\ i < j))
\* Faulty: no padding.
struct_layout_unpadded(fields, c) ==
  LET put(l, i) == [size |-> l.size + fields[i].size, align |-> IF fields[i].align > l.align THEN fields[i].align ELSE l.align,
                    at |-> [l.at EXCEPT ![i] = l.size]]
  IN  FoldLeft(put, [size |-> 0, align |-> 1, at |-> [i \in DOMAIN fields |-> 0]], Ordered(fields, c))
struct_layout(fields, c) ==
  LET put(l, i) == [size  |-> align_up(l.size, fields[i].align) + fields[i].size,
                    align |-> IF fields[i].align > l.align THEN fields[i].align ELSE l.align,
                    at    |-> [l.at EXCEPT ![i] = align_up(l.size, fields[i].align)]]
      all == FoldLeft(put, [size |-> 0, align |-> 1, at |-> [i \in DOMAIN fields |-> 0]], Ordered(fields, c))
  IN  [all EXCEPT !.size = align_up(all.size, all.align)]

\* A type with a `drop` of its own has one more byte, which says that the value is there.
has_drop(P, n) == <<n, "drop">> \in DOMAIN P.methods \cup DOMAIN P.associated
FieldTypes(P, t) == [i \in DOMAIN P.types[t.n].fields |-> instantiate_ty(P, P.types[t.n].fields[i].ty, t)]
VariantTypes(P, t) == [i \in DOMAIN P.types[t.n].variants |-> variant_field_types(P, t, P.types[t.n].variants[i].n)]
Largest(ns) == CHOOSE n \in ns : \A o \in ns : o <= n
enum_info(P, t, payloads) ==
  LET size  == DISCRIMINANT_SIZE + Largest({p.size : p \in ToSet(payloads)} \cup {0})
      align == Largest({p.align : p \in ToSet(payloads)} \cup {DISCRIMINANT_SIZE})
  IN  [size |-> align_up(size + (IF has_drop(P, t.n) THEN 1 ELSE 0), align), align |-> align, live |-> size,
       at |-> [v \in DOMAIN payloads |-> [i \in DOMAIN payloads[v].at |-> payloads[v].at[i] + DISCRIMINANT_SIZE]]]
RECURSIVE layout_of(_, _)
layout_of(P, t) ==
  LET all(ts) == [i \in DOMAIN ts |-> layout_of(P, ts[i])]
  IN  CASE t.k = "Struct" -> struct_layout(all(FieldTypes(P, t)) \o (IF has_drop(P, t.n) THEN <<Sized(1, 1)>> ELSE <<>>), FALSE)
        [] t.k = "Tuple"  -> struct_layout(all(t.a), TRUE)
        [] t.k = "Enum"   -> after(VariantTypes(P, t), LAMBDA vs :
                               enum_info(P, t, [v \in DOMAIN vs |-> struct_layout(all(vs[v]), TRUE)]))
        [] OTHER          -> scalar_layout(t)
size_of(P, t)    == layout_of(P, t).size
live_offset(P, t) == IF t.k = "Enum" THEN layout_of(P, t).live ELSE Last(layout_of(P, t).at)

\* The fields of a struct or tuple, or of variant v of an enum, with their offsets.
Placed(ts, at) == [i \in DOMAIN ts |-> [ty |-> ts[i], at |-> at[i]]]
glue_fields(P, t)    == Placed(IF t.k = "Struct" THEN FieldTypes(P, t) ELSE t.a, layout_of(P, t).at)
enum_variant(P, t, v) == Placed(VariantTypes(P, t)[v], layout_of(P, t).at[v])
field_of(P, t, s) ==
  IF s.k = "item" THEN glue_fields(P, Strip(t))[s.i]
  ELSE glue_fields(P, Strip(t))[CHOOSE i \in DOMAIN P.types[Strip(t).n].fields : P.types[Strip(t).n].fields[i].n = s.n]
enum_variant_index(P, t, v) == (CHOOSE i \in DOMAIN P.types[t.n].variants : P.types[t.n].variants[i].n = v) - 1
variant_field(P, t, v, i) == enum_variant(P, Strip(t), enum_variant_index(P, Strip(t), v) + 1)[i]

children(P, t) == CASE t.k = "Struct" -> ToSet(FieldTypes(P, t))
                    [] t.k = "Enum"   -> UNION {ToSet(ts) : ts \in ToSet(VariantTypes(P, t))}
                    [] t.k = "Tuple"  -> ToSet(t.a)
                    [] OTHER          -> {}
=============================================================================
