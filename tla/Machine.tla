------------------------------ MODULE Machine -------------------------------
(***************************************************************************)
(* The compile-time machine (paco-comptime/src/machine.rs): it runs MIR    *)
(* over the memory of module Memory, with a drop flag for every local     *)
(* that owns something.  Every local has an allocation of its own, and     *)
(* `m.v` holds bytes.                                                      *)
(*                                                                         *)
(* Floats, slices, closures, cells, printing, text built-ins and quoted    *)
(* code are left out.                                                      *)
(***************************************************************************)
EXTENDS Memory

CONSTANTS Instructions,      \* Limits::instructions
          CallDepth          \* Limits::call_depth
ASSUME LimitsAssumption == Instructions \in Nat /\ CallDepth \in Nat

\* A place is walked from the slot of its local.  The slot of a local that is neither an aggregate
\* nor borrowed holds the address of what the path goes on in; `*` reads an address on the way.
Inside(n, l) == IF is_real_aggregate(LocalTy(n, l)) \/ l \in frame(n).borrowed THEN frame(n).locals[l]
                ELSE read_u64(n, frame(n).locals[l])
located(n, p) ==
  FoldLeft(LAMBDA at, s : IF s.k = "deref" THEN [a |-> read_u64(n, at.a), ty |-> s.ty, in |-> FALSE]
                          ELSE after(projected(at.ty, s), LAMBDA fd :
                                 [a |-> (IF at.in THEN Inside(n, p.l) ELSE at.a) + fd.at, ty |-> fd.ty, in |-> FALSE]),
           [a |-> frame(n).locals[p.l], ty |-> LocalTy(n, p.l), in |-> TRUE], p.path)
place_address(n, p) == IF p.path = <<>> THEN Inside(n, p.l) ELSE located(n, p).a
read_place(n, p)    == after(located(n, p), LAMBDA at : read(n, at.a, size_of(program, at.ty)))

constant(n, c) ==
  CASE c.ty = Text -> after(interned(n, c.v), LAMBDA t : [t EXCEPT !.v = Descriptor(t.statics[c.v], c.v)])
    [] c.ty.k = "Int" -> [n EXCEPT !.v = encode(int_bytes(c.v, c.ty.n), ByteCount(c.ty.n))]
    [] c.ty = Bool    -> [n EXCEPT !.v = encode(Flag(c.v), 1)]
    [] OTHER          -> [n EXCEPT !.v = <<>>]
operand(n, o) == IF o.k = "Const" THEN constant(n, o) ELSE returns(n, read_place(n, o.p))

-----------------------------------------------------------------------------
\* Clones and moves.
\* clone_at: the copy at `a` gets memory of its own.
RECURSIVE clone_at(_, _, _)
clone_at(n, t, a) ==
  CASE ~needs_drop(t) -> n
    [] t.k = "String" -> after(read(n, read_u64(n, a), read_u64(n, a + 8)), LAMBDA bs :
                           IF bs = Broken THEN fail(n, "memory")
                           ELSE after(alloc(n, bs, FALSE), LAMBDA c : write(c, a, encode(Newly(c), 8))))
    [] needs_drop(t) /\ t.k # "String" ->
         FoldLeft(LAMBDA c, fd : clone_at(c, fd.ty, a + fd.at), IF user_drop(t) THEN [n EXCEPT !.built = @ + 1] ELSE n, OwnedFields(n, t, a))
clone_value(n, t) ==
  IF ~needs_drop(t) THEN n
  ELSE after(alloc(n, n.v, FALSE), LAMBDA c :
         after(clone_at(c, t, Newly(c)), LAMBDA d : free(returns(d, read(d, Newly(c), Len(n.v))), Newly(c))))

\* owned_operand: a move out of a local takes what it owns; anything else is copied.
Taken(n, o) ==
  CASE o.k # "Move" -> 0
    [] o.k = "Move" /\ o.p.path = <<>> -> o.p.l
    [] OTHER -> IF Len(o.p.path) = 1 /\ o.p.path[1].k = "variant" /\ o.p.l \in bodies[frame(n).f].tries THEN o.p.l ELSE 0
owned_operand(n, r, o, t) ==
  CASE ~needs_drop(t) -> r
    [] needs_drop(t) /\ Taken(n, o) # 0 -> set_flag(r, Taken(n, o), FALSE)
    [] OTHER -> clone_value(r, t)
\* owned_as: where a value is expected, a borrow of one stands for a copy of it.
owned_as(n, o, expected) ==
  unless(operand(n, o), LAMBDA r :
    after(operand_ty(n, o), LAMBDA t :
      IF t.k = "Borrow" /\ t.a[1] = expected
      THEN unless(returns(r, read(r, decode(r.v), size_of(program, expected))), LAMBDA d : clone_value(d, expected))
      ELSE owned_operand(n, r, o, t)))

-----------------------------------------------------------------------------
\* Work: what a statement has left to do.
DropAt(t, a)  == Item_("drop", t, a, 0, <<>>)
Glue(t, a)    == Item_("glue", t, a, 0, <<>>)
SetFlag(l, on) == Item_(IF on THEN "own" ELSE "disown", Unit, 0, l, <<>>)
WriteAt(a, v) == Item_("write", Unit, a, 0, v)
Leave_(v)     == Item_("return", Unit, 0, 0, v)

release_local(n, l) == IF frame(n).flags[l] THEN <<DropAt(LocalTy(n, l), frame(n).locals[l]), SetFlag(l, FALSE)>> ELSE <<>>
drop_all_owned(n) == FlattenSeq(Reverse([l \in DOMAIN frame(n).flags |-> release_local(n, l)]))
write_place(n, p, v) ==
  after(located(n, p), LAMBDA at :
    IF p.path = <<>>
    THEN release_local(n, p.l) \o <<WriteAt(at.a, v)>> \o (IF needs_drop(at.ty) THEN <<SetFlag(p.l, TRUE)>> ELSE <<>>)
    ELSE (IF needs_drop(at.ty) THEN <<DropAt(at.ty, at.a)>> ELSE <<>>) \o <<WriteAt(at.a, v)>>)

call(n, f, args, dst) ==
  IF f \notin DOMAIN bodies THEN fail(n, "body")
  ELSE IF Top_(n) >= CallDepth THEN fail(n, "depth")
  ELSE LET b == bodies[f]
           initial(l) == IF l <= b.params THEN args[l] ELSE Zeros(size_of(program, b.locals[l]))
       IN  [n EXCEPT
              !.mem = @ \o [l \in DOMAIN b.locals |-> [bytes |-> initial(l), freed |-> FALSE, fixed |-> FALSE]],
              !.frames = Append(@, [f |-> f, locals |-> [l \in DOMAIN b.locals |-> (Len(n.mem) + l) * Page],
                                    flags |-> [l \in DOMAIN b.locals |-> l <= b.params /\ needs_drop(b.locals[l])],
                                    borrowed |-> borrowed_locals(b), scratch |-> <<>>, block |-> 1, i |-> 1,
                                    work |-> <<>>, dst |-> dst])]
\* The frame is left: its locals are freed, and the caller writes the result where it belongs.
leave(n, v) ==
  after(FoldLeft(free, [n EXCEPT !.frames = Front(@)], frame(n).locals \o frame(n).scratch), LAMBDA r :
    IF r.frames = <<>> THEN [r EXCEPT !.v = v]
    ELSE IF frame(n).dst = <<>> THEN r ELSE then_(r, write_place(r, frame(n).dst[1], v)))

\* drop_at: the user's `drop` first, if the value is there, then what the value owns.
drop_at(n, t, a) ==
  IF ~needs_drop(t) THEN n
  ELSE IF user_drop(t) /\ read(n, a + live_offset(program, t), 1) # Zeros(1)
  THEN call(then_([n EXCEPT !.dropped = @ + 1], <<Glue(t, a)>>), mangled_name(<<t.n, "drop">>, t.a), <<encode(a, 8)>>, <<>>)
  ELSE then_(n, <<Glue(t, a)>>)
glue(n, t, a) ==
  IF t.k = "String" THEN free(n, read_u64(n, a))
  ELSE after(OwnedFields(n, t, a), LAMBDA fields : then_(n, [i \in DOMAIN fields |-> DropAt(fields[i].ty, a + fields[i].at)]))
do(n, w) ==
  CASE w.w = "drop"   -> drop_at(n, w.ty, w.a)
    [] w.w = "glue"   -> glue(n, w.ty, w.a)
    [] w.w = "own"    -> set_flag(n, w.l, TRUE)
    [] w.w = "disown" -> set_flag(n, w.l, FALSE)
    [] w.w = "write"  -> write(n, w.a, w.v)
    [] w.w = "return" -> leave(n, w.v)
\* All the work up to a call of `drop`.
RECURSIVE settle(_)
settle(n) ==
  IF n.err # "" \/ n.frames = <<>> THEN n
  ELSE IF frame(n).work = <<>> THEN n
  ELSE after(do([n EXCEPT !.frames[Top_(n)].work = Tail(@)], Head(frame(n).work)), LAMBDA r :
         IF Top_(r) > Top_(n) THEN r ELSE settle(r))

-----------------------------------------------------------------------------
\* Rvalues.
\* The text of an operand, through a borrow if it is one.
Text_(n, o) ==
  after(IF operand_ty(n, o).k = "Borrow" THEN decode(n.v) ELSE 0, LAMBDA at :
    after(IF at # 0 THEN read(n, at, 16) ELSE n.v, LAMBDA d :
      IF Len(d) # 16 THEN Broken ELSE read(n, decode(SubSeq(d, 1, 8)), decode(SubSeq(d, 9, 16)))))
string_op(n, op, l, r) ==
  CASE l = Broken \/ r = Broken -> fail(n, "memory")
    [] l # Broken /\ r # Broken /\ op \in {"==", "!="} -> [n EXCEPT !.v = encode(Flag((l = r) = (op = "==")), 1)]
    [] OTHER -> fail(n, "operator")
outcome(n, result, size) == after(result, LAMBDA o : IF o.ok THEN [n EXCEPT !.v = encode(o.v, size)] ELSE fail(n, "panic"))
Logical == {"==", "!=", "<", "<=", ">", ">="} \cup DOMAIN OverflowOps
ints(n, op, l, r, t, by) ==
  CASE t.k = "Int" ->
         outcome(n, int_binary(op, int_value(decode(l), t.n), int_value(decode(r), IF op \in {"<<", ">>"} /\ by.k = "Int" THEN by.n ELSE t.n), t.n, bodies[frame(n).f].debug),
                 IF op \in Logical THEN 1 ELSE ByteCount(t.n))
    [] t.k # "Int" /\ op \in {"==", "!="} -> [n EXCEPT !.v = encode(Flag((decode(l) = decode(r)) = (op = "==")), 1)]
    [] OTHER -> fail(n, "operator")
binary_op(n, op, l, r) ==
  unless(operand(n, l), LAMBDA x :
    unless(operand(x, r), LAMBDA y :
      IF Strip(operand_ty(n, l)) = Text THEN string_op(y, op, Text_(x, l), Text_(y, r))
      ELSE ints(y, op, x.v, y.v, operand_ty(n, l), operand_ty(n, r))))
\* The operands in order, each as its field or parameter takes it, with the values so far in `got`.
Collect(n, os, Take(_, _)) ==
  FoldLeft(LAMBDA r, i : unless(Take(r, i), LAMBDA t : [t EXCEPT !.got = Append(@, t.v)]), [n EXCEPT !.got = <<>>], Indices(os))
Filled(bs, at, v) == [i \in DOMAIN bs |-> IF i - at \in DOMAIN v THEN v[i - at] ELSE bs[i]]
Blank(t, v) ==
  after(Zeros(size_of(program, t)), LAMBDA bs :
    after(IF t.k = "Enum" THEN Filled(bs, 0, encode(enum_variant_index(program, t, v), 8)) ELSE bs, LAMBDA tagged :
      IF t.k \in Nominal /\ has_drop(program, t.n) THEN Filled(tagged, live_offset(program, t), encode(1, 1)) ELSE tagged))
FieldsOf(t, v) == IF t.k = "Enum" THEN enum_variant(program, t, enum_variant_index(program, t, v) + 1) ELSE glue_fields(program, t)
\* Only a field of a struct takes a copy of what is borrowed.
aggregate(n, t, v, os) ==
  after(FieldsOf(t, v), LAMBDA fields :
    unless(Collect(n, os, LAMBDA r, i : owned_as(r, os[i], IF t.k = "Struct" THEN fields[i].ty ELSE Never)), LAMBDA r :
      [r EXCEPT !.v = FoldLeft(LAMBDA bs, i : Filled(bs, fields[i].at, r.got[i]), Blank(t, v), Indices(os)),
                !.built = IF user_drop(t) THEN @ + 1 ELSE @]))
rvalue(n, r) ==
  CASE r.r \in {"UnaryOp", "Cast"} -> unless(operand(n, r.a[1]), LAMBDA x :
                            after(decode(x.v), LAMBDA raw : after(operand_ty(n, r.a[1]), LAMBDA t :
                              IF r.r = "Cast" THEN [x EXCEPT !.v = encode(cast(raw, t, r.ty), ByteCount(r.ty.n))]
                              ELSE outcome(x, unary(r.o, raw, t, bodies[frame(n).f].debug), Len(x.v)))))
    [] r.r = "BinaryOp"  -> binary_op(n, r.o, r.a[1], r.a[2])
    [] r.r = "Aggregate" -> aggregate(n, r.ty, r.o, r.a)
    [] r.r = "Discriminant" -> returns(n, read(n, place_address(n, r.p), 8))
    [] r.r = "Ref"       -> after(place_address(n, r.p), LAMBDA a :
                              IF a < Page THEN fail(n, "memory") ELSE [n EXCEPT !.v = encode(a, 8)])

-----------------------------------------------------------------------------
\* Statements and terminators.
\* Faulty: the instruction is not counted.
tick_uncounted(n) == IF n.executed >= Instructions THEN fail(n, "budget") ELSE n
tick(n) == IF n.executed >= Instructions THEN fail(n, "budget") ELSE [n EXCEPT !.executed = @ + 1]
statement(n, s) ==
  CASE s.s = "Drop" -> then_(n, release_local(n, s.p.l))
    [] s.s = "Assign" /\ s.p.path = <<>> /\ LocalTy(n, s.p.l) \in {Unit, Never} -> n
    [] OTHER -> unless(IF s.r.r = "Use" THEN owned_as(n, s.r.a[1], place_ty(n, s.p)) ELSE rvalue(n, s.r), LAMBDA r :
                  then_(r, write_place(r, s.p, r.v)))
switch_int(n, t) ==
  unless(operand(n, t.d), LAMBDA r :
    after(operand_ty(n, t.d), LAMBDA ty :
      after(SelectSeq(t.targets, LAMBDA c : int_bytes(c[1], IF ty.k = "Int" THEN ty.n ELSE "u8") = decode(r.v)), LAMBDA hits :
        jump(r, IF hits = <<>> THEN t.otherwise ELSE hits[1][2]))))
\* A parameter that is a borrow gets the address of an argument that is not.
argument(n, o, param) ==
  IF param.k = "Borrow" /\ operand_ty(n, o).k # "Borrow"
  THEN IF o.k = "Const"
       THEN after(constant(n, o), LAMBDA r :
              after(alloc(r, r.v, FALSE), LAMBDA s :
                [s EXCEPT !.frames[Top_(s)].scratch = Append(@, Newly(s)), !.v = encode(Newly(s), 8)]))
       ELSE [n EXCEPT !.v = encode(place_address(n, o.p), 8)]
  ELSE owned_as(n, o, param)
call_terminator(n, t) ==
  IF t.f = PANIC_SYMBOL THEN fail(n, "panic")
  ELSE IF t.f \notin DOMAIN bodies THEN fail(n, "body")
  ELSE unless(Collect(n, t.args, LAMBDA r, i : argument(r, t.args[i], bodies[t.f].locals[i])), LAMBDA r :
         call(jump(r, t.resume), t.f, r.got, t.dst))
return_from(n, o) ==
  LET ret == bodies[frame(n).f].ret
  IN  IF ret # Unit /\ o.k = "Const" /\ o.ty = Unit THEN fail(n, "no value")
      ELSE unless(IF ret = Unit THEN [n EXCEPT !.v = <<>>] ELSE owned_as(n, o, ret), LAMBDA r :
             then_(r, drop_all_owned(r) \o <<Leave_(r.v)>>))
terminator(n, t) ==
  CASE t.t = "Goto"        -> jump(n, t.to)
    [] t.t = "SwitchInt"   -> switch_int(n, t)
    [] t.t = "Call"        -> call_terminator(n, t)
    [] t.t = "Return"      -> return_from(n, t.a)
    [] t.t = "Unreachable" -> fail(n, "unreachable")

-----------------------------------------------------------------------------
\* run_frame: one statement, or the terminator after the last.
Statement  == /\ Running /\ frame(m).i <= Len(Data(m).ss)
              /\ m' = settle(unless(tick([m EXCEPT !.frames[Top_(m)].i = @ + 1]), LAMBDA n : statement(n, Data(m).ss[frame(m).i])))
Terminator == /\ Running /\ frame(m).i > Len(Data(m).ss)
              /\ m' = settle(unless(tick(m), LAMBDA n : terminator(n, Data(m).t)))

\* decode: the value the bytes `bs` of type t stand for.
RECURSIVE Value(_, _, _)
Value(n, t, bs) ==
  LET part(fd) == Value(n, fd.ty, SubSeq(bs, fd.at + 1, fd.at + size_of(program, fd.ty)))
      parts(fields) == [i \in DOMAIN fields |-> part(fields[i])]
  IN  CASE t.k = "Int"  -> Val(t.n, int_value(decode(bs), t.n), <<>>)
        [] t.k = "Bool" -> Val("bool", decode(bs), <<>>)
        [] t.k = "String" -> TextVal(Len(read(n, decode(SubSeq(bs, 1, 8)), decode(SubSeq(bs, 9, 16)))))
        [] t.k \in {"Struct", "Tuple"} -> Val("data", 0, parts(glue_fields(program, t)))
        [] t.k = "Enum" -> after(decode(SubSeq(bs, 1, 8)), LAMBDA tag : Val("data", tag, parts(enum_variant(program, t, tag + 1))))
        [] OTHER -> UnitVal
=============================================================================
