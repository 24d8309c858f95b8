------------------------------- MODULE Native -------------------------------
(***************************************************************************)
(* The code the generators emit for MIR (paco-codegen-cranelift/src/lib.rs *)
(* and drop.rs, paco-codegen-llvm/src/codegen.rs and glue.rs), by what it  *)
(* does when it runs.  A definition has the name it has in the Cranelift   *)
(* generator; the LLVM one emits the same, except for arithmetic.          *)
(*                                                                         *)
(* A value is one word: the bits of a scalar, or the address of a struct,  *)
(* enum, tuple or text, which lives in a stack slot.  `m.v` holds it.  A   *)
(* slot starts with whatever was on the stack; those of a statement are    *)
(* made once per call, so a loop uses them again, and all are gone when    *)
(* the function returns.  An aggregate is returned through an address the  *)
(* caller passes.                                                          *)
(*                                                                         *)
(* Left out: floats, slices, cells, closures, printing, debug information. *)
(***************************************************************************)
EXTENDS Memory

Backends == {"cranelift", "llvm"}

ssa(n, v)  == [n EXCEPT !.v = <<v>>]
Got(n)     == n.v[1]
Uninit(size) == [i \in 1..size |-> <<Garbage, 1, 1>>]
\* A load of bytes nobody wrote, or of what is no longer there, is a fault.
load(n, t, a) == after(decode(read(n, a, size_of(program, t))), LAMBDA v : IF v = Garbage THEN fail(n, "memory") ELSE ssa(n, v))
store(n, t, a, v) == write(n, a, encode(v, size_of(program, t)))
copy_words(n, src, dest, size) ==
  after(read(n, src, size), LAMBDA bs : IF bs = Broken THEN fail(n, "memory") ELSE write(n, dest, bs))
\* Faulty: a text is stored as if its address were the value.
store_field_scalar(n, v, t, a) == IF t.k \in {"Struct", "Enum", "Tuple"} THEN copy_words(n, v, a, size_of(program, t)) ELSE store(n, t, a, v)
store_field(n, v, t, a) == IF is_real_aggregate(t) THEN copy_words(n, v, a, size_of(program, t)) ELSE store(n, t, a, v)

\* The nth slot that this statement of the function asks for.
allocate_stack_slot(n, size) ==
  after(<<frame(n).block, frame(n).i, frame(n).nth>>, LAMBDA site :
    after([n EXCEPT !.frames[Top_(n)].nth = @ + 1], LAMBDA r :
      after(SelectSeq(frame(n).slots, LAMBDA s : s.site = site), LAMBDA made :
        IF made # <<>> THEN ssa(r, made[1].a)
        ELSE after(alloc(r, Uninit(size), FALSE), LAMBDA s :
               ssa([s EXCEPT !.frames[Top_(n)].slots = Append(@, [site |-> site, a |-> Newly(s)])], Newly(s))))))

-----------------------------------------------------------------------------
\* Locals and places.
LocalStorage(b, l) ==
  CASE b.locals[l] \in {Unit, Never}     -> "unit"
    [] is_real_aggregate(b.locals[l])    -> "aggregate"
    [] OTHER -> IF l \in borrowed_locals(b) THEN "stack" ELSE "register"
Storage(n, l) == LocalStorage(bodies[frame(n).f], l)

\* The value of a register stands for the address of what it points to.
place_address(n, p) ==
  FoldLeft(LAMBDA at, s : IF s.k = "deref" THEN [a |-> IF at.reg THEN at.a ELSE read_u64(n, at.a), ty |-> s.ty, reg |-> FALSE]
                          ELSE after(projected(at.ty, s), LAMBDA fd : [a |-> at.a + fd.at, ty |-> fd.ty, reg |-> FALSE]),
           IF Storage(n, p.l) = "register" THEN [a |-> frame(n).regs[p.l], ty |-> LocalTy(n, p.l), reg |-> TRUE]
           ELSE [a |-> frame(n).locals[p.l], ty |-> LocalTy(n, p.l), reg |-> FALSE], p.path)
read_place(n, p) ==
  after(place_address(n, p), LAMBDA at :
    CASE at.reg -> IF at.a = Garbage THEN fail(n, "memory") ELSE ssa(n, at.a)
      [] ~at.reg /\ is_real_aggregate(at.ty) -> ssa(n, at.a)
      [] ~at.reg /\ at.ty \in {Unit, Never}  -> fail(n, "codegen")
      [] OTHER -> load(n, at.ty, at.a))
write_place_unowned(n, l, v) ==
  CASE Storage(n, l) = "register"  -> [n EXCEPT !.frames[Top_(n)].regs[l] = v]
    [] Storage(n, l) = "stack"     -> store(n, LocalTy(n, l), frame(n).locals[l], v)
    [] Storage(n, l) = "aggregate" -> copy_words(n, v, frame(n).locals[l], size_of(program, LocalTy(n, l)))
    [] Storage(n, l) = "unit"      -> n

\* A text is a descriptor in a slot of its own.
compile_operand(n, o) ==
  CASE o.k # "Const" -> read_place(n, o.p)
    [] o.k = "Const" /\ o.ty.k = "Int" -> ssa(n, int_bytes(o.v, o.ty.n))
    [] o.k = "Const" /\ o.ty = Bool    -> ssa(n, Flag(o.v))
    [] o.k = "Const" /\ o.ty = Text    ->
         after(allocate_stack_slot(interned(n, o.v), 16), LAMBDA r : write(r, Got(r), Descriptor(r.statics[o.v], o.v)))
    [] OTHER -> fail(n, "codegen")

-----------------------------------------------------------------------------
\* Glue: one function per owning type that releases a value, one that makes a copy independent.
owned_fields(fields) == SelectSeq(fields, LAMBDA fd : needs_drop(fd.ty))
each_variant(n, t, a) ==
  after(read_u64(n, a), LAMBDA tag :
    IF tag + 1 \in DOMAIN program.types[t.n].variants THEN owned_fields(enum_variant(program, t, tag + 1)) ELSE <<>>)
Contents(n, t, a) == IF t.k = "Enum" THEN each_variant(n, t, a) ELSE owned_fields(glue_fields(program, t))
clone_text(n, a) ==
  after(read(n, read_u64(n, a), read_u64(n, a + 8)), LAMBDA bs :
    IF bs = Broken THEN fail(n, "memory") ELSE after(alloc(n, bs, FALSE), LAMBDA c : write(c, a, encode(Newly(c), 8))))
RECURSIVE clone_contents(_, _, _)
clone_contents(n, t, a) ==
  IF t.k = "String" THEN clone_text(n, a)
  ELSE FoldLeft(LAMBDA c, fd : clone_contents(c, fd.ty, a + fd.at),
                IF user_drop(t) THEN [n EXCEPT !.built = @ + 1] ELSE n, Contents(n, t, a))
clone_value(n, t) ==
  IF ~needs_drop(t) THEN n
  ELSE after(Got(n), LAMBDA v :
         after(allocate_stack_slot(n, size_of(program, t)), LAMBDA r :
           after(Got(r), LAMBDA copy : unless(copy_words(r, v, copy, size_of(program, t)), LAMBDA c :
             ssa(clone_contents(c, t, copy), copy)))))

\* A moved local gives up what it owns, anything else is cloned.
compile_owned_operand(n, o) ==
  unless(compile_operand(n, o), LAMBDA r :
    after(operand_ty(n, o), LAMBDA t :
      CASE ~needs_drop(t) -> r
        [] needs_drop(t) /\ o.k = "Move" /\ o.p.path = <<>> -> set_flag(r, o.p.l, FALSE)
        [] needs_drop(t) /\ o.k = "Move" /\ Len(o.p.path) = 1 /\ o.p.path[1].k = "variant" /\ o.p.l \in bodies[frame(n).f].tries ->
             set_flag(r, o.p.l, FALSE)
        [] OTHER -> clone_value(r, t)))
compile_owned_as(n, o, expected) ==
  after(operand_ty(n, o), LAMBDA t :
    IF t.k = "Borrow" /\ t.a[1] = expected
    THEN unless(compile_operand(n, o), LAMBDA r :
           unless(IF is_real_aggregate(expected) THEN r ELSE load(r, expected, Got(r)), LAMBDA d : clone_value(d, expected)))
    ELSE compile_owned_operand(n, o))

-----------------------------------------------------------------------------
\* What a statement has left to do.  The glue of a type calls the user's `drop` first, if the value is live.
drop_value(t, a)       == Item_("drop", t, a, 0, <<>>)
drop_local_if_owned(l) == Item_("release", Unit, 0, l, <<>>)
drop_all_owned(n)      == [i \in 1 .. Len(frame(n).flags) |-> drop_local_if_owned(Len(frame(n).flags) + 1 - i)]
\* Faulty: what was in a field stays there.
write_place_over(n, p, v) ==
  IF p.path = <<>> THEN <<drop_local_if_owned(p.l), Item_("local", Unit, 0, p.l, <<v>>)>>
  ELSE after(place_address(n, p), LAMBDA at : <<Item_("store", at.ty, at.a, 0, <<v>>)>>)
write_place(n, p, v) ==
  IF p.path = <<>> THEN <<drop_local_if_owned(p.l), Item_("local", Unit, 0, p.l, <<v>>)>>
  ELSE after(place_address(n, p), LAMBDA at :
         (IF needs_drop(at.ty) THEN <<drop_value(at.ty, at.a)>> ELSE <<>>) \o <<Item_("store", at.ty, at.a, 0, <<v>>)>>)

\* A call, with the values of the arguments, and the address for an aggregate that is returned.
Entered(n, f, args, l) ==
  CASE l <= bodies[f].params /\ LocalStorage(bodies[f], l) = "stack" -> encode(args[l], size_of(program, bodies[f].locals[l]))
    [] l <= bodies[f].params /\ LocalStorage(bodies[f], l) = "aggregate" -> read(n, args[l], size_of(program, bodies[f].locals[l]))
    [] OTHER -> Uninit(IF LocalStorage(bodies[f], l) \in {"stack", "aggregate"} THEN size_of(program, bodies[f].locals[l]) ELSE 0)
compile_function(n, f, args, sret, dst) ==
  [n EXCEPT
     !.mem = @ \o [l \in DOMAIN bodies[f].locals |-> [bytes |-> Entered(n, f, args, l), freed |-> FALSE, fixed |-> FALSE]],
     !.frames = Append(@, [f |-> f, locals |-> [l \in DOMAIN bodies[f].locals |-> (Len(n.mem) + l) * Page],
                           regs |-> [l \in DOMAIN bodies[f].locals |-> IF l <= bodies[f].params THEN args[l] ELSE Garbage],
                           flags |-> [l \in DOMAIN bodies[f].locals |-> l <= bodies[f].params /\ needs_drop(bodies[f].locals[l])],
                           slots |-> <<>>, nth |-> 1, block |-> 1, i |-> 1, work |-> <<>>, sret |-> sret, dst |-> dst])]
\* The entry of the program is called as any function is.
Outcome(n, t) ==
  IF is_real_aggregate(t) THEN after(read(n, Got(n), size_of(program, t)), LAMBDA bs : [free(n, Got(n)) EXCEPT !.v = bs])
  ELSE [n EXCEPT !.v = IF t = Unit THEN <<>> ELSE encode(Got(n), size_of(program, t))]
return_(n, v) ==
  after(FoldLeft(free, [n EXCEPT !.frames = Front(@), !.v = v],
                 frame(n).locals \o [i \in DOMAIN frame(n).slots |-> frame(n).slots[i].a]), LAMBDA r :
    IF r.frames = <<>> THEN Outcome(r, bodies[frame(n).f].ret)
    ELSE IF frame(n).dst = <<>> THEN r ELSE then_(r, write_place(r, frame(n).dst[1], Got(r))))

build_glue(n, t, a) ==
  IF user_drop(t) /\ read(n, a + live_offset(program, t), 1) # Zeros(1)
  THEN compile_function(then_([n EXCEPT !.dropped = @ + 1], <<Item_("contents", t, a, 0, <<>>)>>),
                        mangled_name(<<t.n, "drop">>, t.a), <<a>>, 0, <<>>)
  ELSE then_(n, <<Item_("contents", t, a, 0, <<>>)>>)
drop_contents(n, t, a) ==
  IF t.k = "String" THEN free(n, read_u64(n, a))
  ELSE after(Contents(n, t, a), LAMBDA fields : then_(n, [i \in DOMAIN fields |-> drop_value(fields[i].ty, a + fields[i].at)]))
Emitted(n, w) ==
  CASE w.w = "drop"     -> build_glue(n, w.ty, w.a)
    [] w.w = "contents" -> drop_contents(n, w.ty, w.a)
    [] w.w = "release"  -> IF frame(n).flags[w.l] THEN then_(n, <<drop_value(LocalTy(n, w.l), frame(n).locals[w.l]), Item_("disown", Unit, 0, w.l, <<>>)>>) ELSE n
    [] w.w = "disown"   -> set_flag(n, w.l, FALSE)
    [] w.w = "local"    -> after(write_place_unowned(n, w.l, w.v[1]), LAMBDA r : set_flag(r, w.l, needs_drop(LocalTy(n, w.l))))
    [] w.w = "store"    -> store_field(n, w.v[1], w.ty, w.a)
    [] w.w = "return"   -> return_(n, w.v)
RECURSIVE settle(_)
settle(n) ==
  IF n.err # "" \/ n.frames = <<>> THEN n
  ELSE IF frame(n).work = <<>> THEN n
  ELSE after(Emitted([n EXCEPT !.frames[Top_(n)].work = Tail(@)], Head(frame(n).work)), LAMBDA r :
         IF Top_(r) > Top_(n) THEN r ELSE settle(r))

-----------------------------------------------------------------------------
\* Arithmetic on bits: what the instructions of each generator do, and the checks around them.
signed_cc(v, w) == int_value(v, w)
Predicates == {"==", "!=", "<", "<=", ">", ">="}
icmp(op, l, r) == CASE op = "==" -> l = r [] op = "!=" -> l # r [] op = "<" -> l < r [] op = "<=" -> l <= r [] op = ">" -> l > r [] op = ">=" -> l >= r
Bitwise_(op, l, r) == CASE op = "&" -> l & r [] op = "|" -> l | r [] op = "^" -> l ^^ r
\* An arithmetic shift to the right for a signed value.
shifted(op, v, by, w) == int_bytes(IF op = "<<" THEN v * 2 ^ by ELSE signed_cc(v, w) \div 2 ^ by, w)
\* Does the exact result leave the width?
with_overflow(op, l, r, w) == after(Exact(op, signed_cc(l, w), signed_cc(r, w)), LAMBDA x : [v |-> int_bytes(x, w), overflow |-> ~Fits(x, w)])

checked_int_op(op, l, r, w, debug) ==
  IF ~debug THEN Gives(int_bytes(Exact(op, l, r), w))
  ELSE after(with_overflow(op, l, r, w), LAMBDA x : IF x.overflow THEN Panics ELSE Gives(x.v))
Least(w) == int_bytes(lowest(w), w)
\* Cranelift: `srem` of the least value by -1 is 0, and a shift takes its amount modulo the width.
compile_division(op, l, r, w) ==
  CASE r = 0 -> Panics
    [] r # 0 /\ ~is_signed(w) -> Gives(IF op = "/" THEN l \div r ELSE l % r)
    [] r # 0 /\ is_signed(w) /\ op = "/" /\ r = int_bytes(-1, w) /\ l = Least(w) -> Panics
    [] OTHER -> Gives(int_bytes(IF op = "/" THEN quotient(signed_cc(l, w), signed_cc(r, w)) ELSE remainder(signed_cc(l, w), signed_cc(r, w)), w))
compile_shift(op, l, r, w, debug) == IF debug /\ r >= Bits[w] THEN Panics ELSE Gives(shifted(op, l, r % Bits[w], w))
\* LLVM: dividing the least value by -1 is undefined, so the divisor is replaced; so is a shift by
\* more than the width, so the amount is masked.
divide(op, l, r, w) ==
  LET minus_one == r = int_bytes(-1, w)
      safe_right == IF minus_one THEN 1 ELSE signed_cc(r, w)
  IN  CASE r = 0 -> Panics
        [] r # 0 /\ ~is_signed(w) -> Gives(IF op = "/" THEN l \div r ELSE l % r)
        [] r # 0 /\ is_signed(w) /\ op = "/" ->
             IF minus_one /\ l = Least(w) THEN Panics ELSE Gives(int_bytes(quotient(signed_cc(l, w), signed_cc(r, w)), w))
        [] OTHER -> Gives(IF minus_one THEN 0 ELSE int_bytes(remainder(signed_cc(l, w), safe_right), w))
llvm_shift(op, l, r, w, debug) == IF debug /\ r >= Bits[w] THEN Panics ELSE Gives(shifted(op, l, r & (Bits[w] - 1), w))

IntOp(backend, op, l, r, w, debug) ==
  CASE op \in DOMAIN Named3  -> checked_int_op(Named3[op], l, r, w, debug)
    [] op \in {"/", "%"}     -> IF backend = "llvm" THEN divide(op, l, r, w) ELSE compile_division(op, l, r, w)
    [] op \in Predicates          -> Gives(Flag(icmp(op, signed_cc(l, w), signed_cc(r, w))))
    [] op \in {"&", "|", "^"}   -> Gives(Bitwise_(op, l, r))
    [] op \in {"<<", ">>"}      -> IF backend = "llvm" THEN llvm_shift(op, l, r, w, debug) ELSE compile_shift(op, l, r, w, debug)
    [] op \in DOMAIN WrappingOps -> Gives(int_bytes(Exact(WrappingOps[op], l, r), w))
    [] op \in DOMAIN OverflowOps -> Gives(Flag(with_overflow(OverflowOps[op], l, r, w).overflow))
compile_binary(backend, op, l, r, t, debug) ==
  CASE t.k = "Int" -> IntOp(backend, op, l, r, t.n, debug)
    [] t.k # "Int" /\ op \in Predicates -> Gives(Flag(icmp(op, l, r)))
compile_unary(op, v, t, debug) ==
  CASE op = "not"    -> Gives(Flag(v = 0))
    [] op = "neg"    -> IF debug /\ is_signed(t.n) /\ v = Least(t.n) THEN Panics ELSE Gives(int_bytes(-v, t.n))
    [] op = "bitnot" -> Gives(2 ^ Bits[t.n] - 1 - v)
\* Truncated to a narrower width, extended by the sign of the source to a wider one.
ClifBits(t) == CASE t.k = "Int" -> Bits[t.n] [] t.k = "Char" -> 4 [] t.k = "Bool" -> Bits["u8"]
compile_cast(v, from, to) ==
  CASE ClifBits(to) = ClifBits(from) -> v
    [] ClifBits(to) < ClifBits(from) -> v % (2 ^ ClifBits(to))
    [] OTHER -> int_bytes(IF from.k = "Int" THEN signed_cc(v, from.n) ELSE v, to.n)
\* Texts are compared by the runtime through the addresses of their descriptors.
compile_string_binary(n, op, l, r) ==
  after(read(n, read_u64(n, l), read_u64(n, l + 8)), LAMBDA x : after(read(n, read_u64(n, r), read_u64(n, r + 8)), LAMBDA y :
    IF x = Broken \/ y = Broken THEN fail(n, "memory") ELSE ssa(n, Flag((x = y) = (op = "==")))))

-----------------------------------------------------------------------------
\* Statements and terminators.
\* The fields are stored one by one as their operands are evaluated; the rest of the slot stays as it was.
mark_live(n, t, a) ==
  after(IF user_drop(t) THEN [n EXCEPT !.built = @ + 1] ELSE n, LAMBDA r :
    IF t.k \in Nominal /\ has_drop(program, t.n) THEN write(r, a + live_offset(program, t), encode(1, 1)) ELSE r)
VariantOf(t, v) == enum_variant_index(program, t, v)
FieldsOf(t, v)  == IF t.k = "Enum" THEN enum_variant(program, t, VariantOf(t, v) + 1) ELSE glue_fields(program, t)
FieldValue(n, o, t, fd) == IF t.k = "Struct" THEN compile_owned_as(n, o, fd.ty) ELSE compile_owned_operand(n, o)
StoredAs(n, o, t, fd) ==
  after(operand_ty(n, o), LAMBDA ty : IF t.k = "Struct" /\ ty.k = "Borrow" /\ ty.a[1] = fd.ty THEN fd.ty ELSE ty)
compile_aggregate(n, t, v, os) ==
  after(FieldsOf(t, v), LAMBDA fields :
    after(allocate_stack_slot(n, size_of(program, t)), LAMBDA s : after(Got(s), LAMBDA a :
      unless(FoldLeft(LAMBDA r, i :
                        IF r.err # "" \/ operand_ty(r, os[i]) = Unit THEN r
                        ELSE unless(FieldValue(r, os[i], t, fields[i]), LAMBDA x :
                               store_field(x, Got(x), StoredAs(n, os[i], t, fields[i]), a + fields[i].at)),
                      IF t.k = "Enum" THEN write(s, a, encode(VariantOf(t, v), 8)) ELSE s, Indices(os)), LAMBDA r :
        ssa(mark_live(r, t, a), a)))))
checked(n, result) == after(result, LAMBDA o : IF o.ok THEN ssa(n, o.v) ELSE fail(n, "panic"))
Debug(n) == bodies[frame(n).f].debug
compile_rvalue(n, r) ==
  CASE r.r = "UnaryOp" -> unless(compile_operand(n, r.a[1]), LAMBDA x : checked(x, compile_unary(r.o, Got(x), operand_ty(n, r.a[1]), Debug(n))))
    [] r.r = "Cast"    -> unless(compile_operand(n, r.a[1]), LAMBDA x : ssa(x, compile_cast(Got(x), operand_ty(n, r.a[1]), r.ty)))
    [] r.r = "BinaryOp" ->
         unless(compile_operand(n, r.a[1]), LAMBDA x : unless(compile_operand(x, r.a[2]), LAMBDA y :
           after(operand_ty(n, r.a[1]), LAMBDA t :
             IF Strip(t) = Text THEN compile_string_binary(y, r.o, Got(x), Got(y))
             ELSE checked(y, compile_binary(n.backend, r.o, Got(x), Got(y), t, Debug(n))))))
    [] r.r = "Aggregate"    -> compile_aggregate(n, r.ty, r.o, r.a)
    [] r.r = "Discriminant" -> load(n, IntTy("i64"), place_address(n, r.p).a)
    [] r.r = "Ref"          -> ssa(n, place_address(n, r.p).a)
compile_statement(n, s) ==
  CASE s.s = "Drop" -> then_(n, <<drop_local_if_owned(s.p.l)>>)
    [] s.s = "Assign" /\ s.p.path = <<>> /\ LocalTy(n, s.p.l) \in {Unit, Never} -> n
    [] OTHER -> unless(IF s.r.r = "Use" THEN compile_owned_as(n, s.r.a[1], place_ty(n, s.p)) ELSE compile_rvalue(n, s.r), LAMBDA r :
                  then_(r, write_place(r, s.p, Got(r))))
compile_switch(n, t) ==
  unless(compile_operand(n, t.d), LAMBDA r :
    after(operand_ty(n, t.d), LAMBDA ty :
      after(SelectSeq(t.targets, LAMBDA c : int_bytes(c[1], IF ty.k = "Int" THEN ty.n ELSE "u8") = Got(r)), LAMBDA hits :
        jump(r, IF hits = <<>> THEN t.otherwise ELSE hits[1][2]))))
\* An argument for a borrow that is no borrow is passed as it is: the value of an aggregate is its address.
Argument(n, o, param) ==
  IF param.k = "Borrow" /\ operand_ty(n, o).k # "Borrow" THEN compile_operand(n, o) ELSE compile_owned_as(n, o, param)
Returns(n, dst) == dst # <<>> /\ is_real_aggregate(place_ty(n, dst[1]))
compile_call(n, t) ==
  IF t.f = PANIC_SYMBOL THEN fail(n, "panic")
  ELSE IF t.f \notin DOMAIN bodies THEN fail(n, "codegen")
  ELSE after(IF Returns(n, t.dst) THEN allocate_stack_slot(n, size_of(program, place_ty(n, t.dst[1]))) ELSE ssa(n, 0), LAMBDA s :
    unless(FoldLeft(LAMBDA r, i : unless(Argument(r, t.args[i], bodies[t.f].locals[i]), LAMBDA x : [x EXCEPT !.got = Append(@, Got(x))]),
                    [s EXCEPT !.got = <<>>], Indices(t.args)), LAMBDA r :
      compile_function(jump(r, t.resume), t.f, r.got, Got(s), t.dst)))
\* An aggregate is copied to the caller before the locals are dropped.
compile_return(n, o) ==
  LET ret == bodies[frame(n).f].ret
      leaves(r, v) == then_(r, drop_all_owned(r) \o <<Item_("return", Unit, 0, 0, v)>>)
  IN  CASE ret \in {Unit, Never} -> leaves(n, <<>>)
        [] ret \notin {Unit, Never} /\ o.k = "Const" /\ o.ty = Unit -> fail(n, "trap")
        [] OTHER -> unless(compile_owned_as(n, o, ret), LAMBDA r :
                      IF is_real_aggregate(ret) THEN leaves(copy_words(r, Got(r), frame(n).sret, size_of(program, ret)), <<frame(n).sret>>)
                      ELSE leaves(r, r.v))
compile_terminator(n, t) ==
  CASE t.t = "Goto"        -> jump(n, t.to)
    [] t.t = "SwitchInt"   -> compile_switch(n, t)
    [] t.t = "Call"        -> compile_call(n, t)
    [] t.t = "Return"      -> compile_return(n, t.a)
    [] t.t = "Unreachable" -> fail(n, "trap")

-----------------------------------------------------------------------------
\* The code of function f is called from outside: an aggregate it returns has a slot of the caller.
Launch(backend, f) ==
  after([NewMachine EXCEPT !.backend = backend], LAMBDA n :
    IF is_real_aggregate(bodies[f].ret)
    THEN compile_function(alloc(n, Uninit(size_of(program, bodies[f].ret)), FALSE), f, <<>>, Page, <<>>)
    ELSE compile_function(n, f, <<>>, 0, <<>>))
At(i) == [m EXCEPT !.frames[Top_(m)].i = i, !.frames[Top_(m)].nth = 1]
Statement  == /\ Running /\ frame(m).i <= Len(Data(m).ss)
              /\ m' = settle(compile_statement(At(frame(m).i + 1), Data(m).ss[frame(m).i]))
Terminator == /\ Running /\ frame(m).i > Len(Data(m).ss)
              /\ m' = settle(compile_terminator(At(0), Data(m).t))
=============================================================================
