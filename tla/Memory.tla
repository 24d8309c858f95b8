------------------------------- MODULE Memory -------------------------------
(***************************************************************************)
(* What running a program rests on, compiled or at compile time: memory    *)
(* made of allocations of bytes, the frames of the calls that are under    *)
(* way, and the types of places and operands.                              *)
(*                                                                         *)
(* A byte is <<v, i, n>>: byte i of the n bytes that hold the bits v, so   *)
(* that bytes read at another place than they were written at mean         *)
(* nothing.  An address is its allocation times Page plus the offset.      *)
(* `m` is the machine, `m.v` what the last operation returned, and `m.err` *)
(* what stopped it.  Releasing a value may call the user's `drop`, so a    *)
(* frame keeps the work left of its statement in `work`; it is done before *)
(* the next statement.                                                     *)
(***************************************************************************)
EXTENDS MirLower, Layout, Arithmetic

VARIABLES program,           \* the declared items, for the layouts
          bodies,            \* the MIR of every function by its symbol
          m                  \* the machine

Page == 200
Zero == <<0, 0, 0>>
encode(v, n) == [i \in 1..n |-> IF v = 0 THEN Zero ELSE <<v, i, n>>]
Zeros(n) == encode(0, n)
Garbage == -1000
Broken  == <<<<Garbage, 0, 0>>>>
decode(bs) == IF \A i \in DOMAIN bs : bs[i] = Zero THEN 0
              ELSE IF \A i \in DOMAIN bs : bs[i] = <<bs[1][1], i, Len(bs)>> THEN bs[1][1] ELSE Garbage

fail(n, e)  == IF n.err = "" THEN [n EXCEPT !.err = e] ELSE n
returns(n, bs) == IF bs = Broken THEN fail(n, "memory") ELSE [n EXCEPT !.v = bs]
unless(n, F(_)) == IF n.err = "" THEN F(n) ELSE n

-----------------------------------------------------------------------------
\* Memory.
Block(a) == a \div Page
locate(n, a, len) == Block(a) \in DOMAIN n.mem /\ ~n.mem[Block(a)].freed /\ (a % Page) + len <= Len(n.mem[Block(a)].bytes)
alloc(n, bs, fixed) == [n EXCEPT !.mem = Append(@, [bytes |-> bs, freed |-> FALSE, fixed |-> fixed])]
Newly(n) == Len(n.mem) * Page
read(n, a, len) == IF len = 0 THEN <<>> ELSE IF ~locate(n, a, len) THEN Broken
                   ELSE SubSeq(n.mem[Block(a)].bytes, (a % Page) + 1, (a % Page) + len)
read_u64(n, a) == decode(read(n, a, 8))
write(n, a, bs) ==
  IF bs = <<>> THEN n ELSE IF ~locate(n, a, Len(bs)) THEN fail(n, "memory")
  ELSE [n EXCEPT !.mem[Block(a)].bytes = [i \in DOMAIN @ |-> IF i - (a % Page) \in DOMAIN bs THEN bs[i - (a % Page)] ELSE @[i]]]
free(n, a) ==
  CASE a = 0 -> n
    [] a # 0 /\ (~locate(n, a, 0) \/ a % Page # 0) -> fail(n, "free")
    [] a # 0 /\ locate(n, a, 0) /\ a % Page = 0 ->
         IF n.mem[Block(a)].fixed THEN fail(n, "free") ELSE [n EXCEPT !.mem[Block(a)].freed = TRUE, !.mem[Block(a)].bytes = <<>>]

-----------------------------------------------------------------------------
\* Frames, places and operands.
frame(n)   == Last(n.frames)
Top_(n)    == Len(n.frames)
\* A `drop` that takes `&mut self`, returns nothing and has a body.
user_drop(t) == /\ t.k \in Nominal /\ mangled_name(<<t.n, "drop">>, t.a) \in DOMAIN bodies
                /\ LET b == bodies[mangled_name(<<t.n, "drop">>, t.a)]
                   IN  b.params = 1 /\ b.locals[1] = Borrow("mut", t) /\ b.ret = Unit
RECURSIVE needs_drop(_)
needs_drop(t) == t.k = "String" \/ user_drop(t) \/ \E c \in children(program, t) : needs_drop(c)
LocalTy(n, l) == bodies[frame(n).f].locals[l]
set_flag(n, l, on) == [n EXCEPT !.frames[Top_(n)].flags[l] = on]
is_real_aggregate(t) == t.k \in {"Struct", "Enum", "Tuple", "String"}

-----------------------------------------------------------------------------
\* Places, operands and what they own.
projected(t, s)  == IF s.k = "variant" THEN variant_field(program, t, s.n, s.i) ELSE field_of(program, t, s)
place_ty(n, p)   == FoldLeft(LAMBDA t, s : IF s.k = "deref" THEN s.ty ELSE projected(t, s).ty, LocalTy(n, p.l), p.path)
operand_ty(n, o) == IF o.k = "Const" THEN o.ty ELSE place_ty(n, o.p)
TextBytes(len) == [i \in 1..len |-> <<1, 1, 1>>]
\* The bytes of a text are one fixed allocation, made when it is first read.
interned(n, len) == IF len \in DOMAIN n.statics THEN n
                    ELSE [alloc(n, TextBytes(len), TRUE) EXCEPT !.statics = (len :> Newly(n) + Page) @@ @]
Descriptor(data, len) == encode(data, 8) \o encode(len, 8)
VariantFields(n, t, a) ==
  after(read_u64(n, a), LAMBDA tag : IF tag + 1 \in DOMAIN program.types[t.n].variants THEN enum_variant(program, t, tag + 1) ELSE <<>>)
OwnedFields(n, t, a) == IF t.k = "Enum" THEN VariantFields(n, t, a) ELSE glue_fields(program, t)
borrowed_locals(b) ==
  {l \in DOMAIN b.locals : \E i \in DOMAIN b.blocks : \E j \in DOMAIN b.blocks[i].ss :
     b.blocks[i].ss[j].s = "Assign" /\ b.blocks[i].ss[j].r.r = "Ref" /\ b.blocks[i].ss[j].r.p = Local(l)}

\* Work: what a statement has left to do.
Item_(w, t, a, l, v) == [w |-> w, ty |-> t, a |-> a, l |-> l, v |-> v]
then_(n, work) == [n EXCEPT !.frames[Top_(n)].work = work \o @]
Data(n) == bodies[frame(n).f].blocks[frame(n).block]
jump(n, b) == [n EXCEPT !.frames[Top_(n)].block = b, !.frames[Top_(n)].i = 1]

-----------------------------------------------------------------------------
NewMachine == [mem |-> <<>>, frames |-> <<>>, statics |-> Empty, executed |-> 0, err |-> "", v |-> <<>>, got |-> <<>>,
               built |-> 0, dropped |-> 0, backend |-> "machine"]
Running == m.err = "" /\ m.frames # <<>>
=============================================================================
