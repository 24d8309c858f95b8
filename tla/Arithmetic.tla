----------------------------- MODULE Arithmetic -----------------------------
(***************************************************************************)
(* Integer arithmetic of the compile-time machine                          *)
(* (paco-comptime/src/machine.rs).                                         *)
(*                                                                         *)
(* An integer in memory is its bits, a number below 2^Bits; `int_value` is *)
(* what they mean.  An operation returns its bits, or panics.              *)
(***************************************************************************)
EXTENDS Infer, Bitwise

int_bytes(v, w)   == v % (2 ^ Bits[w])
\* Faulty: the sign is ignored.
int_value_unsigned(raw, w) == raw
int_value(raw, w) == IF is_signed(w) /\ raw >= 2 ^ (Bits[w] - 1) THEN raw - 2 ^ Bits[w] ELSE raw
Fits(v, w)        == lowest(w) <= v /\ v <= highest(w)
Flag(b)           == IF b THEN 1 ELSE 0

Gives(v)          == [ok |-> TRUE, v |-> v]
Panics            == [ok |-> FALSE, v |-> 0]
Abs(v)            == IF v < 0 THEN -v ELSE v
\* Division rounds towards zero, a remainder has the sign of the dividend.
quotient(l, r)    == IF (l < 0) = (r < 0) THEN Abs(l) \div Abs(r) ELSE -(Abs(l) \div Abs(r))
remainder(l, r)   == l - r * quotient(l, r)

Exact(op, l, r) == CASE op = "add" -> l + r [] op = "sub" -> l - r [] op = "mul" -> l * r
Named3 == [o \in {"+", "-", "*"} |-> CASE o = "+" -> "add" [] o = "-" -> "sub" [] o = "*" -> "mul"]
WrappingOps == [o \in {"wrapping add", "wrapping sub", "wrapping mul"} |->
  CASE o = "wrapping add" -> "add" [] o = "wrapping sub" -> "sub" [] o = "wrapping mul" -> "mul"]
OverflowOps == [o \in {"add overflows", "sub overflows", "mul overflows"} |->
  CASE o = "add overflows" -> "add" [] o = "sub overflows" -> "sub" [] o = "mul overflows" -> "mul"]

\* A shift by what is not a bit of the value panics in a debug build; a release build masks it.
shift(op, v, amount, w, debug) ==
  LET by == amount % Bits[w]
  IN  IF debug /\ ~(0 <= amount /\ amount < Bits[w]) THEN Panics
      ELSE Gives(int_bytes(IF op = "<<" THEN v * 2 ^ by ELSE v \div 2 ^ by, w))
int_binary(op, l, r, w, debug) ==
  CASE op \in DOMAIN Named3 ->
         IF debug /\ ~Fits(Exact(Named3[op], l, r), w) THEN Panics ELSE Gives(int_bytes(Exact(Named3[op], l, r), w))
    [] op = "/" -> IF r = 0 \/ (is_signed(w) /\ l = lowest(w) /\ r = -1) THEN Panics ELSE Gives(int_bytes(quotient(l, r), w))
    [] op = "%" -> IF r = 0 THEN Panics
                   ELSE Gives(int_bytes(IF is_signed(w) /\ r = -1 THEN 0 ELSE remainder(l, r), w))
    [] op = "==" -> Gives(Flag(l = r))  [] op = "!=" -> Gives(Flag(l # r))
    [] op = "<"  -> Gives(Flag(l < r))  [] op = "<=" -> Gives(Flag(l <= r))
    [] op = ">"  -> Gives(Flag(l > r))  [] op = ">=" -> Gives(Flag(l >= r))
    [] op = "&"  -> Gives(int_bytes(l, w) & int_bytes(r, w))
    [] op = "|"  -> Gives(int_bytes(l, w) | int_bytes(r, w))
    [] op = "^"  -> Gives(int_bytes(l, w) ^^ int_bytes(r, w))
    [] op \in {"<<", ">>"}       -> shift(op, l, r, w, debug)
    [] op \in DOMAIN WrappingOps -> Gives(int_bytes(Exact(WrappingOps[op], l, r), w))
    [] op \in DOMAIN OverflowOps -> Gives(Flag(~Fits(Exact(OverflowOps[op], l, r), w)))
unary(op, raw, ty, debug) ==
  CASE op = "not" -> Gives(Flag(raw = 0))
    [] op = "neg" -> IF debug /\ is_signed(ty.n) /\ int_value(raw, ty.n) = lowest(ty.n) THEN Panics
                     ELSE Gives(int_bytes(-int_value(raw, ty.n), ty.n))
    [] op = "bitnot" -> Gives(int_bytes(-int_value(raw, ty.n) - 1, ty.n))
\* A cast widens or truncates the bits by what they mean in the source type.
cast(raw, from, to) == int_bytes(IF from.k = "Int" /\ is_signed(from.n) THEN int_value(raw, from.n) ELSE raw, to.n)
=============================================================================
