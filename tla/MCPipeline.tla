----------------------------- MODULE MCPipeline -----------------------------
(***************************************************************************)
(* Programs for the compiler: one group for each part of the language that *)
(* the lowering treats in its own way.  A text is split into the pieces of *)
(* the lexer; the word `str` stands for a string literal.  Integers of one *)
(* byte have 4 bits and the others 8, so that every operation meets the    *)
(* ends of its width.                                                      *)
(***************************************************************************)
EXTENDS Pipeline

MCBits == [w \in Widths |-> IF w \in {"i8", "u8"} THEN 4 ELSE 8]

Marks == {" ", "{", "}", "(", ")", "<", ">", "=", ",", ";", ":", ".", "+", "-", "*", "/", "%", "&", "|", "^", "~", "!", "?", "@"}
Pieces(text) ==
  LET is_mark(i) == SubSeq(text, i, i) \in Marks
      starts == SelectSeq([i \in 1 .. Len(text) |-> i], LAMBDA i : i = 1 \/ is_mark(i) \/ is_mark(i - 1))
  IN  <<>> \o [j \in DOMAIN starts |-> SubSeq(text, starts[j], IF j = Len(starts) THEN Len(text) ELSE starts[j + 1] - 1)]

Opt == "enum Option<T> { Some(T), None, fn unwrap(self) -> T { match self { Option::Some(x) => x, Option::None => panic(str) } } "
       \o "fn expect(self, s: string) -> T { match self { Option::Some(x) => x, Option::None => panic(s) } } } "
Res == "enum Result<T, E> { Ok(T), Err(E) } "
\* A type with a destructor, and functions that make values of it.
Res1 == "struct S { a: string, fn drop(&mut self) { self.a = str; } } "

\* Every operator at the ends of a width.
Operators == {"+", "-", "*", "/", "%", "&", "|", "^", "<<", ">>"}
Arith == {"fn main() -> i8 { let x: i8 = " \o a \o "; let y: i8 = " \o b \o "; x " \o o \o " y }" :
            o \in Operators, a \in {"-8", "-1", "3", "7"}, b \in {"-8", "-1", "0", "2"}}
         \cup {"fn main() -> u8 { let x: u8 = " \o a \o "; let y: u8 = " \o b \o "; x " \o o \o " y }" :
                 o \in {"+", "-", "*", "<<", ">>"}, a \in {"0", "8"}, b \in {"3", "7"}}
Unary == {"fn main() -> (i8, i8, bool, u8, i8, i64, u64) { let x: i8 = " \o a \o "; let y: i64 = " \o b \o "; "
          \o "(~x, -x, !(x < 0 as i8), x as u8, y as i8, x as i64, y as u64) }" : a \in {"-8", "-1", "7"}, b \in {"-3", "8"}}
Overflows == {Opt \o "fn main() -> (Option<" \o w \o ">, " \o w \o ", (" \o w \o ", bool), " \o w \o ") { let x: " \o w \o " = " \o a
              \o "; let y: " \o w \o " = " \o b \o "; (x.checked_" \o o \o "(y), x.saturating_" \o o \o "(y), x.overflowing_" \o o
              \o "(y), x.wrapping_" \o o \o "(y)) }" :
              o \in {"add", "sub", "mul"}, w \in {"i8"}, a \in {"-8", "3"}, b \in {"-3", "1", "7"}}
             \cup {Opt \o "fn main() -> (Option<u8>, u8) { let x: u8 = 7; let y: u8 = " \o b \o "; (x.checked_" \o o \o "(y), x.saturating_"
                   \o o \o "(y)) }" : o \in {"add", "sub", "mul"}, b \in {"1", "8"}}

\* Control flow and patterns.
Flow == {
  "fn f(n: i64) -> i64 { if n < 2 { 1 } else { n * f(n - 1) } } fn main() -> i64 { f(3) }",
  "fn f(n: i64) -> i64 { if n == 0 { 0 } else { f(n - 1) } } fn main() -> i64 { f(8) }",
  "fn f(n: i64) { if n == 2 { return; } panic(str) } fn main() { f(2); f(3); }",
  Opt \o "fn g(x: Option<i64>) -> i64 { match x { Some(y) => y + 1, Option::None => 0 } } fn main() -> i64 { g(Some(3)) - g(None) }",
  Opt \o "fn f(x: Option<i64>, y: bool) -> i64 { match (x, y) { (Some(0), _) => 0, (Some(n), true) if n < 3 => n, (Some(1 | 2), false) => 7, "
  \o "(Some(n @ 3..=7), _) => n - 1, (_, b) => if b { 1 } else { 2 } } } "
  \o "fn main() -> (i64, i64, i64, i64, i64) { (f(Some(2), true), f(Some(1), false), f(Some(3), true), f(None, true), f(None, false)) }",
  "fn f(s: string, n: i64) -> i64 { match n { 0 | 1 => 3, 2..=3 => 7, x if x == 7 => x, _ => 0 } } "
  \o "fn main() -> (i64, i64, i64, i64) { (f(str, 1), f(str, 3), f(str, 7), f(str, 8)) }",
  "struct S { a: i64, b: (bool, string) } fn f(s: S) -> string { match s { S { a: 1, b: (true, x) } => x, S { a, .. } if a == 2 => str, "
  \o "S { b: (_, y), .. } => y } } fn main() -> (string, string) { (f(S { a: 1, b: (true, str) }), f(S { a: 3, b: (false, str) })) }",
  "fn f(x: (i64, string)) -> string { let (n, s) = x; s } "
  \o "fn main() -> (string, i64) { let (a, (b, c)) = (f((1, str)), (2, true)); (a, b) }",
  "fn f(b: bool) -> bool { panic(str) } fn main() -> (bool, bool) { (false && f(true), true || f(false)) }",
  "fn main() -> i64 { let mut n = 0; let mut s = 0; loop { n = n + 1; if n == 2 { continue; } if n == 7 { break; } s = s + n; } s }" }

\* Structs, methods, references and operators of a type.
Structs == {
  "struct S { a: i64, b: bool } methods S { fn m(&self, x: i64) -> i64 { self.a + x } fn next(&mut self) { self.a = self.a - 1; } } "
  \o "fn main() -> S { let mut c = S { b: true, a: 3 }; c.a = 2; let mut n = 0; while n < c.m(1) { n = n + 1; c.next(); } c.b = n == 2; c }",
  "struct S { a: i64 } methods S { fn add(self, s: S) -> S { S { a: self.a + s.a } } fn neg(self) -> S { S { a: 0 - self.a } } "
  \o "fn cmp(&self, s: &S) -> i64 { self.a - s.a } } "
  \o "fn main() -> (bool, i64) { let x = S { a: 1 }; let y = S { a: 2 }; let b = x < y && !(y <= x) || x.a == 2; (b, (-(x + y)).a) }",
  "struct S { a: i64, b: (i64, bool) } fn f(x: &mut i64) { *x = *x + 1; } fn g(s: &mut S) -> i64 { s.a = s.a * 2; s.a } "
  \o "fn main() -> S { let mut n = 1; f(&mut n); let mut s = S { a: n, b: (n, true) }; let p = g(&mut s); s.a = s.a + p; s }",
  "struct S { a: (string, i64) } fn f(s: &mut S) { s.a = (str, 2); } "
  \o "fn main() -> S { let mut s = S { a: (str, 1) }; f(&mut s); let t = s.a; s.a = (str, 3); s }" }

\* Values that own memory, and destructors on every way out of a scope.
Owned == {
  "struct S { a: string, b: i64 } fn f(s: S) -> string { s.a } fn g(s: &S) -> bool { s.a == str } "
  \o "fn main() -> (string, bool) { let x = S { a: str, b: 1 }; let b = g(&x); let y = f(x); let mut z = y; z = str; (z, b) }",
  Res1 \o "fn f(b: bool) -> S { let x = S { a: str }; let y = S { a: str }; if b { return x; } "
  \o "loop { let z = S { a: str }; if b { break; } return z; } y } fn main() -> bool { let x = f(true); let y = f(false); x.a == y.a }",
  Res1 \o "fn main() -> (i64, S) { let mut n = 0; let mut x = S { a: str }; while n < 3 { let s = S { a: str }; n = n + 1; "
  \o "if n == 1 { continue; } let t = S { a: str }; x = s; if n == 2 { break; } } (n, x) }",
  Opt \o Res1 \o "fn f(x: Option<S>, b: bool) -> bool { match x { Some(s) if b => { if s.a == str { return true; } b }, Some(s) => false, None => b } } "
  \o "fn main() -> (bool, bool, bool) { (f(Some(S { a: str }), true), f(Some(S { a: str }), false), f(None, true)) }",
  "enum Color { Red, Green(string) } fn f(c: Color) -> i64 { match c { Color::Red => 1, Color::Green(s) => 2 } } "
  \o "fn g(c: Color) -> string { match c { Color::Green(s) => s, Red => str } } "
  \o "fn main() -> (i64, string, Color) { let c = Color::Green(str); let n = f(Color::Red); (n + f(c), g(Color::Green(str)), Color::Red) }",
  "enum Color { Red, Green(string), fn drop(&mut self) { } } struct S { a: Color, b: string, fn drop(&mut self) { self.a = Color::Red; } } "
  \o "fn main() -> (string, bool) { let x = S { a: Color::Green(str), b: str }; let y = S { a: Color::Red, b: str }; "
  \o "let c = Color::Green(str); (x.b, y.b == str) }",
  Opt \o Res \o "struct E { a: i64 } methods E { fn from(x: i64) -> E { E { a: x } } } "
  \o "fn f(b: bool) -> Result<string, i64> { if b { Ok(str) } else { Err(3) } } fn g(b: bool) -> Result<bool, E> { let s = f(b)?; Ok(s == str) } "
  \o "fn main() -> (Result<bool, E>, Result<bool, E>) { (g(true), g(false)) }",
  Res \o "fn f(n: i64) -> Result<i64, string> { if n == 0 { return Err(str); } Ok(n) } "
  \o "fn g(n: i64) -> Result<i64, string> { let s = str; let x = f(n)? + f(n - 1)?; Ok(x) } "
  \o "fn main() -> (Result<i64, string>, Result<i64, string>, Result<i64, string>) { (g(0), g(1), g(2)) }" }
  \cup {Opt \o "fn f(n: i64) -> Option<string> { if n < 2 { Some(str) } else { None } } fn main() -> string { let n = " \o a
        \o "; let s = f(n - 1).unwrap(); f(n).expect(str) }" : a \in {"1", "2"}}

\* Instances of generic functions and types; the last one needs more than the cap.
Generics == {
  Opt \o "fn g<T>(x: T) -> Option<T> { Some(x) } fn h<U>(x: U) -> Option<Option<U>> { g(g(x)) } "
  \o "fn main() -> (Option<Option<i8>>, Option<bool>) { let y: i8 = -1; (h(y), g(true)) }",
  Opt \o "struct S<T> { a: T, b: i8, fn f(x: T) -> S<T> { let y: i8 = 1; S { a: x, b: y } } fn m<U>(self, x: U) -> (T, U) { (self.a, x) } } "
  \o "fn main() -> ((string, Option<bool>), i8) { let y: i8 = 3; let s = S::f(str); let p = S::f(y); (s.m(Some(true)), p.a + p.b) }",
  "fn f<T>(x: T, n: i64) -> i64 { if n == 0 { 0 } else { f(x, n - 1) } } fn main() -> i64 { f(true, 1) + f(str, 1) }",
  Opt \o "fn f<T>(x: T, n: i64) -> i64 { if n == 0 { 0 } else { f(Some(x), n - 1) } } fn main() -> i64 { f(true, 2) }" }

\* Compile-time code.
Comptime == {
  "comptime fn f(x: i64) -> i64 { let mut n = 0; let mut s = 0; while n < x { n = n + 1; if n == 2 { continue; } s = s + n; } s } "
  \o "fn main() -> i64 { f(3) + comptime { f(2) - 1 } }",
  "fn f(n: i64) -> i64 { if n < 2 { 1 } else { n * f(n - 1) } } comptime fn g(n: i64) -> i64 { f(n) } fn main() -> i64 { f(2) - g(3) }",
  "fn f<T>(x: T) -> i64 { comptime { let mut n = 0; while n < 2 { n = n + 1; } n } } fn main() -> i64 { f(true) + f(1) + f(str) }",
  "fn g<T>(x: T) -> T { x } comptime fn f(n: i64) -> i64 { g(n) } fn main() -> i64 { f(3) + 1 }",
  Opt \o "struct S { a: (i64, bool), b: Option<string> } comptime fn f(b: bool) -> S { if b { S { a: (1, b), b: Some(str) } } "
  \o "else { S { a: (2, b), b: None } } } fn main() -> (S, S) { (f(true), f(false)) }",
  "comptime fn f(n: i8) -> i8 { n + n } fn main() -> i8 { let x: i8 = 7; x + comptime { let y: i8 = 7; f(y) } }",
  "fn main() -> i64 { let n = 1; comptime { n + 1 } }",
  "comptime fn f(n: i64) -> i64 { if n == 0 { panic(str) } else { 7 / n } } fn main() -> i64 { 1 + comptime { f(2) } + comptime { f(0) } }",
  "fn main() -> i64 { comptime { let mut n = 0; while n < 8 { n = n + 0; } n } }",
  "fn f(n: i64) -> i64 { f(n) } fn main() -> i64 { comptime { f(1) } }" }

\* Programs that are not accepted.
Rejected == {
  "fn main( -> i64 { 1 }", "fn main() -> i64 { true }", "fn main() -> i64 { let x = 1; x = 2; x }", "fn main() -> i8 { let x: i8 = 8; x }",
  "fn main() -> i64 { break; 1 }", "fn f(x: i64) -> i64 { x } fn main() -> i64 { f(1, 2) }", "fn main() -> i64 { y }",
  Opt \o "fn main() -> i64 { match Some(1) { Some(x) => x } }", "fn main() -> bool { 1 + true }",
  "struct S { a: i64 } fn main() -> S { S { b: 1 } }", "struct S { a: i64 } fn main() -> i64 { let s = S { a: 1 }; s.a = 2; s.b }",
  Res \o "fn f() -> Result<i64, string> { Ok(1) } fn main() -> i64 { f()? }", "struct S { a: i64 } fn main() -> bool { S { a: 1 } < S { a: 2 } }" }

Texts == Arith \cup Unary \cup Overflows \cup Flow \cup Structs \cup Owned \cup Generics \cup Comptime \cup Rejected
MCSources == {Pieces(t) : t \in Texts}
=============================================================================
