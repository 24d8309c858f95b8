------------------------------ MODULE Usefulness ------------------------------
(***************************************************************************)
(* Exhaustiveness and reachability of match arms (paco-match/src/lib.rs).  *)
(*                                                                         *)
(* What a pattern covers is [k, keys, ranges]: everything ("all"), some    *)
(* constructors and literals `keys` and integer intervals `ranges`         *)
(* ("some"), or nothing the analysis can name ("opaque").  A constructor   *)
(* is <<enum, variant>>, a literal <<"literal", value>>.                   *)
(***************************************************************************)
EXTENDS Integers, SequencesExt

\* The value of an integer literal (parse_int_literal).
IntValue == [l \in {"0", "1", "2", "0x2", "3", "7", "8"} |->
  CASE l = "0" -> 0 [] l = "1" -> 1 [] l \in {"2", "0x2"} -> 2 [] l = "3" -> 3 [] l = "7" -> 7 [] l = "8" -> 8]
Literals == {"integer", "string", "char", "true", "false"}
literal_key(p) ==
  CASE p.k = "integer" -> <<"literal", IntValue[p.n]>>
    [] p.k \in {"true", "false"} -> <<"bool", p.k>>
    [] OTHER -> <<p.k, p.n>>

Cover(kd, keys, ranges) == [k |-> kd, keys |-> keys, ranges |-> ranges]
CatchAll == Cover("all", {}, {})
Opaque   == Cover("opaque", {}, {})

RECURSIVE is_irrefutable_pattern(_)
is_irrefutable_pattern(p) ==
  CASE p.k \in {"_", "identifier"} -> TRUE
    [] p.k \in {"@", "patRef"}     -> is_irrefutable_pattern(p.c[2])
    [] p.k = "or"        -> \E i \in DOMAIN p.c : is_irrefutable_pattern(p.c[i])
    [] p.k = "patStruct" -> \A i \in DOMAIN p.c[2].c : p.c[2].c[i].k = "rest" \/ is_irrefutable_pattern(p.c[2].c[i].c[2])
    [] OTHER             -> FALSE

\* IntRange: the first and the last integer of the interval.
int_range(p) == <<IntValue[p.c[1].n], IntValue[p.c[2].n] - (IF p.k = "..=" THEN 0 ELSE 1)>>

\* A bare `Some(x)` is qualified with the scrutinee's enum (qualify_bare_variant_pattern).
RECURSIVE pattern_coverage(_, _)
pattern_coverage(p, enum) ==
  CASE p.k \in {"_", "identifier"} -> CatchAll
    [] p.k \in {"@", "patRef"}     -> pattern_coverage(p.c[2], enum)
    [] p.k \in Literals            -> Cover("some", {literal_key(p)}, {})
    [] p.k = "patEnum" ->
         IF (Len(p.c[1].c) >= 2 \/ enum # "none") /\ \A i \in DOMAIN p.c[2].c : is_irrefutable_pattern(p.c[2].c[i])
         THEN Cover("some", {<<IF Len(p.c[1].c) >= 2 THEN p.c[1].c[1].n ELSE enum, Last(p.c[1].c).n>>}, {})
         ELSE Opaque
    [] p.k \in {"..", "..="} -> IF p.c[1].k = "integer" /\ p.c[2].k = "integer"
                                THEN Cover("some", {}, {int_range(p)}) ELSE Opaque
    [] p.k = "or" ->
         LET all == {pattern_coverage(p.c[i], enum) : i \in DOMAIN p.c}
         IN  IF \E c \in all : c.k = "all" THEN CatchAll
             ELSE IF \E c \in all : c.k = "opaque" THEN Opaque
             ELSE Cover("some", UNION {c.keys : c \in all}, UNION {c.ranges : c \in all})
    [] p.k = "patStruct" /\ is_irrefutable_pattern(p) -> CatchAll
    [] OTHER -> Opaque

contains_range(r, q) == r[1] <= q[1] /\ q[2] <= r[2]
contains_key(covered, key) ==
  \/ key \in covered.keys
  \/ key[1] = "literal" /\ \E r \in covered.ranges : r[1] <= key[2] /\ key[2] <= r[2]
Covered(c, covered) ==
  /\ c.k = "some"
  /\ \A key \in c.keys : contains_key(covered, key)
  /\ \A q \in c.ranges : \E r \in covered.ranges : contains_range(r, q)

\* The analysis after one more arm: `done` once everything is covered, `ok` while no arm is
\* unreachable.  An arm with a guard covers nothing.
add_arm(acc, arm, closed, enum) ==
  LET c     == pattern_coverage(arm.c[1], enum)
      keys  == acc.keys \cup c.keys
      ranges == acc.ranges \cup c.ranges
      all   == [keys |-> keys, ranges |-> ranges]
  IN  CASE acc.done \/ Covered(c, acc) -> [acc EXCEPT !.ok = FALSE]
        [] ~acc.done /\ ~Covered(c, acc) /\ arm.c[2].k # "none" -> acc
        [] OTHER -> [acc EXCEPT !.keys = keys, !.ranges = ranges,
                       !.done = c.k = "all" \/ (closed # {} /\ \A key \in closed : contains_key(all, key))]
\* analyze_match: whether every value is covered and every arm can be reached.  `closed` are
\* the constructors of a type that has finitely many.
analyze_match(arms, closed, enum) ==
  LET r == FoldLeft(LAMBDA acc, arm : add_arm(acc, arm, closed, enum),
                    [done |-> FALSE, ok |-> TRUE, keys |-> {}, ranges |-> {}], arms)
  IN  [exhaustive |-> r.done, reachable |-> r.ok]
=============================================================================
