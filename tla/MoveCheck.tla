----------------------------- MODULE MoveCheck -----------------------------
(***************************************************************************)
(* The move analysis of paco-borrow (compiler/paco-borrow/src/lib.rs): one *)
(* forward pass over a function body that tracks which bindings are moved, *)
(* merges branches, and decides whether the function is rejected with      *)
(* "use-after-move".  Borrows, types and spans are left out: every local   *)
(* here has an owning (non-Copy) type and none is borrowed.                *)
(*                                                                         *)
(* A block is a sequence of statements, a statement a record:              *)
(*   print x             print(x)           reads x                        *)
(*   call x              consume(x)         moves x                        *)
(*   assign x            x = make()                                        *)
(*   let x               let x = make()                                    *)
(*   letmove x, y        let x = y                                         *)
(*   if t, e             if cond() { t } else { e }                        *)
(*   loop b              loop { b }                                        *)
(*   while m, b          while cond(m..) { b }   m: the locals it moves    *)
(*   match y, z, g, t, e match y { A(z) [if cond()] => { t }, _ => { e } } *)
(*   select z, t, e      select { z = rx.recv() => { t } default => { e } }*)
(*   spawn b             spawn { b }                                       *)
(*   try                 attempt()?;                                       *)
(*   return x, break, continue                                             *)
(* The resolver gives every binding its own LocalId: a name is bound once. *)
(***************************************************************************)
EXTENDS Naturals, Sequences, FiniteSets, SequencesExt

(* The name of a select arm whose received value is not bound.             *)
NoName == "_"

(* BindingState, OwnershipState: the bindings in scope with whether they   *)
(* are moved and how often, the scopes in order, whether this point can be *)
(* reached, and whether a diagnostic was pushed to the reporter.  "entry"  *)
(* is the stack of the bindings at the entry of each enclosing loop (the   *)
(* code keeps the scope depth there, which is their number of scopes).     *)
NewState == [binding |-> << >>, scopes |-> << >>, reachable |-> TRUE,
             entry |-> << >>, rejected |-> FALSE, lostJump |-> FALSE]

Bound(st) == DOMAIN st.binding

push_scope(st) == [st EXCEPT !.scopes = Append(@, << >>)]

pop_scope(st) ==
    LET inner == ToSet(Last(st.scopes)) IN
    [st EXCEPT !.scopes = Front(@),
               !.binding = [x \in Bound(st) \ inner |-> @[x]]]

define(st, x) ==
    [st EXCEPT !.binding = [y \in Bound(st) \cup {x} |->
                  IF y = x THEN [moved |-> FALSE, moves |-> 0] ELSE @[y]],
               !.scopes[Len(st.scopes)] = Append(@, x)]

(* A name no scope holds is not tracked: neither use nor move is checked.  *)
check_ident_use(st, x) ==
    [st EXCEPT !.rejected = @ \/ (x \in Bound(st) /\ st.binding[x].moved)]

consume_local(st, x) ==
    IF x \notin Bound(st) THEN st
    ELSE [check_ident_use(st, x) EXCEPT
             !.binding[x] = [moved |-> TRUE, moves |-> @.moves + 1]]

consume_all(st, xs) == FoldLeft(consume_local, st, xs)

(* Expr::Assign to a local: the new value makes the binding usable again.  *)
assign_local(st, x) ==
    IF x \notin Bound(st) THEN st ELSE [st EXCEPT !.binding[x].moved = FALSE]

(* Faulty: branches that disagree about a move are not reported.           *)
merge_many_branch_states_lenient(before, branches) ==
    LET live == {i \in DOMAIN branches : branches[i].reachable}
    IN  [before EXCEPT
           !.reachable = live # {},
           !.lostJump = \E i \in DOMAIN branches : branches[i].lostJump,
           !.rejected = \E i \in DOMAIN branches : branches[i].rejected,
           !.binding = [x \in Bound(before) |->
               [moves |-> Max({branches[i].binding[x].moves : i \in DOMAIN branches}),
                moved |-> live # {} /\ \A i \in live : branches[i].binding[x].moved]]]

(* The branches of an if or a match.  An unreachable branch has no say in  *)
(* what is moved afterwards; the reachable ones have to agree.             *)
merge_many_branch_states(before, branches) ==
    LET live == {i \in DOMAIN branches : branches[i].reachable}
        movedIn(x) == {i \in live : branches[i].binding[x].moved}
        moves(x) == Max({branches[i].binding[x].moves : i \in DOMAIN branches})
        agree(x) == movedIn(x) \in {{}, live}
    IN  [before EXCEPT
           !.reachable = live # {},
           !.lostJump = \E i \in DOMAIN branches : branches[i].lostJump,
           !.rejected = \/ \E i \in DOMAIN branches : branches[i].rejected
                        \/ \E x \in Bound(before) : ~agree(x),
           !.binding = [x \in Bound(before) |->
               [moves |-> moves(x),
                moved |-> IF live # {} /\ agree(x) THEN movedIn(x) # {}
                                                   ELSE @[x].moved]]]

(* Expr::Break and Expr::Continue.  lostJump is not in the code: it notes  *)
(* that a jump leaves the iteration with a local of an outer scope moved   *)
(* in this iteration, which no later point of the analysis takes up.       *)
jump(st) ==
    LET entry == Last(st.entry) IN
    [st EXCEPT !.reachable = FALSE,
               !.lostJump = @ \/ \E x \in DOMAIN entry :
                                   st.binding[x].moved /\ ~entry[x].moved]

RECURSIVE Uses(_)

(* collect_expr_uses: the locals a block refers to.                        *)
Uses(b) ==
    LET names(s) == CASE s.k \in {"print", "call", "assign", "return"} -> {s.x}
                      [] s.k = "letmove" -> {s.y}
                      [] s.k = "match" -> {s.y} \cup Uses(s.t) \cup Uses(s.e)
                      [] s.k \in {"if", "select"} -> Uses(s.t) \cup Uses(s.e)
                      [] s.k = "while" -> ToSet(s.m) \cup Uses(s.b)
                      [] s.k \in {"loop", "spawn"} -> Uses(s.b)
                      [] OTHER -> {}
    IN  UNION {names(b[i]) : i \in DOMAIN b}

RECURSIVE check_block(_, _), check_statement(_, _)

(* check_block and consume_block: statements are checked until the first   *)
(* one that cannot be reached.                                             *)
check_block(st, b) ==
    LET step(s, stmt) == IF s.reachable THEN check_statement(s, stmt) ELSE s
    IN  pop_scope(FoldLeft(step, push_scope(st), b))

(* The body is analysed once, in a copy of the state; the state after the  *)
(* loop is the one before it.                                              *)
check_loop_body(st, b) ==
    LET body == check_block([st EXCEPT !.entry = Append(@, st.binding)], b)
        twice(x) == /\ body.binding[x].moves > st.binding[x].moves
                    /\ body.binding[x].moved
    IN  [st EXCEPT !.lostJump = body.lostJump,
                   !.rejected = body.rejected \/ \E x \in Bound(st) : twice(x)]

(* check_match: the scrutinee is moved, each arm binds in its own scope.   *)
check_match(st, s) ==
    LET before == consume_local(st, s.y)
        bound == pop_scope(check_block(define(push_scope(before), s.z), s.t))
        other == pop_scope(check_block(push_scope(before), s.e))
    IN  merge_many_branch_states(before, <<bound, other>>)

(* Expr::Spawn of a block: the block is checked in the state of the        *)
(* spawner, then what it uses and did not move is captured by a move.      *)
check_spawn(st, b) ==
    LET inner == check_block(st, b)
        captured == {x \in Uses(b) \cap Bound(inner) : ~inner.binding[x].moved}
    IN  consume_all(inner, SetToSeq(captured))

(* check_expr, and consume_expr where the value is moved.                  *)
check_statement(st, s) ==
    CASE s.k = "print" -> check_ident_use(st, s.x)
      [] s.k = "call" -> consume_local(st, s.x)
      [] s.k = "assign" -> assign_local(st, s.x)
      [] s.k = "let" -> define(st, s.x)
      [] s.k = "letmove" -> define(consume_local(st, s.y), s.x)
      [] s.k = "if" -> merge_many_branch_states(st, <<check_block(st, s.t), check_block(st, s.e)>>)
      [] s.k = "loop" -> check_loop_body(st, s.b)
      [] s.k = "while" -> check_loop_body(consume_all(st, s.m), s.b)
      [] s.k = "match" -> check_match(st, s)
      [] s.k = "select" -> check_block(check_block(st, s.t), s.e)
      [] s.k = "spawn" -> check_spawn(st, s.b)
      [] s.k = "return" -> [consume_local(st, s.x) EXCEPT !.reachable = FALSE]
      [] s.k \in {"break", "continue"} -> jump(st)
      [] s.k = "try" -> st

(* check_function: the parameters are bound in a scope around the body.    *)
check_function(params, body) ==
    check_block(FoldLeft(define, push_scope(NewState), params), body)

Accepted(params, body) == ~check_function(params, body).rejected

=============================================================================
