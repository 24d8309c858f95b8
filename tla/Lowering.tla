------------------------------ MODULE Lowering ------------------------------
(***************************************************************************)
(* The lowering of a function body to MIR basic blocks, as far as it       *)
(* decides ownership (compiler/paco-mir/src/lower.rs, Lowerer): where      *)
(* values are moved, which temporaries are made, and where every scope's   *)
(* locals are dropped, on the normal path and on return, break, continue,  *)
(* "?" and a rejected match guard.  Statements are those of MoveCheck.     *)
(*                                                                         *)
(* A Local is its index in "locals", the order of declare_local; only the  *)
(* locals of an owning type are modelled.  MIR statements and terminators: *)
(*   assign dst, src   Statement::Assign(dst, Use(src)); src is a move of  *)
(*                     a local, a field read out of one ("field"), the     *)
(*                     payload moved out of a TRY_TEMP ("payload")         *)
(*   drop l            Statement::Drop                                     *)
(*   store l           Statement::Store of a moved capture                 *)
(*   read l            Rvalue::Discriminant of l, or print's argument      *)
(*   goto to | switch to | call arg, dst, to | recv l, to | return l          *)
(*   | unreachable                                                         *)
(***************************************************************************)
EXTENDS MoveCheck

(* No destination, no argument, no dead block.                             *)
None == 0

Move(l) == [from |-> "local", l |-> l]
Field(l) == [from |-> "field", l |-> l]
Payload(l) == [from |-> "payload", l |-> l]

Goto(to) == [op |-> "goto", to |-> to]
SwitchInt(targets) == [op |-> "switch", to |-> targets]
Call(arg, dst, to) == [op |-> "call", arg |-> arg, dst |-> dst, to |-> to]
Recv(l, to) == [op |-> "recv", l |-> l, to |-> to]
Return(l) == [op |-> "return", l |-> l]
Unreachable == [op |-> "unreachable"]

Assign(dst, src) == [op |-> "assign", dst |-> dst, src |-> src]
Drop(l) == [op |-> "drop", l |-> l]
Store(l) == [op |-> "store", l |-> l]
Read(l) == [op |-> "read", l |-> l]

(* Lowerer::new: one block, one scope (the parameters').  "named" are the  *)
(* locals of bindings, "env" the local of each binding.                    *)
NewLowerer == [locals |-> 0, named |-> {}, env |-> << >>,
               blocks |-> <<<<Unreachable>>>>, current |-> 1, dead |-> None,
               statements |-> << >>, scope_locals |-> <<<< >>>>, loops |-> << >>]

declare_local(lw) == [lw EXCEPT !.locals = @ + 1]

(* A declared local is the newest one: Newest(declare_local(lw)).          *)
Newest(lw) == lw.locals

bind(lw, x, l) ==
    [lw EXCEPT !.env = [y \in DOMAIN @ \cup {x} |-> IF y = x THEN l ELSE @[y]],
               !.named = @ \cup {l},
               !.scope_locals[Len(lw.scope_locals)] = Append(@, l)]

(* push: nothing is emitted into the block after a jump.                   *)
push(lw, statement) ==
    IF lw.dead = lw.current THEN lw ELSE [lw EXCEPT !.statements = Append(@, statement)]

(* Reserves n blocks; Reserved(lw, i) is the i-th of the next ones.        *)
reserve_blocks(lw, n) ==
    [lw EXCEPT !.blocks = @ \o [i \in 1..n |-> <<Unreachable>>]]
Reserved(lw, i) == Len(lw.blocks) + i

finish_current(lw, terminator) ==
    [lw EXCEPT !.blocks[lw.current] = Append(lw.statements, terminator),
               !.statements = << >>]

switch_to(lw, id) == [lw EXCEPT !.current = id]

terminate_and_abandon(lw, terminator) ==
    LET id == Reserved(lw, 1) IN
    [switch_to(reserve_blocks(finish_current(lw, terminator), 1), id) EXCEPT !.dead = id]

push_scope_mir(lw) == [lw EXCEPT !.scope_locals = Append(@, << >>)]
pop_scope_mir(lw) == [lw EXCEPT !.scope_locals = Front(@)]

drop_each(lw, ls) == FoldLeft(LAMBDA s, l : push(s, Drop(l)), lw, ls)

(* Faulty: declaration order.                                              *)
drop_scopes_from_forward(lw, depth) ==
    drop_each(lw, FlattenSeq(SubSeq(lw.scope_locals, depth + 1, Len(lw.scope_locals))))

(* The locals of the scopes from depth on (0 is the parameters' scope),    *)
(* innermost scope first, each in reverse binding order.                   *)
drop_scopes_from(lw, depth) ==
    drop_each(lw, Reverse(FlattenSeq(SubSeq(lw.scope_locals, depth + 1, Len(lw.scope_locals)))))

end_arm_scope(lw) == pop_scope_mir(drop_scopes_from(lw, Len(lw.scope_locals) - 1))

(* A call to a function of one owned argument (or none), with an owned     *)
(* result in a fresh temporary where the function returns one.             *)
lower_call(lw, arg, hasResult) ==
    LET at == IF hasResult THEN declare_local(lw) ELSE lw
        resume == Reserved(at, 1)
        dst == IF hasResult THEN Newest(at) ELSE None
    IN  switch_to(finish_current(reserve_blocks(at, 1), Call(arg, dst, resume)), resume)

(* detach: the result leaves its local before the scope's drops.           *)
detach(lw, l) ==
    LET at == declare_local(lw) IN push(at, Assign(Newest(at), Move(l)))

(* What a statement declared and did not bind, newest first.               *)
drop_temporaries(before, after) ==
    LET bound == ToSet(Last(after.scope_locals))
        temps == [i \in 1..(after.locals - before.locals) |-> after.locals + 1 - i]
    IN  drop_each(after, SelectSeq(temps, LAMBDA l : l \notin bound))

RECURSIVE lower_statements(_, _), lower_statement(_, _)

(* A statement's temporaries are dropped after it, the bindings of the     *)
(* block at its end.                                                       *)
lower_statements(lw, b) ==
    FoldLeft(LAMBDA at, s : drop_temporaries(at, lower_statement(at, s)), lw, b)

lower_block(lw, b) == end_arm_scope(lower_statements(push_scope_mir(lw), b))

(* A pattern or let binding: a new local, assigned and bound.              *)
bind_pattern_at(lw, x, src) ==
    LET at == declare_local(lw) IN bind(push(at, Assign(Newest(at), src)), x, Newest(at))

lower_if(lw, s) ==
    LET then == Reserved(lw, 1)
        other == Reserved(lw, 2)
        join == Reserved(lw, 3)
        l1 == finish_current(reserve_blocks(lw, 3), SwitchInt(<<then, other>>))
        l2 == finish_current(lower_block(switch_to(l1, then), s.t), Goto(join))
        l3 == finish_current(lower_block(switch_to(l2, other), s.e), Goto(join))
    IN  switch_to(l3, join)

enter_loop(lw, brk, cont) ==
    [lw EXCEPT !.loops = Append(@, [break_target |-> brk, continue_target |-> cont,
                                    scope_depth |-> Len(lw.scope_locals)])]
leave_loop(lw) == [lw EXCEPT !.loops = Front(@)]

lower_loop(lw, b) ==
    LET header == Reserved(lw, 1)
        exit == Reserved(lw, 2)
        l1 == switch_to(finish_current(reserve_blocks(lw, 2), Goto(header)), header)
        l2 == leave_loop(lower_block(enter_loop(l1, exit, header), b))
    IN  switch_to(finish_current(l2, Goto(header)), exit)

(* The condition is lowered in the header: it runs on every iteration.     *)
lower_while(lw, m, b) ==
    LET header == Reserved(lw, 1)
        body == Reserved(lw, 2)
        exit == Reserved(lw, 3)
        l1 == switch_to(finish_current(reserve_blocks(lw, 3), Goto(header)), header)
        l2 == FoldLeft(LAMBDA s, x : lower_call(s, s.env[x], FALSE), l1, m)
        l3 == switch_to(finish_current(l2, SwitchInt(<<body, exit>>)), body)
        l4 == leave_loop(lower_block(enter_loop(l3, exit, header), b))
    IN  switch_to(finish_current(l4, Goto(header)), exit)

(* Expr::Break, Expr::Continue.                                            *)
lower_jump(lw, target) ==
    terminate_and_abandon(drop_scopes_from(lw, Last(lw.loops).scope_depth), Goto(target))

(* Expr::Return: the parameters are left to the terminator.                *)
lower_return(lw, l) ==
    LET at == detach(lw, l) IN
    terminate_and_abandon(drop_scopes_from(at, 1), Return(Newest(at)))

(* A match whose arms switch on the variant.                               *)
lower_match(lw, s) ==
    LET y == lw.env[s.y]
        arm == Reserved(lw, 1)
        other == Reserved(lw, 2)
        join == Reserved(lw, 3)
        l1 == finish_current(push(reserve_blocks(lw, 3), Read(y)), SwitchInt(<<arm, other>>))
        l2 == bind_pattern_at(push_scope_mir(switch_to(l1, arm)), s.z, Field(y))
        l3 == finish_current(end_arm_scope(lower_block(l2, s.t)), Goto(join))
        l4 == end_arm_scope(lower_block(push_scope_mir(switch_to(l3, other)), s.e))
    IN  switch_to(finish_current(l4, Goto(join)), join)

(* A match with a guard tests its arms in order.  A pattern that matched   *)
(* and a guard that did not drops what the pattern bound.                  *)
lower_match_chain(lw, s) ==
    LET y == lw.env[s.y]
        join == Reserved(lw, 1)
        next == Reserved(lw, 2)
        matched == Reserved(lw, 3)
        rejected == Reserved(lw, 4)
        taken == Reserved(lw, 5)
        l1 == push(push_scope_mir(reserve_blocks(lw, 5)), Read(y))
        l2 == switch_to(finish_current(l1, SwitchInt(<<matched, next>>)), matched)
        l3 == bind_pattern_at(l2, s.z, Field(y))
        bound == Last(l3.scope_locals)
        l4 == switch_to(finish_current(l3, SwitchInt(<<taken, rejected>>)), taken)
        l5 == finish_current(end_arm_scope(lower_block(l4, s.t)), Goto(join))
        l6 == finish_current(drop_each(switch_to(l5, rejected), Reverse(bound)), Goto(next))
        l7 == end_arm_scope(lower_block(push_scope_mir(switch_to(l6, next)), s.e))
    IN  switch_to(finish_current(l7, Goto(join)), join)

(* A select of one arm and a default.  paco_rt_recv writes the value       *)
(* through a pointer to the arm's local, which a name is bound to.         *)
lower_select(lw, s) ==
    LET join == Reserved(lw, 1)
        arm == Reserved(lw, 2)
        default == Reserved(lw, 3)
        received == Reserved(lw, 4)
        l1 == finish_current(reserve_blocks(lw, 4), SwitchInt(<<arm, default>>))
        l2 == push_scope_mir(switch_to(l1, arm))
        at == declare_local(l2)
        value == Newest(at)
        got == switch_to(finish_current(at, Recv(value, received)), received)
        l3 == IF s.z = NoName THEN got ELSE bind(got, s.z, value)
        l4 == finish_current(end_arm_scope(lower_block(l3, s.t)), Goto(join))
        l5 == finish_current(lower_block(switch_to(l4, default), s.e), Goto(join))
    IN  switch_to(l5, join)

(* attempt()?: on Err the payload becomes the function's result.           *)
lower_try(lw) ==
    LET l1 == lower_call(lw, None, TRUE)
        try_temp == Newest(l1)
        ok == Reserved(l1, 1)
        err == Reserved(l1, 2)
        l2 == finish_current(push(reserve_blocks(l1, 2), Read(try_temp)), SwitchInt(<<ok, err>>))
        l3 == declare_local(switch_to(l2, err))
        l4 == drop_scopes_from(push(l3, Assign(Newest(l3), Payload(try_temp))), 1)
        l5 == declare_local(switch_to(terminate_and_abandon(l4, Return(Newest(l3))), ok))
    IN  push(l5, Assign(Newest(l5), Payload(try_temp)))

(* Captures are moved into the task's buffer; the outlined thunk owns them.*)
lower_spawn(lw, b) ==
    LET captures == SetToSeq({lw.env[x] : x \in Uses(b) \cap DOMAIN lw.env})
    IN  lower_call(FoldLeft(LAMBDA s, l : push(s, Store(l)), lw, captures), None, FALSE)

(* lower_statement_at and lower_operand_at.                                *)
lower_statement(lw, s) ==
    CASE s.k = "print" -> push(lw, Read(lw.env[s.x]))
      [] s.k = "call" -> lower_call(lw, lw.env[s.x], FALSE)
      [] s.k = "assign" -> LET at == lower_call(lw, None, TRUE)
                           IN  push(at, Assign(at.env[s.x], Move(Newest(at))))
      [] s.k = "let" -> LET at == lower_call(lw, None, TRUE)
                        IN  bind_pattern_at(at, s.x, Move(Newest(at)))
      [] s.k = "letmove" -> bind_pattern_at(lw, s.x, Move(lw.env[s.y]))
      [] s.k = "if" -> lower_if(lw, s)
      [] s.k = "loop" -> lower_loop(lw, s.b)
      [] s.k = "while" -> lower_while(lw, s.m, s.b)
      [] s.k = "match" -> IF s.g THEN lower_match_chain(lw, s) ELSE lower_match(lw, s)
      [] s.k = "select" -> lower_select(lw, s)
      [] s.k = "spawn" -> lower_spawn(lw, s.b)
      [] s.k = "try" -> lower_try(lw)
      [] s.k = "return" -> lower_return(lw, lw.env[s.x])
      [] s.k = "break" -> lower_jump(lw, Last(lw.loops).break_target)
      [] s.k = "continue" -> lower_jump(lw, Last(lw.loops).continue_target)

(* The tail make() is detached before the body's scope is dropped.         *)
lower_tail(lw) == LET at == lower_call(lw, None, TRUE) IN detach(at, Newest(at))
return_tail(lw) == finish_current(end_arm_scope(lw), Return(Newest(lw)))

(* lower_instance: fn f(params) -> T { body; make() }.                     *)
lower_instance(params, body) ==
    LET declared(lw, x) == bind(declare_local(lw), x, Newest(declare_local(lw)))
        start == push_scope_mir(FoldLeft(declared, NewLowerer, params))
    IN  return_tail(lower_tail(lower_statements(start, body)))

=============================================================================
