----------------------------- MODULE Ownership -----------------------------
(***************************************************************************)
(* What the ownership rules promise at run time.  A function the move      *)
(* analysis (MoveCheck) accepts is lowered (Lowering) and executed with    *)
(* the drop flags both code generators and the compile-time interpreter    *)
(* keep: one flag per local that may own something, set when the local is  *)
(* written, cleared when it is moved out of or dropped                     *)
(* (paco-codegen-cranelift/src/lib.rs, paco-codegen-llvm/src/codegen.rs,   *)
(* paco-comptime/src/machine.rs agree on it).                              *)
(*                                                                         *)
(* A value is an id; "live" are the values made and not yet dropped or     *)
(* handed to another owner (a callee, a task, the caller).  An id is used  *)
(* again once no local holds its bits, so runs of any length are finite.   *)
(***************************************************************************)
EXTENDS Lowering

CONSTANTS Params,      \* the names of the function's parameters, a sequence
          Programs     \* the function bodies to look at

ASSUME ParamsAssumption == IsInjective(Params)

VARIABLES program,     \* the function body, as source
          mir,         \* the lowered function: its blocks, locals and named locals
          pc,          \* <<block, position in it>>, or Returned
          flags,       \* the drop flags
          val,         \* the bits each local holds: a value id, or None before any
          live         \* the values this frame answers for

vars == <<program, mir, pc, flags, val, live>>

Returned == <<None, None>>
Locals == 1..mir.locals
Instr == mir.blocks[pc[1]][pc[2]]
At(op) == pc # Returned /\ Instr.op = op

(* One more id than can be held is enough to find a fresh one.             *)
Ids == 1..(mir.locals + 1)
Fresh == Min(Ids \ (live \cup {val[l] : l \in Locals}))

(* The parameters arrive owned.                                            *)
Init ==
    /\ program \in {p \in Programs : Accepted(Params, p)}
    /\ mir = LET lw == lower_instance(Params, program)
             IN  [blocks |-> lw.blocks, locals |-> lw.locals, named |-> lw.named]
    /\ pc = <<1, 1>>
    /\ flags = [l \in Locals |-> l \in DOMAIN Params]
    /\ val = [l \in Locals |-> IF l \in DOMAIN Params THEN l ELSE None]
    /\ live = DOMAIN Params

Next_pc == pc' = <<pc[1], pc[2] + 1>>
Jump(to) == pc' = <<to, 1>>

(* drop_local_if_owned: what is live after the value of l, if owned, goes. *)
drop_local_if_owned(l, values) == IF flags[l] THEN values \ {val[l]} ELSE values

(* Faulty: the old value is overwritten without a drop.                    *)
write_place_forgets(dst, v, moved, values) ==
    /\ val' = [val EXCEPT ![dst] = v]
    /\ flags' = [l \in Locals |-> l = dst \/ (flags[l] /\ l \notin moved)]
    /\ live' = values

(* write_place to a local: its old value is dropped, the flag set.         *)
write_place(dst, v, moved, values) ==
    /\ val' = [val EXCEPT ![dst] = v]
    /\ flags' = [l \in Locals |-> l = dst \/ (flags[l] /\ l \notin moved)]
    /\ live' = drop_local_if_owned(dst, values)

(* Faulty: a moved local keeps its flag.                                   *)
ExecAssign_keeps ==
    /\ At("assign")
    /\ LET src == Instr.src IN
       IF src.from = "field" THEN write_place(Instr.dst, Fresh, {}, live \cup {Fresh})
       ELSE write_place(Instr.dst, val[src.l], {}, live)
    /\ Next_pc
    /\ UNCHANGED <<program, mir>>

(* Statement::Assign(dst, Use(operand)); owned_operand moves a local or    *)
(* the payload of a TRY_TEMP and clears its flag, and clones a field.      *)
ExecAssign ==
    /\ At("assign")
    /\ LET src == Instr.src IN
       IF src.from = "field" THEN write_place(Instr.dst, Fresh, {}, live \cup {Fresh})
       ELSE write_place(Instr.dst, val[src.l], {src.l}, live)
    /\ Next_pc
    /\ UNCHANGED <<program, mir>>

(* Statement::Drop.                                                        *)
ExecDrop ==
    /\ At("drop")
    /\ live' = drop_local_if_owned(Instr.l, live)
    /\ flags' = [flags EXCEPT ![Instr.l] = FALSE]
    /\ Next_pc
    /\ UNCHANGED <<program, mir, val>>

(* Statement::Store of a capture: the task owns the value now.             *)
ExecStore ==
    /\ At("store")
    /\ live' = live \ {val[Instr.l]}
    /\ flags' = [flags EXCEPT ![Instr.l] = FALSE]
    /\ Next_pc
    /\ UNCHANGED <<program, mir, val>>

(* A read leaves ownership alone.                                          *)
ExecRead ==
    /\ At("read")
    /\ Next_pc
    /\ UNCHANGED <<program, mir, flags, val, live>>

(* Goto, and SwitchInt on a value the model does not know.                 *)
ExecJump ==
    /\ \/ At("goto") /\ Jump(Instr.to)
       \/ At("switch") /\ \E i \in DOMAIN Instr.to : Jump(Instr.to[i])
    /\ UNCHANGED <<program, mir, flags, val, live>>

(* Terminator::Call: the callee owns the argument and drops it; its result *)
(* is written to the destination.                                          *)
ExecCall ==
    /\ At("call")
    /\ LET given == IF Instr.arg = None THEN {} ELSE {Instr.arg}
           kept == live \ {val[l] : l \in given}
       IN  IF Instr.dst = None
           THEN /\ live' = kept
                /\ flags' = [l \in Locals |-> flags[l] /\ l \notin given]
                /\ val' = val
           ELSE write_place(Instr.dst, Fresh, given, kept \cup {Fresh})
    /\ Jump(Instr.to)
    /\ UNCHANGED <<program, mir>>

(* A select arm's paco_rt_recv writes the local through its address: the   *)
(* flag is not touched.                                                    *)
ExecRecv ==
    /\ At("recv")
    /\ val' = [val EXCEPT ![Instr.l] = Fresh]
    /\ live' = live \cup {Fresh}
    /\ Jump(Instr.to)
    /\ UNCHANGED <<program, mir, flags>>

(* Terminator::Return: the result leaves, then drop_all_owned.             *)
ExecReturn ==
    /\ At("return")
    /\ live' = live \ ({val[Instr.l]} \cup {val[l] : l \in {i \in Locals : flags[i]}})
    /\ flags' = [l \in Locals |-> FALSE]
    /\ pc' = Returned
    /\ UNCHANGED <<program, mir, val>>

Finished == pc = Returned /\ UNCHANGED vars

Next == \/ ExecAssign \/ ExecDrop \/ ExecStore \/ ExecRead \/ ExecJump
        \/ ExecCall \/ ExecRecv \/ ExecReturn \/ Finished

Spec == Init /\ [][Next]_vars

-----------------------------------------------------------------------------
(* The locals the next step reads or moves out of.                         *)
Touched ==
    IF pc = Returned THEN {}
    ELSE CASE Instr.op = "assign" -> {Instr.src.l}
           [] Instr.op \in {"read", "store", "return"} -> {Instr.l}
           [] Instr.op = "call" -> {Instr.arg} \ {None}
           [] OTHER -> {}

(* A function the move analysis accepts never reads or moves a local whose *)
(* value is gone or belongs to another local, on any path (check_expr,     *)
(* merge_many_branch_states and check_loop_body against what the backends  *)
(* execute).                                                               *)
NoUseAfterMove ==
    \A l \in Touched : /\ val[l] \in live
                       /\ \A m \in Locals \ {l} : flags[m] => val[m] # val[l]

(* What a drop flag owns is live, and no two flags own the same value: no  *)
(* value is dropped twice, whichever way its scope is left.                *)
SingleOwner ==
    /\ \A l \in Locals : flags[l] => val[l] \in live
    /\ \A l, m \in Locals : flags[l] /\ flags[m] /\ l # m => val[l] # val[m]

(* When the function has returned, by its tail, return or "?", every value *)
(* it made or was given is dropped or has another owner.                   *)
NoLeak == pc = Returned => live = {}

(* When a scope drops a binding, no binding declared after it still owns a *)
(* value: drop_scopes_from goes in reverse declaration order.              *)
ReverseDrops ==
    At("drop") /\ flags[Instr.l] /\ Instr.l \in mir.named
        => \A l \in mir.named : l > Instr.l => ~flags[l]

=============================================================================
