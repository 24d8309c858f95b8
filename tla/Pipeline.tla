------------------------------ MODULE Pipeline ------------------------------
(***************************************************************************)
(* A program from its tokens to its value: parsed, checked, lowered, its   *)
(* compile-time code evaluated, lowered again with the values in place     *)
(* (lower_evaluating_comptime, paco-driver/src/lowering.rs).               *)
(*                                                                         *)
(* A session lowers the functions that are neither generic nor             *)
(* compile-time only, then the instances their call sites recorded, and    *)
(* those these record in turn.  The first session is for debug, as         *)
(* compile-time code always runs; the machine evaluates the sites it       *)
(* outlined, asking for bodies that are not there yet (Provider).  The     *)
(* second has the profile of the build.  Last, the code a generator emits  *)
(* for `main` runs, called the way one function calls another: an          *)
(* aggregate it returns has a slot of the caller.                          *)
(***************************************************************************)
EXTENDS Machine, Semantics

CONSTANTS Sources,             \* token sequences
          MaxInstantiations,   \* InstantiationRegistry::max_instantiations
          Fuel                 \* calls and iterations of the reference evaluation
ASSUME CapAssumption == MaxInstantiations \in Nat /\ Fuel \in Nat

VARIABLES source, phase, checked,
          debug,               \* the profile the program is built for
          queue,               \* functions the session has yet to lower
          seen, pending, done, \* its InstantiationRegistry, and Session::done
          sites, values,       \* the sites to evaluate, and the values they gave
          failed,              \* some site has failed
          asked                \* symbols the provider has been asked for
vars == <<source, phase, checked, debug, queue, seen, pending, done, sites, values, failed, asked, program, bodies, m>>
session == <<queue, seen, pending, done, sites, asked>>
compiled == <<source, checked, debug, program, values, failed>>

Syn  == INSTANCE Parser
Code == INSTANCE Native

Idle == NewMachine
Init ==
  /\ source \in Sources /\ phase = "source" /\ checked = Empty /\ debug \in BOOLEAN
  /\ queue = <<>> /\ seen = {} /\ pending = <<>> /\ done = {} /\ sites = <<>> /\ values = Empty /\ failed = FALSE /\ asked = {}
  /\ program = Empty /\ bodies = Empty /\ m = Idle

Parse ==
  /\ phase = "source"
  /\ LET tree == Syn!parse(source)
     IN  phase' = (IF tree.k = "error" THEN "rejected" ELSE "parsed") /\ program' = collect(tree.c)
  /\ UNCHANGED <<source, checked, debug, session, values, failed, bodies, m>>
Bases == {<<f>> : f \in DOMAIN program.functions} \cup DOMAIN program.methods \cup DOMAIN program.associated
\* Every function is checked; a program with an error is not lowered.
Eager(b) == ~is_comptime_only(function_of(program, b)) /\ ~function_is_generic(function_of(program, b))
Check ==
  /\ phase = "parsed"
  /\ checked' = [b \in Bases |-> after(check_function(program, function_of(program, b)), LAMBDA r :
                   [decl |-> function_of(program, b).decl, ret |-> function_of(program, b).ret, body |-> r.body, errs |-> r.errs])]
  /\ phase' = IF \E b \in Bases : checked'[b].errs # {} THEN "rejected" ELSE "evaluation"
  /\ queue' = SetToSeq({b \in Bases : Eager(b)})
  /\ UNCHANGED <<source, debug, seen, pending, done, sites, asked, program, values, failed, bodies, m>>

\* record: new instances join the pending ones, up to the cap.
record(wanted) ==
  LET new == SelectSeq(wanted, LAMBDA k : k \notin seen)
      first(i) == \A j \in 1 .. i - 1 : new[j] # new[i]
      todo == SelectSeq(Indices(new), first)
  IN  /\ pending' = (IF pending = <<>> THEN <<>> ELSE Tail(pending)) \o [i \in DOMAIN todo |-> new[todo[i]]]
      /\ seen' = seen \cup ToSet(wanted)
Capped(s) == \E k \in s : Cardinality({l \in s : l[1] = k[1]}) >= MaxInstantiations
\* lower_instance, and what it leaves behind.
Lowers(base, key) ==
  after(lower_instance(program, function_of(program, base), checked[base].body, instance(program, base, key), mangled_name(base, key),
                       IF phase = "final" THEN values ELSE Empty, phase = "evaluation" \/ debug), LAMBDA r :
    /\ record(r.wanted)
    /\ bodies' = r.bodies @@ bodies
    /\ sites' = IF m = Idle THEN sites \o r.sites ELSE sites
    /\ phase' = IF r.crash THEN "crashed" ELSE IF Capped(seen') THEN "capped" ELSE phase)
Lowering == phase \in {"evaluation", "final"} /\ m = Idle
LowerFunction ==
  /\ Lowering /\ queue # <<>>
  /\ Lowers(Head(queue), <<>>)
  /\ queue' = Tail(queue)
  /\ UNCHANGED <<compiled, done, asked, m>>
\* drain: an instance that is done already is skipped.
LowerInstance ==
  /\ phase \in {"evaluation", "final"} /\ queue = <<>> /\ pending # <<>>
  /\ LET k == Head(pending)
     IN  /\ done' = done \cup {k}
         /\ IF k \in done THEN pending' = Tail(pending) /\ UNCHANGED <<phase, seen, bodies, sites>>
            ELSE IF ~Declared(program, k[1]) THEN phase' = "crashed" /\ UNCHANGED <<pending, seen, bodies, sites>>
            ELSE Lowers(k[1], k[2])
  /\ UNCHANGED <<compiled, queue, asked, m>>
Lowered == queue = <<>> /\ pending = <<>>

-----------------------------------------------------------------------------
\* Compile-time evaluation (evaluate_sites, Provider).
Evaluates(name) == m' = call(NewMachine, name, <<>>, <<>>)
EvaluateSite ==
  /\ phase = "evaluation" /\ Lowered /\ m = Idle /\ sites # <<>>
  /\ Evaluates(sites[1].name)
  /\ UNCHANGED <<phase, compiled, session, bodies>>
\* The symbol the next step needs: the target of a call.
Needed == IF Running /\ frame(m).i > Len(Data(m).ss) /\ Data(m).t.t = "Call" /\ Data(m).t.f # PANIC_SYMBOL THEN {Data(m).t.f} ELSE {}
Missing == Needed \ (DOMAIN bodies \cup asked)
\* lower_named: a function that is not generic; its instances are drained before the machine goes on.
Provide ==
  /\ phase = "evaluation" /\ Lowered /\ Missing # {}
  /\ \E f \in Missing :
       /\ asked' = asked \cup {f}
       /\ IF f \in Bases /\ ~function_is_generic(function_of(program, f))
          THEN after(lower_instance(program, function_of(program, f), checked[f].body, Empty, f, Empty, TRUE), LAMBDA r :
                 /\ record(r.wanted)
                 /\ bodies' = r.bodies @@ bodies
                 /\ phase' = IF r.crash THEN "crashed" ELSE phase)
          ELSE UNCHANGED <<pending, seen, bodies, phase>>
  /\ UNCHANGED <<compiled, queue, done, sites, m>>
Executing == phase = "evaluation" /\ Lowered /\ Missing = {} /\ UNCHANGED <<phase, compiled, session, bodies>>
MachineStatement  == Executing /\ Statement
MachineTerminator == Executing /\ Terminator
Ended == m.frames = <<>> /\ m # Idle
\* The value of a site is kept; a site that fails is reported, and the build ends after the last.
Computed(t) == Value(m, t, m.v)
Embed ==
  /\ phase = "evaluation" /\ (Ended \/ m.err # "")
  /\ values' = IF m.err = "" THEN (sites[1].key :> Computed(sites[1].ty)) @@ values ELSE values
  /\ failed' = (failed \/ m.err # "") /\ sites' = Tail(sites) /\ m' = Idle
  /\ UNCHANGED <<source, phase, checked, debug, program, bodies, queue, seen, pending, done, asked>>
\* The second session, with the values in place.
LowerAgain ==
  /\ phase = "evaluation" /\ Lowered /\ m = Idle /\ sites = <<>>
  /\ phase' = IF failed THEN "failed" ELSE "final"
  /\ queue' = SetToSeq({b \in Bases : Eager(b)})
  /\ seen' = {} /\ pending' = <<>> /\ done' = {} /\ bodies' = Empty /\ asked' = {}
  /\ UNCHANGED <<compiled, sites, m>>
Main == <<"main">>
\* Either code generator may be asked for (`--backend`).
RunMain ==
  /\ phase = "final" /\ Lowered /\ m = Idle
  /\ \E b \in Code!Backends : m' = Code!Launch(b, Main)
  /\ UNCHANGED <<phase, compiled, session, bodies>>
Compiled == phase = "final" /\ Lowered /\ UNCHANGED <<phase, compiled, session, bodies>>
NativeStatement  == Compiled /\ Code!Statement
NativeTerminator == Compiled /\ Code!Terminator

Finished == m # Idle /\ m.err = "" /\ m.frames = <<>>
Stopped  == m.err # ""
AtRest   == phase \in {"rejected", "failed", "capped", "crashed"} \/ (phase = "final" /\ (Finished \/ Stopped))
Rest     == AtRest /\ UNCHANGED vars

Next == \/ Parse \/ Check \/ LowerFunction \/ LowerInstance \/ EvaluateSite \/ Provide
        \/ MachineStatement \/ MachineTerminator \/ Embed \/ LowerAgain
        \/ RunMain \/ NativeStatement \/ NativeTerminator \/ Rest
\* The compiler is one thread that runs until it is at rest.  (It is never stuck before that, or
\* TLC would report a deadlock, so this is weak fairness of Next; TLC cannot afford its ENABLED.)
Fairness == []<><<TRUE>>_vars \/ <>[]AtRest
Spec == Init /\ [][Next]_vars /\ Fairness

-----------------------------------------------------------------------------
\* An accepted program is compiled without a panic of the compiler, no two instances share a
\* symbol, and its code runs without a fault of its own: what stops it is a panic the program
\* asked for or a limit of the machine (the panics in lower.rs and machine.rs's Fault).
Sound ==
  /\ phase # "crashed"
  /\ m.err \in {"", "panic", "budget", "depth"}
  /\ \A k \in seen, l \in seen : mangled_name(k[1], k[2]) = mangled_name(l[1], l[2]) => k = l

\* What `main` and every compile-time site compute is what the program means, in the profile it is
\* built for (a site always in debug), and where they panic, the program does: parser, checker,
\* lowering, layout and machine together.
Meaning == Apply([P |-> program, checked |-> checked, ret |-> Unit], Main, <<>>, Store0(Fuel, debug))
SiteMeaning == Eval(sites[1].e, Empty, [P |-> program, checked |-> checked, ret |-> Unit], Store0(Fuel, TRUE))
Expected == IF phase = "final" THEN Meaning ELSE SiteMeaning
ResultType == IF phase = "final" THEN checked[Main].ret ELSE sites[1].ty
EvaluatesRight ==
  /\ Finished => after(Expected, LAMBDA r : r.o = "value" /\ r.v = Computed(ResultType))
  /\ m.err = "panic" => Expected.o = "panic"

\* When the code has returned, the memory that is left is what its value owns, each piece once, and
\* every value with a destructor has been dropped once unless it is part of the result
\* (drop_at, clone_at, owned_operand and the Drop statements of lower.rs).
RECURSIVE OwnedBy(_, _), WithDrop(_, _)
Parts(t, bs, F(_, _)) ==
  LET fields == IF t.k = "Enum" THEN enum_variant(program, t, decode(SubSeq(bs, 1, 8)) + 1) ELSE glue_fields(program, t)
  IN  [i \in DOMAIN fields |-> F(fields[i].ty, SubSeq(bs, fields[i].at + 1, fields[i].at + size_of(program, fields[i].ty)))]
OwnedBy(t, bs) ==
  CASE t.k = "String" -> <<Block(decode(SubSeq(bs, 1, 8)))>>
    [] t.k \in {"Struct", "Enum", "Tuple"} -> FlattenSeq(Parts(t, bs, OwnedBy))
    [] OTHER -> <<>>
WithDrop(t, bs) ==
  IF t.k \in {"Struct", "Enum", "Tuple"}
  THEN (IF user_drop(t) THEN 1 ELSE 0) + FoldLeft(LAMBDA n, i : n + i, 0, Parts(t, bs, WithDrop)) ELSE 0
Left_ == {i \in DOMAIN m.mem : ~m.mem[i].freed /\ ~m.mem[i].fixed}
MemoryReleased ==
  Finished => after(OwnedBy(ResultType, m.v), LAMBDA own :
    /\ ToSet(own) = Left_ /\ Len(own) = Cardinality(Left_)
    /\ m.built = m.dropped + WithDrop(ResultType, m.v))

\* The fields of every type the code uses are aligned, apart from one another and inside the value,
\* and the byte that says that it is live is none of them (struct_layout, enum_info).
Overlap(a, b) == a.at < b.at + size_of(program, b.ty) /\ b.at < a.at + size_of(program, a.ty)
Apart(fields) == \A i, j \in DOMAIN fields : i < j => ~Overlap(fields[i], fields[j])
Fits_(t, fields) ==
  /\ Apart(fields)
  /\ \A i \in DOMAIN fields :
       /\ fields[i].at % layout_of(program, fields[i].ty).align = 0
       /\ fields[i].at + size_of(program, fields[i].ty) <= size_of(program, t)
       /\ t.k \in Nominal => (has_drop(program, t.n) =>
            ~Overlap(fields[i], [ty |-> Bool, at |-> live_offset(program, t)]) /\ live_offset(program, t) < size_of(program, t))
LaidOut(t) ==
  /\ size_of(program, t) % layout_of(program, t).align = 0
  /\ t.k \in {"Struct", "Tuple"} => Fits_(t, glue_fields(program, t))
  /\ t.k = "Enum" => \A v \in DOMAIN program.types[t.n].variants :
                       /\ Fits_(t, enum_variant(program, t, v))
                       /\ \A i \in DOMAIN enum_variant(program, t, v) : enum_variant(program, t, v)[i].at >= DISCRIMINANT_SIZE
UsedTypes == UNION {ToSet(bodies[f].locals) : f \in DOMAIN bodies}
LayoutSound == m = Idle => \A t \in UsedTypes : LaidOut(t)

\* Every compilation ends, whatever the program does at compile time and however many instances it
\* asks for: the limits of the machine and the cap on instances see to it.
Terminates == <>AtRest
=============================================================================
