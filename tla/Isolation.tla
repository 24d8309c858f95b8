----------------------------- MODULE Isolation -----------------------------
(***************************************************************************)
(* How a panic leaves the coroutine it happens in and nothing more         *)
(* (paco-runtime/src/abandon.rs, task.rs, and the generators and `raise`   *)
(* of paco-runtime-ffi). Each worker thread keeps, in thread locals, the   *)
(* stack of isolated coroutines (CONTEXTS) and the running generator       *)
(* (CURRENT_YIELDER); both must agree with the nesting of coroutines that  *)
(* really runs on the thread, while tasks move between workers.            *)
(*                                                                         *)
(* A panic in a generator is left to its resumer and raised again there,   *)
(* in one coroutine after the other, until a task boundary ends the task.  *)
(***************************************************************************)
EXTENDS Integers, Sequences, FiniteSets

CONSTANTS
    Workers, Tasks, Nobody,
    Generators      \* 1..n, in the order of their creation

None == 0           \* no generator, the null CURRENT_YIELDER

ASSUME GeneratorsAssumption ==
    /\ Generators \subseteq Nat \ {None}
    /\ Nobody \notin Tasks
    /\ Tasks \cap Generators = {}

VARIABLES
    on,             \* on[w]: the task worker w resumed, or Nobody
    contexts,       \* contexts[w]: CONTEXTS of w's thread
    yielder,        \* yielder[w]: CURRENT_YIELDER of w's thread
    task,           \* task[t]: ready, running or finished
    frames,         \* frames[t]: the generators t is inside of, innermost last
    waits,          \* waits[t]: the generator whose mutex t blocks on, or None
    raising,        \* raising[t]: t is in `raise`, called by a resumer
    life,           \* life[g]: Some coroutine, none (finished) or released
    locked,         \* locked[g]: g's mutex is held
    outer,          \* outer[g]: the local of that name in g's resume
    panicked,       \* generators left by a panic
    iterBlocks,     \* the program's iter functions make blocking calls
    process         \* up, exited (status 101), aborted or undefined

generators == <<life, locked, outer, panicked, iterBlocks>>
vars == <<on, contexts, yielder, task, frames, waits, raising, generators, process>>

Init ==
    /\ on = [w \in Workers |-> Nobody]
    /\ contexts = [w \in Workers |-> <<>>]
    /\ yielder = [w \in Workers |-> None]
    /\ task = [t \in Tasks |-> "ready"]
    /\ frames = [t \in Tasks |-> <<>>]
    /\ waits = [t \in Tasks |-> None]
    /\ raising = [t \in Tasks |-> FALSE]
    /\ life = [g \in Generators |-> "some"]
    /\ locked = [g \in Generators |-> FALSE]
    /\ outer = [g \in Generators |-> None]
    /\ panicked = {}
    /\ iterBlocks \in BOOLEAN
    /\ process = "up"

Last(s) == s[Len(s)]
Front(s) == SubSeq(s, 1, Len(s) - 1)

\* Vec::pop, which leaves an empty vector alone.
Popped(s) == IF s = <<>> THEN s ELSE Front(s)

\* isolate(), and the drop of its guard.
isolate(w, c) == contexts' = [contexts EXCEPT ![w] = Append(@, c)]

DropIsolated(w) == contexts' = [contexts EXCEPT ![w] = Popped(@)]

\* The generator task t runs in, if any.
Inner(t) == IF frames[t] = <<>> THEN None ELSE Last(frames[t])

\* Worker w executes code of the program, in task t.
Running(w, t) ==
    /\ process = "up"
    /\ on[w] = t
    /\ waits[t] = None
    /\ ~raising[t]

-----------------------------------------------------------------------------
(* task::resume: the worker takes a task up, and the task gives it back.   *)

Resume(w, t) ==
    /\ process = "up"
    /\ on[w] = Nobody
    /\ task[t] = "ready"
    /\ on' = [on EXCEPT ![w] = t]
    /\ task' = [task EXCEPT ![t] = "running"]
    /\ isolate(w, t)
    /\ UNCHANGED <<yielder, frames, waits, raising, generators, process>>

\* suspend_current: whatever coroutine runs, it is the task that is suspended.
Suspend(w, t) ==
    /\ Running(w, t)
    /\ iterBlocks \/ frames[t] = <<>>
    /\ on' = [on EXCEPT ![w] = Nobody]
    /\ task' = [task EXCEPT ![t] = "ready"]
    /\ DropIsolated(w)
    /\ UNCHANGED <<yielder, frames, waits, raising, generators, process>>

\* The task's body returns, or it is left by a panic.
TaskEnds(w, t) ==
    /\ on' = [on EXCEPT ![w] = Nobody]
    /\ task' = [task EXCEPT ![t] = "finished"]
    /\ frames' = [frames EXCEPT ![t] = <<>>]
    /\ raising' = [raising EXCEPT ![t] = FALSE]
    /\ DropIsolated(w)
    /\ UNCHANGED <<yielder, waits, generators, process>>

Return(w, t) ==
    /\ Running(w, t)
    /\ frames[t] = <<>>
    /\ TaskEnds(w, t)

-----------------------------------------------------------------------------
(* Generators. A generator can only have captured older ones, and a handle *)
(* may be shared between tasks.                                            *)

Reaches(t, g) == frames[t] = <<>> \/ g < Inner(t)

\* paco_rt_generator_next takes the generator's mutex, blocking the thread.
CallNext(w, t, g) ==
    /\ Running(w, t)
    /\ Reaches(t, g)
    /\ life[g] # "released"
    /\ waits' = [waits EXCEPT ![t] = g]
    /\ UNCHANGED <<on, contexts, yielder, task, frames, raising, generators, process>>

\* GeneratorOpaque::resume, up to the switch to the generator's coroutine.
Enter(w, t, g) ==
    /\ outer' = [outer EXCEPT ![g] = yielder[w]]
    /\ yielder' = [yielder EXCEPT ![w] = g]
    /\ isolate(w, g)
    /\ frames' = [frames EXCEPT ![t] = Append(@, g)]

\* Faulty: does not wait for the mutex.
NextLocked_unlocked(w, t, g) ==
    /\ process = "up"
    /\ on[w] = t
    /\ waits[t] = g
    /\ life[g] = "some"
    /\ waits' = [waits EXCEPT ![t] = None]
    /\ Enter(w, t, g)
    /\ UNCHANGED <<iterBlocks, on, task, raising, life, locked, panicked, process>>

NextLocked(w, t, g) ==
    /\ process = "up"
    /\ on[w] = t
    /\ waits[t] = g
    /\ ~locked[g]
    /\ waits' = [waits EXCEPT ![t] = None]
    /\ IF life[g] = "some"
       THEN Enter(w, t, g) /\ locked' = [locked EXCEPT ![g] = TRUE]
       ELSE UNCHANGED <<contexts, yielder, frames, outer, locked>>
    /\ UNCHANGED <<iterBlocks, on, task, raising, life, panicked, process>>

\* The last handle is released: an unfinished generator is resumed once more,
\* to be cancelled, without its mutex.
Release(w, t, g) ==
    /\ Running(w, t)
    /\ Reaches(t, g)
    /\ life[g] = "some"
    /\ ~locked[g]
    /\ \A u \in Tasks : waits[u] # g
    /\ life' = [life EXCEPT ![g] = "released"]
    /\ Enter(w, t, g)
    /\ UNCHANGED <<iterBlocks, on, task, waits, raising, locked, panicked, process>>

\* Faulty: the outer generator is not restored.
Leave_keep(w, t, g) ==
    /\ DropIsolated(w)
    /\ frames' = [frames EXCEPT ![t] = Front(@)]
    /\ UNCHANGED yielder

\* GeneratorOpaque::resume, from the switch back on.
Leave(w, t, g) ==
    /\ DropIsolated(w)
    /\ yielder' = [yielder EXCEPT ![w] = outer[g]]
    /\ frames' = [frames EXCEPT ![t] = Front(@)]

\* paco_rt_generator_yield suspends the coroutine its thread local names. Without
\* one the assertion fails, in a function that must not unwind; another one is
\* not running, and suspending it is undefined.
Yield(w, t, g) ==
    /\ Running(w, t)
    /\ g = Inner(t)
    /\ g # None
    /\ IF yielder[w] = g
       THEN /\ Leave(w, t, g)
            /\ locked' = [locked EXCEPT ![g] = FALSE]
            /\ UNCHANGED process
       ELSE /\ process' = IF yielder[w] = None THEN "aborted" ELSE "undefined"
            /\ UNCHANGED <<contexts, yielder, frames, locked>>
    /\ UNCHANGED <<iterBlocks, on, task, waits, raising, life, outer, panicked>>

\* Faulty: the mutex is kept.
GeneratorReturns_locked(w, t, g) ==
    /\ Running(w, t)
    /\ g = Inner(t)
    /\ g # None
    /\ Leave(w, t, g)
    /\ life' = [life EXCEPT ![g] = IF @ = "some" THEN "none" ELSE @]
    /\ UNCHANGED <<iterBlocks, on, task, waits, raising, locked, outer, panicked, process>>

\* The generator's body returns; what drives it sees the end of the sequence.
GeneratorReturns(w, t, g) ==
    /\ Running(w, t)
    /\ g = Inner(t)
    /\ g # None
    /\ Leave(w, t, g)
    /\ locked' = [locked EXCEPT ![g] = FALSE]
    /\ life' = [life EXCEPT ![g] = IF @ = "some" THEN "none" ELSE @]
    /\ UNCHANGED <<iterBlocks, on, task, waits, raising, outer, panicked, process>>

-----------------------------------------------------------------------------
(* abandon() and what the resumers do about it.                            *)

\* The innermost context decides who is left.
Context(w) == IF contexts[w] = <<>> THEN Nobody ELSE Last(contexts[w])

\* Faulty: take_abandoned is not asked, and the task counts as suspended.
RaiseInTask_suspended(w, t) ==
    /\ Context(w) = t
    /\ on' = [on EXCEPT ![w] = Nobody]
    /\ task' = [task EXCEPT ![t] = "ready"]
    /\ DropIsolated(w)
    /\ UNCHANGED <<yielder, frames, waits, raising, generators, process>>

RaiseInTask(w, t) ==
    /\ Context(w) = t
    /\ TaskEnds(w, t)

\* The resumer raises the message again, and never gives the mutex back.
RaiseInGenerator(w, t, g) ==
    /\ Context(w) = g
    /\ g = Inner(t)
    /\ Leave(w, t, g)
    /\ raising' = [raising EXCEPT ![t] = TRUE]
    /\ panicked' = panicked \cup {g}
    /\ UNCHANGED <<iterBlocks, on, task, waits, life, locked, outer, process>>

\* No context: the process exits. One that is not running: anything may happen.
RaiseElsewhere(w, t) ==
    /\ Context(w) \notin {t} \cup ({Inner(t)} \ {None})
    /\ process' = IF Context(w) = Nobody THEN "exited" ELSE "undefined"
    /\ UNCHANGED <<on, contexts, yielder, task, frames, waits, raising, generators>>

Raise(w, t) ==
    \/ RaiseInTask(w, t)
    \/ \E g \in Generators : RaiseInGenerator(w, t, g)
    \/ RaiseElsewhere(w, t)

\* The program's code panics.
Panic(w, t) == Running(w, t) /\ Raise(w, t)

\* A resumer raises the panic of its generator again.
RaiseAgain(w, t) ==
    /\ process = "up"
    /\ on[w] = t
    /\ raising[t]
    /\ Raise(w, t)

-----------------------------------------------------------------------------

BodyStep(w, t) ==
    \/ Suspend(w, t) \/ Return(w, t) \/ Panic(w, t)
    \/ \E g \in Generators :
        \/ CallNext(w, t, g) \/ Release(w, t, g)
        \/ Yield(w, t, g) \/ GeneratorReturns(w, t, g)

RuntimeStep(w) ==
    \E t \in Tasks :
        \/ RaiseAgain(w, t)
        \/ \E g \in Generators : NextLocked(w, t, g)

Next ==
    \E w \in Workers :
        \/ RuntimeStep(w)
        \/ \E t \in Tasks : Resume(w, t) \/ BodyStep(w, t)

Safety == Init /\ [][Next]_vars

\* Worker threads run, and a generator's body yields, returns or panics sooner or
\* later: it is code of the program that does not loop for ever.
Spec ==
    /\ Safety
    /\ \A w \in Workers :
        /\ WF_vars(RuntimeStep(w))
        /\ WF_vars(\E t \in Tasks, g \in Generators : Yield(w, t, g) \/ GeneratorReturns(w, t, g))

-----------------------------------------------------------------------------

TypeOK ==
    /\ on \in [Workers -> Tasks \cup {Nobody}]
    /\ contexts \in [Workers -> Seq(Tasks \cup Generators)]
    /\ yielder \in [Workers -> Generators \cup {None}]
    /\ task \in [Tasks -> {"ready", "running", "finished"}]
    /\ frames \in [Tasks -> Seq(Generators)]
    /\ waits \in [Tasks -> Generators \cup {None}]
    /\ raising \in [Tasks -> BOOLEAN]
    /\ life \in [Generators -> {"some", "none", "released"}]
    /\ locked \in [Generators -> BOOLEAN]
    /\ outer \in [Generators -> Generators \cup {None}]
    /\ panicked \subseteq Generators
    /\ iterBlocks \in BOOLEAN
    /\ process \in {"up", "exited", "aborted", "undefined"}

\* If no iter function blocks, each thread's CONTEXTS names exactly the coroutines
\* nested on it and its CURRENT_YIELDER the innermost generator, also after a panic
\* in a nested one: `abandon` always leaves the coroutine that panicked, a `yield`
\* the one that yields, and neither takes the process down. A guard dropped too
\* early, too late or on another thread would break it for good.
LocalsMatch ==
    ~iterBlocks =>
        /\ process = "up"
        /\ \A w \in Workers :
            IF on[w] = Nobody THEN contexts[w] = <<>> /\ yielder[w] = None
            ELSE contexts[w] = <<on[w]>> \o frames[on[w]] /\ yielder[w] = Inner(on[w])

\* The generators some task is inside of, counted with their multiplicity.
Inside(g) == UNION {{t} \X {i \in DOMAIN frames[t] : frames[t][i] = g} : t \in Tasks}

\* A generator's mutex is held by the `next` that is inside it, and for good once a
\* `next` was left by a panic: the resumer raises again and its guard is never
\* dropped, so a later `next` on a shared handle blocks its thread. (The comment on
\* paco_rt_generator_next promises it `1` instead.) Nothing else leaves one locked,
\* except a task that panics while it is suspended inside a blocking iter function.
HeldByNext ==
    \A g \in Generators :
        /\ Inside(g) # {} \/ g \in panicked => locked[g] \/ life[g] = "released"
        /\ locked[g] => /\ life[g] # "released"
                        /\ Inside(g) # {} \/ g \in panicked \/ iterBlocks

\* No generator's coroutine is resumed while it is being resumed: `next` is
\* serialised by the mutex, releasing the last handle by there being no other.
\* This holds even when tasks are suspended inside generators and move on. The
\* mutex is held as HeldByNext says: by whoever is inside, or by a panic.
OneDriver == HeldByNext /\ \A g \in Generators : Cardinality(Inside(g)) <= 1

\* A panic that left a generator ends the task that was driving it, and only ends
\* more where iter functions block.
PanicEndsTask ==
    \A t \in Tasks : raising[t] ~> (task[t] = "finished" \/ (iterBlocks /\ process # "up"))
=============================================================================
