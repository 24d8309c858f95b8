------------------------------ MODULE TaskPool ------------------------------
(***************************************************************************)
(* What the scheduler promises a program, with its queues, its parking and *)
(* its notifications left out: every task is new, ready, running, waiting  *)
(* or done, runs on one worker at a time, is resumed only once it has left *)
(* the stack it ran on, and a wake-up is never lost. run_until_idle comes  *)
(* back when every task is done, and after the Runtime is dropped no task  *)
(* runs. Scheduler.tla is shown to implement this specification.           *)
(***************************************************************************)
CONSTANTS Workers, Tasks

VARIABLES
    state,      \* state[t]: new, ready, running, waiting or done
    on,         \* on[t]: the workers on whose stacks t's coroutine is
    main        \* the main thread: user, idling, dropping or dropped

vars == <<state, on, main>>

Init ==
    /\ state = [t \in Tasks |-> "new"]
    /\ on = [t \in Tasks |-> {}]
    /\ main = "user"

Move(t, from, to) ==
    /\ state[t] = from
    /\ state' = [state EXCEPT ![t] = to]

Spawn(t) ==
    /\ main # "dropped"
    /\ Move(t, "new", "ready")
    /\ UNCHANGED <<on, main>>

\* A task that is ready may still be leaving the worker it ran on before.
Run(t, w) ==
    /\ main # "dropped"
    /\ on[t] = {}
    /\ Move(t, "ready", "running")
    /\ on' = [on EXCEPT ![t] = {w}]
    /\ UNCHANGED main

Yield(t) == Move(t, "running", "ready") /\ UNCHANGED <<on, main>>

Wait(t) == Move(t, "running", "waiting") /\ UNCHANGED <<on, main>>

Wake(t) == Move(t, "waiting", "ready") /\ UNCHANGED <<on, main>>

\* The coroutine has switched back to its worker.
Leave(t) ==
    /\ state[t] # "running"
    /\ on[t] # {}
    /\ on' = [on EXCEPT ![t] = {}]
    /\ UNCHANGED <<state, main>>

Finish(t) ==
    /\ Move(t, "running", "done")
    /\ on' = [on EXCEPT ![t] = {}]
    /\ UNCHANGED main

-----------------------------------------------------------------------------

MainStep(from, to) ==
    /\ main = from
    /\ main' = to
    /\ UNCHANGED <<state, on>>

RunUntilIdle == MainStep("user", "idling")

Idle ==
    /\ \A t \in Tasks : state[t] \in {"new", "done"}
    /\ MainStep("idling", "user")

Drop == MainStep("user", "dropping")

Dropped ==
    /\ \A t \in Tasks : on[t] = {}
    /\ MainStep("dropping", "dropped")

-----------------------------------------------------------------------------

TakenUp(t) == \E w \in Workers : Run(t, w)

Next ==
    \/ \E t \in Tasks :
        \/ Spawn(t) \/ TakenUp(t) \/ Yield(t) \/ Wait(t) \/ Wake(t) \/ Leave(t) \/ Finish(t)
    \/ RunUntilIdle \/ Idle \/ Drop \/ Dropped

Safety == Init /\ [][Next]_vars

\* A ready task is taken up, unless the runtime is being dropped, and
\* run_until_idle does not miss the end of the last task.
Spec ==
    /\ Safety
    /\ \A t \in Tasks : WF_vars(Leave(t)) /\ WF_vars(main # "dropping" /\ TakenUp(t))
    /\ WF_vars(Idle)
=============================================================================
