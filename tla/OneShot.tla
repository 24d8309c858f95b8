------------------------------ MODULE OneShot ------------------------------
(***************************************************************************)
(* What a JoinHandle promises, with the slot's lock, its waiters and their *)
(* wake-ups left out: the task's outcome is stored once, and whoever takes *)
(* it first is the only one to get it. Join.tla is shown to implement this *)
(* specification.                                                          *)
(***************************************************************************)
CONSTANTS
    Joiners,    \* tasks and threads that hold the handle
    Outcomes,   \* how a task can end
    None        \* stands for no outcome

VARIABLES
    outcome,    \* how the task ended
    value,      \* the outcome, until someone takes it
    op,         \* op[j]: whether j is inside of join, or has come back from it
    got         \* got[j]: what j's join returned

vars == <<outcome, value, op, got>>

Init ==
    /\ outcome = None
    /\ value = None
    /\ op = [j \in Joiners |-> "idle"]
    /\ got = [j \in Joiners |-> None]

Call(j) ==
    /\ op[j] = "idle"
    /\ op' = [op EXCEPT ![j] = "join"]
    /\ UNCHANGED <<outcome, value, got>>

Complete(result) ==
    /\ outcome = None
    /\ outcome' = result
    /\ value' = result
    /\ UNCHANGED <<op, got>>

Take(j) ==
    /\ op[j] = "join"
    /\ value # None
    /\ got' = [got EXCEPT ![j] = value]
    /\ op' = [op EXCEPT ![j] = "returned"]
    /\ value' = None
    /\ UNCHANGED outcome

SomeTake == \E j \in Joiners : Take(j)
SomeComplete == \E result \in Outcomes : Complete(result)

Next == SomeComplete \/ SomeTake \/ \E j \in Joiners : Call(j)

Safety == Init /\ [][Next]_vars

\* The task is taken to end; then, if anyone joins, someone gets the outcome.
Spec == Safety /\ WF_vars(SomeComplete) /\ WF_vars(SomeTake)
=============================================================================
