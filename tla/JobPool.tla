------------------------------ MODULE JobPool ------------------------------
(***************************************************************************)
(* What the pool for blocking calls promises those who submit jobs, with   *)
(* its threads, counters and signals left out: jobs start in the order in  *)
(* which they were submitted, each of them once, and each comes to its     *)
(* end. BlockingPool.tla is shown to implement this specification.         *)
(***************************************************************************)
EXTENDS Sequences, Integers

CONSTANT Jobs

VARIABLES
    queue,      \* jobs submitted and not yet started
    running,    \* jobs started and not yet ended
    ended

vars == <<queue, running, ended>>

Init ==
    /\ queue = <<>>
    /\ running = {}
    /\ ended = {}

\* A job is a FnOnce, so it is given to the pool once.
Submit(j) ==
    /\ j \notin running \cup ended
    /\ \A i \in 1..Len(queue) : queue[i] # j
    /\ queue' = Append(queue, j)
    /\ UNCHANGED <<running, ended>>

Start ==
    /\ queue # <<>>
    /\ Head(queue) \notin running \cup ended
    /\ queue' = Tail(queue)
    /\ running' = running \cup {Head(queue)}
    /\ UNCHANGED ended

End(j) ==
    /\ j \in running
    /\ running' = running \ {j}
    /\ ended' = ended \cup {j}
    /\ UNCHANGED queue

Next == Start \/ \E j \in Jobs : Submit(j) \/ End(j)

Safety == Init /\ [][Next]_vars

\* A queued job does not keep waiting, provided that the jobs before it end.
Spec == Safety /\ WF_vars(Start) /\ \A j \in Jobs : WF_vars(End(j))
=============================================================================
