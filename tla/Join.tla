-------------------------------- MODULE Join --------------------------------
(***************************************************************************)
(* The result slot of one task and the calls to join its handle            *)
(* (paco-runtime/src/join.rs). The task completes the slot once, from its  *)
(* body when it returns or unwinds, or from on_abandon when it panics; the *)
(* waiters it took from the slot are notified one by one after the lock is *)
(* released.                                                               *)
(***************************************************************************)
EXTENDS Integers, FiniteSets

CONSTANTS
    Tasks,          \* joiners that are tasks
    Threads,        \* joiners that are threads
    MaxSpurious     \* bound: spurious returns of std::thread::park

Joiners == Tasks \cup Threads

ASSUME JoinersAssumption == Tasks \cap Threads = {} /\ MaxSpurious \in Nat

VARIABLES
    value,          \* Slot.value
    waiters,        \* waiters[j]: entries of j in Slot.waiters
    taken,          \* taken[j]: entries of j in the list complete() took
    task,           \* running, notifying, done
    outcome,        \* how the task ended
    pc,             \* pc[j]: where joiner j is
    got,            \* got[j]: what j's join returned
    woken,          \* woken[j]: run-queue entries or the unpark token
    spurious

vars == <<value, waiters, taken, task, outcome, pc, got, woken, spurious>>

Outcomes == {"value", "panic"}

Init ==
    /\ value = "none"
    /\ waiters = [j \in Joiners |-> 0]
    /\ taken = [j \in Joiners |-> 0]
    /\ task = "running"
    /\ outcome = "none"
    /\ pc = [j \in Joiners |-> "idle"]
    /\ got = [j \in Joiners |-> "none"]
    /\ woken = [j \in Joiners |-> 0]
    /\ spurious = 0

Goto(j, from, to) ==
    /\ pc[j] = from
    /\ pc' = [pc EXCEPT ![j] = to]

CallJoin(j) ==
    /\ Goto(j, "idle", "join")
    /\ UNCHANGED <<value, waiters, taken, task, outcome, got, woken, spurious>>

\* Faulty: the result stays in the slot.
JoinTake_copy(j) ==
    /\ value # "none"
    /\ Goto(j, "join", "returned")
    /\ got' = [got EXCEPT ![j] = value]
    /\ UNCHANGED <<value, waiters, taken, task, outcome, woken, spurious>>

\* Under the slot's lock: the first to find the result takes it away.
JoinTake(j) ==
    /\ value # "none"
    /\ Goto(j, "join", "returned")
    /\ got' = [got EXCEPT ![j] = value]
    /\ value' = "none"
    /\ UNCHANGED <<waiters, taken, task, outcome, woken, spurious>>

JoinRegister(j) ==
    /\ value = "none"
    /\ Goto(j, "join", "park")
    /\ waiters' = [waiters EXCEPT ![j] = @ + 1]
    /\ UNCHANGED <<value, taken, task, outcome, got, woken, spurious>>

JoinUnparked(j) ==
    /\ Goto(j, "park", "join")
    /\ \/ /\ woken[j] > 0
          /\ woken' = [woken EXCEPT ![j] = @ - 1]
          /\ UNCHANGED spurious
       \/ /\ j \in Threads
          /\ woken[j] = 0
          /\ spurious < MaxSpurious
          /\ spurious' = spurious + 1
          /\ UNCHANGED woken
    /\ UNCHANGED <<value, waiters, taken, task, outcome, got>>

\* Faulty: the waiters stay in the slot.
Complete_silent(result) ==
    /\ task = "running"
    /\ task' = "notifying"
    /\ outcome' = result
    /\ value' = result
    /\ UNCHANGED <<waiters, taken, pc, got, woken, spurious>>

\* The locked part of complete().
Complete(result) ==
    /\ task = "running"
    /\ task' = "notifying"
    /\ outcome' = result
    /\ value' = result
    /\ taken' = waiters
    /\ waiters' = [j \in Joiners |-> 0]
    /\ UNCHANGED <<pc, got, woken, spurious>>

NotifyWaiter(j) ==
    /\ task = "notifying"
    /\ taken[j] > 0
    /\ taken' = [taken EXCEPT ![j] = @ - 1]
    /\ woken' = [woken EXCEPT ![j] = IF j \in Tasks THEN @ + 1 ELSE 1]
    /\ UNCHANGED <<value, waiters, task, outcome, pc, got, spurious>>

NotifiedAll ==
    /\ task = "notifying"
    /\ \A j \in Joiners : taken[j] = 0
    /\ task' = "done"
    /\ UNCHANGED <<value, waiters, taken, outcome, pc, got, woken, spurious>>

JoinStep(j) == JoinTake(j) \/ JoinRegister(j) \/ JoinUnparked(j)

TaskStep ==
    \/ \E r \in Outcomes : Complete(r)
    \/ \E j \in Joiners : NotifyWaiter(j)
    \/ NotifiedAll

Next == TaskStep \/ \E j \in Joiners : CallJoin(j) \/ JoinStep(j)

Safety == Init /\ [][Next]_vars

\* Joiners are run by the scheduler or the operating system, and the task is
\* taken to end: what is asked is whether its joiners learn of it.
Spec == Safety /\ WF_vars(TaskStep) /\ \A j \in Joiners : WF_vars(JoinStep(j))

-----------------------------------------------------------------------------

TypeOK ==
    /\ value \in Outcomes \cup {"none"}
    /\ waiters \in [Joiners -> Nat]
    /\ taken \in [Joiners -> Nat]
    /\ task \in {"running", "notifying", "done"}
    /\ outcome \in Outcomes \cup {"none"}
    /\ pc \in [Joiners -> {"idle", "join", "park", "returned"}]
    /\ got \in [Joiners -> Outcomes \cup {"none"}]
    /\ woken \in [Joiners -> Nat]
    /\ spurious \in 0..MaxSpurious

\* While the result is in the slot, a joiner that sleeps without a wake-up is
\* one complete() is still going to notify: registering and completing exclude
\* each other by the slot's lock.
NoLostJoinWakeup ==
    \A j \in Joiners :
        (pc[j] = "park" /\ woken[j] = 0 /\ value # "none") => taken[j] > 0

\* The result leaves the slot once, to one joiner, unchanged; a second join on
\* the handle never gets a stale or second copy of it.
DeliveredOnce ==
    LET winners == {j \in Joiners : pc[j] = "returned"} IN
        /\ Cardinality(winners) = (IF outcome # "none" /\ value = "none" THEN 1 ELSE 0)
        /\ \A j \in winners : got[j] = outcome

\* A joiner is inside of join from its call until it has the result.
Op == [j \in Joiners |-> IF pc[j] = "park" THEN "join" ELSE pc[j]]

Handle == INSTANCE OneShot WITH None <- "none", op <- Op

\* JoinHandle::join: the outcome that complete() stored goes to one joiner, once,
\* in every interleaving of joiners that register, sleep and are notified; and if
\* anyone joins, someone gets it.
ImplementsOneShot == Handle!Spec
=============================================================================
