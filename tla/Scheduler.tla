----------------------------- MODULE Scheduler -----------------------------
(***************************************************************************)
(* The work-stealing scheduler (paco-runtime/src/scheduler.rs) and the     *)
(* tasks it runs (task.rs): worker threads, the shared injector and the    *)
(* local queues, parking with a timeout, wakers, the mutex around a task's *)
(* coroutine, the count of active tasks and run_until_idle, and shutdown.  *)
(*                                                                         *)
(* A step is what happens between two synchronisation operations. Agents   *)
(* are the workers, the main thread, and one external thread that stands   *)
(* for everything else that fires wakers (the I/O driver, blocking jobs).  *)
(***************************************************************************)
EXTENDS Integers, Sequences, FiniteSets

CONSTANTS
    Workers,    \* worker threads
    Tasks,      \* bound: tasks the program can spawn
    Main,       \* the thread that owns the Runtime
    Ext,        \* the external thread
    Nobody      \* holds a coroutine mutex that is free

Agents == Workers \cup {Main, Ext}

ASSUME AgentsAssumption ==
    /\ IsFiniteSet(Workers) /\ IsFiniteSet(Tasks)
    /\ Workers \cap {Main, Ext} = {} /\ Main # Ext
    /\ Nobody \notin Workers \cup Tasks

VARIABLES
    injector,   \* SchedulerShared.injector
    local,      \* local[w]: the worker's own deque, stealable by the others
    parked,     \* the count under SchedulerShared.parked
    shutdown,   \* SchedulerShared.shutdown
    active,     \* SchedulerShared.active
    pc,         \* pc[g]: where agent g is
    ret,        \* ret[g]: where g goes on after an enqueue
    cur,        \* cur[w]: the task worker w found, or Nobody
    scan,       \* scan[w]: stealers find_task has yet to try
    life,       \* life[t]: unspawned, or TaskEntry.coroutine is Some / None
    holder,     \* holder[t]: the worker that holds the coroutine mutex
    waker       \* waker[t]: the waker of t's current wait: none, armed, fired

vars == <<injector, local, parked, shutdown, active, pc, ret, cur, scan, life,
          holder, waker>>

queues == <<injector, local>>
tasks == <<life, holder, waker>>

WorkerLocations ==
    { "loop", "local", "injector", "steal",       \* worker_loop and find_task
      "park", "waiting", "unpark",                \* park
      "lock", "run", "suspend",                   \* resume
      "onAbandon", "finish", "finished",          \* ... and task_finished
      "notify", "exit" }

MainLocations ==
    { "user", "notify", "check", "wait", "idle", "wakeAll", "join", "end" }

-----------------------------------------------------------------------------

Init ==
    /\ injector = <<>>
    /\ local = [w \in Workers |-> <<>>]
    /\ parked = 0
    /\ shutdown = FALSE
    /\ active = 0
    /\ pc = [g \in Agents |-> IF g \in Workers THEN "loop" ELSE "user"]
    /\ ret = [g \in Agents |-> "user"]
    /\ cur = [w \in Workers |-> Nobody]
    /\ scan = [w \in Workers |-> {}]
    /\ life = [t \in Tasks |-> "unspawned"]
    /\ holder = [t \in Tasks |-> Nobody]
    /\ waker = [t \in Tasks |-> "none"]

Goto(g, from, to) ==
    /\ pc[g] = from
    /\ pc' = [pc EXCEPT ![g] = to]

\* The first half of SchedulerShared::enqueue: the task becomes visible to the
\* workers; the second half, Notify, comes later.
Push(g, from, t, then) ==
    /\ injector' = Append(injector, t)
    /\ Goto(g, from, "notify")
    /\ ret' = [ret EXCEPT ![g] = then]
    /\ UNCHANGED local

\* The second half: under the lock of `parked`, notify_one if anyone is counted.
\* The count may include only workers that have left the condition variable and
\* not yet taken the lock again; the notification is then lost.
Notify(g) ==
    /\ pc[g] = "notify"
    /\ LET sleepers == {w \in Workers : pc[w] = "waiting"} IN
       IF parked > 0 /\ sleepers # {}
       THEN \E w \in sleepers : pc' = [pc EXCEPT ![g] = ret[g], ![w] = "unpark"]
       ELSE pc' = [pc EXCEPT ![g] = ret[g]]
    /\ ret' = [ret EXCEPT ![g] = "user"]
    /\ UNCHANGED <<queues, parked, shutdown, active, cur, scan, tasks>>

-----------------------------------------------------------------------------
(* worker_loop, find_task and park.                                        *)

WorkerLoop(w) ==
    /\ Goto(w, "loop", IF shutdown THEN "exit" ELSE "local")
    /\ UNCHANGED <<queues, parked, shutdown, active, ret, cur, scan, tasks>>

PopLocal(w) ==
    /\ IF local[w] = <<>>
       THEN /\ Goto(w, "local", "injector")
            /\ UNCHANGED <<cur, local>>
       ELSE /\ Goto(w, "local", "lock")
            /\ cur' = [cur EXCEPT ![w] = Head(local[w])]
            /\ local' = [local EXCEPT ![w] = Tail(@)]
    /\ UNCHANGED <<injector, parked, shutdown, active, ret, scan, tasks>>

\* crossbeam's steal_batch_and_pop: the oldest task is returned, and some of
\* those behind it move to the worker's own queue, which is empty here.
StealBatch(w) ==
    /\ IF injector = <<>>
       THEN /\ Goto(w, "injector", "steal")
            /\ scan' = [scan EXCEPT ![w] = Workers]
            /\ UNCHANGED <<queues, cur>>
       ELSE /\ Goto(w, "injector", "lock")
            /\ cur' = [cur EXCEPT ![w] = Head(injector)]
            /\ \E n \in 1..Len(injector) :
                /\ local' = [local EXCEPT ![w] = SubSeq(injector, 2, n)]
                /\ injector' = SubSeq(injector, n + 1, Len(injector))
            /\ UNCHANGED scan
    /\ UNCHANGED <<parked, shutdown, active, ret, tasks>>

\* One stealer after the other, the worker's own among them.
StealFrom(w, v) ==
    /\ v \in scan[w]
    /\ IF local[v] = <<>>
       THEN /\ Goto(w, "steal", "steal")
            /\ scan' = [scan EXCEPT ![w] = @ \ {v}]
            /\ UNCHANGED <<cur, local>>
       ELSE /\ Goto(w, "steal", "lock")
            /\ cur' = [cur EXCEPT ![w] = Head(local[v])]
            /\ local' = [local EXCEPT ![v] = Tail(@)]
            /\ scan' = [scan EXCEPT ![w] = {}]
    /\ UNCHANGED <<injector, parked, shutdown, active, ret, tasks>>

FoundNothing(w) ==
    /\ scan[w] = {}
    /\ Goto(w, "steal", "park")
    /\ UNCHANGED <<queues, parked, shutdown, active, ret, cur, scan, tasks>>

Park(w) ==
    /\ Goto(w, "park", "waiting")
    /\ parked' = parked + 1
    /\ UNCHANGED <<queues, shutdown, active, ret, cur, scan, tasks>>

\* Faulty: the wait has no timeout.
ParkTimeout_never(w) ==
    pc[w] = "waiting" /\ FALSE

\* wait_timeout's 10 ms are over, or it returned spuriously.
ParkTimeout(w) ==
    /\ Goto(w, "waiting", "unpark")
    /\ UNCHANGED <<queues, parked, shutdown, active, ret, cur, scan, tasks>>

Unpark(w) ==
    /\ Goto(w, "unpark", "loop")
    /\ parked' = parked - 1
    /\ UNCHANGED <<queues, shutdown, active, ret, cur, scan, tasks>>

-----------------------------------------------------------------------------
(* task::resume, and what a task's body does while a worker runs it.       *)

\* Faulty: does not wait for the worker that is still suspending the task.
ResumeLock_unlocked(w) ==
    /\ Goto(w, "lock", "run")
    /\ holder' = [holder EXCEPT ![cur[w]] = w]
    /\ UNCHANGED <<queues, parked, shutdown, active, ret, cur, scan, life, waker>>

\* A finished task has no coroutine: `expect("resumed a finished task")` would
\* take the worker thread down, which the model shows as "exit".
ResumeLock(w) ==
    /\ pc[w] = "lock"
    /\ holder[cur[w]] = Nobody
    /\ IF life[cur[w]] = "some"
       THEN Goto(w, "lock", "run") /\ holder' = [holder EXCEPT ![cur[w]] = w]
       ELSE Goto(w, "lock", "exit") /\ UNCHANGED holder
    /\ UNCHANGED <<queues, parked, shutdown, active, ret, cur, scan, life, waker>>

\* Faulty: the task suspends without having been enqueued.
BodyYield_silent(w) ==
    /\ Goto(w, "run", "suspend")
    /\ waker' = [waker EXCEPT ![cur[w]] = "fired"]
    /\ UNCHANGED <<queues, parked, shutdown, active, ret, cur, scan, life, holder>>

\* yield_now: the waker made for this resumption fires, then the task suspends.
BodyYield(w) ==
    /\ Push(w, "run", cur[w], "suspend")
    /\ waker' = [waker EXCEPT ![cur[w]] = "fired"]
    /\ UNCHANGED <<parked, shutdown, active, cur, scan, life, holder>>

\* Notify::current followed by Notify::park: the fresh waker is visible to those
\* who will fire it before the task has suspended.
BodyWait(w) ==
    /\ Goto(w, "run", "suspend")
    /\ waker' = [waker EXCEPT ![cur[w]] = "armed"]
    /\ UNCHANGED <<queues, parked, shutdown, active, ret, cur, scan, life, holder>>

Suspend(w) ==
    /\ Goto(w, "suspend", "loop")
    /\ holder' = [holder EXCEPT ![cur[w]] = Nobody]
    /\ cur' = [cur EXCEPT ![w] = Nobody]
    /\ UNCHANGED <<queues, parked, shutdown, active, ret, scan, life, waker>>

\* The body returns, or unwinds into resume's catch_unwind.
BodyReturn(w) ==
    /\ Goto(w, "run", "finish")
    /\ life' = [life EXCEPT ![cur[w]] = "none"]
    /\ holder' = [holder EXCEPT ![cur[w]] = Nobody]
    /\ UNCHANGED <<queues, parked, shutdown, active, ret, cur, scan, waker>>

\* The body panics: the coroutine is abandoned where it stands and reset, and
\* on_abandon completes the join slot without the mutex.
BodyAbandon(w) ==
    /\ Goto(w, "run", "onAbandon")
    /\ life' = [life EXCEPT ![cur[w]] = "none"]
    /\ holder' = [holder EXCEPT ![cur[w]] = Nobody]
    /\ UNCHANGED <<queues, parked, shutdown, active, ret, cur, scan, waker>>

OnAbandonDone(w) ==
    /\ Goto(w, "onAbandon", "finish")
    /\ UNCHANGED <<queues, parked, shutdown, active, ret, cur, scan, tasks>>

\* Faulty: the last task does not notify.
TaskFinished_silent(w) ==
    /\ Goto(w, "finish", "loop")
    /\ active' = active - 1
    /\ cur' = [cur EXCEPT ![w] = Nobody]
    /\ UNCHANGED <<queues, parked, shutdown, ret, scan, tasks>>

TaskFinished(w) ==
    /\ Goto(w, "finish", IF active = 1 THEN "finished" ELSE "loop")
    /\ active' = active - 1
    /\ cur' = [cur EXCEPT ![w] = Nobody]
    /\ UNCHANGED <<queues, parked, shutdown, ret, scan, tasks>>

\* The last task is gone: under the lock of `done`, notify_all.
NotifyDone(w) ==
    /\ pc[w] = "finished"
    /\ pc' = [pc EXCEPT ![w] = "loop",
                        ![Main] = IF @ = "wait" THEN "check" ELSE @]
    /\ UNCHANGED <<queues, parked, shutdown, active, ret, cur, scan, tasks>>

-----------------------------------------------------------------------------
(* What tasks, the main thread and the external thread do to other tasks.  *)

\* Runtime::spawn_raw.
Spawn(g, from, t) ==
    /\ life[t] = "unspawned"
    /\ active' = active + 1
    /\ life' = [life EXCEPT ![t] = "some"]
    /\ Push(g, from, t, from)
    /\ UNCHANGED <<parked, shutdown, cur, scan, holder, waker>>

\* Faulty: a waker that has fired enqueues again.
Wake_again(g, from, t) ==
    /\ waker[t] # "none"
    /\ waker' = [waker EXCEPT ![t] = "fired"]
    /\ Push(g, from, t, from)
    /\ UNCHANGED <<parked, shutdown, active, cur, scan, life, holder>>

\* Waker::wake. A Waker is Clone, so it may be called again: `fired.swap` lets
\* only the first call enqueue.
Wake(g, from, t) ==
    /\ waker[t] = "armed"
    /\ waker' = [waker EXCEPT ![t] = "fired"]
    /\ Push(g, from, t, from)
    /\ UNCHANGED <<parked, shutdown, active, cur, scan, life, holder>>

BodySpawn(w, t) == Spawn(w, "run", t)
MainSpawn(t) == Spawn(Main, "user", t)

BodyWake(w, t) == Wake(w, "run", t)
AbandonWake(w, t) == Wake(w, "onAbandon", t)
ExtWake(t) == Wake(Ext, "user", t)

-----------------------------------------------------------------------------
(* The main thread: run_until_idle and Drop for Runtime.                   *)

RunUntilIdle ==
    /\ Goto(Main, "user", "check")
    /\ UNCHANGED <<queues, parked, shutdown, active, ret, cur, scan, tasks>>

\* The test of `active` and the wait are one step: both hold the lock of `done`.
IdleCheck ==
    /\ Goto(Main, "check", IF active > 0 THEN "wait" ELSE "idle")
    /\ UNCHANGED <<queues, parked, shutdown, active, ret, cur, scan, tasks>>

IdleReturn ==
    /\ Goto(Main, "idle", "user")
    /\ UNCHANGED <<queues, parked, shutdown, active, ret, cur, scan, tasks>>

DropRuntime ==
    /\ Goto(Main, "user", "wakeAll")
    /\ shutdown' = TRUE
    /\ UNCHANGED <<queues, parked, active, ret, cur, scan, tasks>>

DropNotifyAll ==
    /\ pc[Main] = "wakeAll"
    /\ pc' = [g \in Agents |->
                IF g = Main THEN "join"
                ELSE IF pc[g] = "waiting" THEN "unpark" ELSE pc[g]]
    /\ UNCHANGED <<queues, parked, shutdown, active, ret, cur, scan, tasks>>

DropJoin ==
    /\ \A w \in Workers : pc[w] = "exit"
    /\ Goto(Main, "join", "end")
    /\ UNCHANGED <<queues, parked, shutdown, active, ret, cur, scan, tasks>>

-----------------------------------------------------------------------------

\* A worker's own steps, between the body steps the program chooses.
WorkerStep(w) ==
    \/ WorkerLoop(w) \/ PopLocal(w) \/ StealBatch(w)
    \/ \E v \in Workers : StealFrom(w, v)
    \/ FoundNothing(w) \/ Park(w) \/ Unpark(w)
    \/ ResumeLock(w) \/ Suspend(w) \/ OnAbandonDone(w)
    \/ TaskFinished(w) \/ NotifyDone(w) \/ Notify(w)

BodyEnds(w) == BodyYield(w) \/ BodyWait(w) \/ BodyReturn(w) \/ BodyAbandon(w)

BodyCalls(w) == \E t \in Tasks : BodySpawn(w, t) \/ BodyWake(w, t) \/ AbandonWake(w, t)

MainStep ==
    \/ IdleCheck \/ IdleReturn \/ DropNotifyAll \/ DropJoin \/ Notify(Main)

Next ==
    \/ \E w \in Workers : WorkerStep(w) \/ ParkTimeout(w) \/ BodyEnds(w) \/ BodyCalls(w)
    \/ \E t \in Tasks : MainSpawn(t) \/ ExtWake(t)
    \/ MainStep \/ RunUntilIdle \/ DropRuntime \/ Notify(Ext)

Safety == Init /\ [][Next]_vars

\* Threads run, timeouts expire, and a body sooner or later suspends or ends
\* (a paco task never blocks its worker: blocking calls go to the pool).
Spec ==
    /\ Safety
    /\ \A w \in Workers :
        /\ WF_vars(WorkerStep(w))
        /\ WF_vars(ParkTimeout(w))
        /\ WF_vars(BodyEnds(w))
    /\ WF_vars(MainStep)
    /\ WF_vars(Notify(Ext))

-----------------------------------------------------------------------------
(* Properties.                                                             *)

TypeOK ==
    /\ injector \in Seq(Tasks)
    /\ local \in [Workers -> Seq(Tasks)]
    /\ parked \in Nat
    /\ shutdown \in BOOLEAN
    /\ active \in Nat
    /\ pc \in [Agents -> WorkerLocations \cup MainLocations]
    /\ ret \in [Agents -> {"user", "run", "suspend", "onAbandon"}]
    /\ cur \in [Workers -> Tasks \cup {Nobody}]
    /\ scan \in [Workers -> SUBSET Workers]
    /\ life \in [Tasks -> {"unspawned", "some", "none"}]
    /\ holder \in [Tasks -> Workers \cup {Nobody}]
    /\ waker \in [Tasks -> {"none", "armed", "fired"}]

\* How many queues, and workers on their way to resume it, hold task t.
Occurrences(seq, t) == Cardinality({i \in 1..Len(seq) : seq[i] = t})
Taken(t) == {w \in Workers : pc[w] = "lock" /\ cur[w] = t}
Queued(t) ==
    \/ Occurrences(injector, t) > 0
    \/ \E w \in Workers : Occurrences(local[w], t) > 0
    \/ Taken(t) # {}

\* A worker never takes up a task that has finished: resume's
\* `expect("resumed a finished task")` cannot fail. A stale or doubled entry in
\* any queue, or a waker that fires twice, would break it later.
NeverResumesFinished ==
    \A w \in Workers : pc[w] = "lock" => life[cur[w]] = "some"

\* A task has at most one entry over all the queues and workers about to resume
\* it, through batches, steals and wake-ups that overtake its suspension, and
\* none once it has finished.
QueuedAtMostOnce ==
    NeverResumesFinished /\ \A t \in Tasks :
        /\ Occurrences(injector, t) <= 1
        /\ Cardinality(Taken(t)) <= 1
        /\ \A w \in Workers :
            /\ Occurrences(local[w], t) <= 1
            /\ Occurrences(local[w], t) = 1 =>
                /\ Occurrences(injector, t) = 0
                /\ Taken(t) = {}
                /\ \A v \in Workers \ {w} : Occurrences(local[v], t) = 0
        /\ Taken(t) # {} => Occurrences(injector, t) = 0

\* A live task nobody runs is either waiting for a waker that can still fire, or
\* somewhere a worker will find it: no interleaving of wake, suspend and steal
\* forgets a task.
NoLostTask ==
    \A t \in Tasks :
        (life[t] = "some" /\ holder[t] = Nobody /\ waker[t] # "armed") => Queued(t)

\* `active` counts the tasks that have not been through task_finished, whether
\* they return, unwind or are abandoned.
ActiveExact ==
    active = Cardinality({t \in Tasks : life[t] = "some"})
           + Cardinality({w \in Workers : \/ pc[w] \in {"onAbandon", "finish"}
                                          \/ pc[w] = "notify" /\ ret[w] = "onAbandon"})

\* The main thread never sleeps in run_until_idle with no task left, unless the
\* worker that finished the last one is about to notify it: that wait has no
\* timeout, so a lost notification would hang the program.  Nor does the count it
\* waits on go wrong.
NoLostIdleNotify ==
    ActiveExact /\ ((pc[Main] = "wait" /\ active = 0) => \E w \in Workers : pc[w] = "finished")

\* Dropping the Runtime joins all workers: none sleeps through the shutdown.
ShutdownEnds == (pc[Main] = "wakeAll") ~> (pc[Main] = "end")

-----------------------------------------------------------------------------
(* The scheduler as its users see it.                                      *)

\* Where worker w is in resume, an enqueue it is inside of counted as the place it
\* was made from.
InBody(w) == pc[w] = "run" \/ (pc[w] = "notify" /\ ret[w] = "run")
Suspending(w) == pc[w] = "suspend" \/ (pc[w] = "notify" /\ ret[w] = "suspend")

StateOf(t) ==
    CASE life[t] = "unspawned" -> "new"
      [] life[t] = "none" -> "done"
      [] life[t] = "some" ->
            IF \E w \in Workers : InBody(w) /\ cur[w] = t THEN "running"
            ELSE IF waker[t] = "armed" THEN "waiting" ELSE "ready"

State == [t \in Tasks |-> StateOf(t)]
On == [t \in Tasks |-> {w \in Workers : (InBody(w) \/ Suspending(w)) /\ cur[w] = t}]

MainAt(loc) ==
    IF loc \in {"check", "wait"} THEN "idling"
    ELSE IF loc \in {"wakeAll", "join"} THEN "dropping"
    ELSE IF loc = "end" THEN "dropped"
    ELSE "user"

Pool == INSTANCE TaskPool WITH state <- State, on <- On, main <- MainAt(pc[Main])

\* The scheduler runs tasks as TaskPool says: through wake-ups that overtake the
\* suspension they end, batches, steals and lost notifications, a task is on one
\* stack at a time and is resumed once for each time it became ready;
\* run_until_idle returns when all tasks are done. Every ready task is taken up,
\* although a worker can miss the notification between finding nothing and
\* waiting, unless the runtime is shut down.
ImplementsTaskPool == Pool!Spec
=============================================================================
