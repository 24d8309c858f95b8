---------------------------- MODULE BlockingPool ----------------------------
(***************************************************************************)
(* The pool of threads for blocking calls (paco-runtime/src/blocking.rs):  *)
(* submit pushes a job, starts a thread when none is idle, and signals;    *)
(* a thread that finds no job counts itself idle, tests again under the    *)
(* signal's lock, waits, and leaves after five idle seconds. The queue,    *)
(* the idle count and the condition variable have locks of their own, so   *)
(* the steps of submitters and threads interleave between them.            *)
(***************************************************************************)
EXTENDS Integers, Sequences, FiniteSets

CONSTANTS
    Jobs,           \* bound: the jobs submitted
    Submitters,     \* threads and tasks that call spawn_blocking
    Workers         \* bound: identities for pool threads

ASSUME BoundsAssumption == IsFiniteSet(Jobs) /\ IsFiniteSet(Workers)
\* A job that submits another is a submitter besides the thread it runs on.
ASSUME ThreadsAssumption == Submitters \cap Workers = {}

VARIABLES
    jobs,           \* Pool.jobs
    idle,           \* Pool.idle
    threads,        \* Pool.threads
    pc,             \* pc[x]: where submitter or pool thread x is
    job,            \* job[w]: the job thread w runs, as a set of at most one
    submitted,      \* jobs given to submit
    done            \* jobs that have ended

vars == <<jobs, idle, threads, pc, job, submitted, done>>

Init ==
    /\ jobs = <<>>
    /\ idle = 0
    /\ threads = 0
    /\ pc = [x \in Submitters \cup Workers |-> IF x \in Workers THEN "gone" ELSE "user"]
    /\ job = [w \in Workers |-> {}]
    /\ submitted = {}
    /\ done = {}

Goto(x, from, to) ==
    /\ pc[x] = from
    /\ pc' = [pc EXCEPT ![x] = to]

-----------------------------------------------------------------------------
(* BlockingPool::submit.                                                   *)

SubmitPush(s, j) ==
    /\ j \in Jobs \ submitted
    /\ Goto(s, "user", "check")
    /\ jobs' = Append(jobs, j)
    /\ submitted' = submitted \cup {j}
    /\ UNCHANGED <<idle, threads, job, done>>

\* `idle` is read without any lock: the idle thread it counts may be taken by
\* another job, or on its way out.
SubmitCheck(s) ==
    /\ pc[s] = "check"
    /\ IF idle = 0
       THEN \E w \in Workers :
                /\ pc[w] = "gone"
                /\ pc' = [pc EXCEPT ![s] = "signal", ![w] = "pop"]
                /\ threads' = threads + 1
       ELSE Goto(s, "check", "signal") /\ UNCHANGED threads
    /\ UNCHANGED <<jobs, idle, job, submitted, done>>

\* notify_one, under the signal's lock.
SubmitSignal(s) ==
    /\ pc[s] = "signal"
    /\ \A w \in Workers : pc[w] # "leaving"
    /\ LET sleepers == {w \in Workers : pc[w] = "waiting"} IN
       IF sleepers = {}
       THEN pc' = [pc EXCEPT ![s] = "user"]
       ELSE \E w \in sleepers : pc' = [pc EXCEPT ![s] = "user", ![w] = "notified"]
    /\ UNCHANGED <<jobs, idle, threads, job, submitted, done>>

-----------------------------------------------------------------------------
(* worker_loop.                                                            *)

\* Faulty: takes the newest job.
WorkerPop_newest(w) ==
    /\ IF jobs # <<>>
       THEN /\ Goto(w, "pop", "run")
            /\ job' = [job EXCEPT ![w] = {jobs[Len(jobs)]}]
            /\ jobs' = SubSeq(jobs, 1, Len(jobs) - 1)
       ELSE Goto(w, "pop", "empty") /\ UNCHANGED <<job, jobs>>
    /\ UNCHANGED <<idle, threads, submitted, done>>

\* pop_front, under the queue's lock.
WorkerPop(w) ==
    /\ IF jobs # <<>>
       THEN /\ Goto(w, "pop", "run")
            /\ job' = [job EXCEPT ![w] = {Head(jobs)}]
            /\ jobs' = Tail(jobs)
       ELSE Goto(w, "pop", "empty") /\ UNCHANGED <<job, jobs>>
    /\ UNCHANGED <<idle, threads, submitted, done>>

WorkerIdle(w) ==
    /\ Goto(w, "empty", "idle")
    /\ idle' = idle + 1
    /\ UNCHANGED <<jobs, threads, job, submitted, done>>

\* The job returns; a panic in it is caught or abandoned by run_abandonable, so
\* the thread goes on either way.
JobEnds(w) ==
    /\ Goto(w, "run", "pop")
    /\ done' = done \cup job[w]
    /\ job' = [job EXCEPT ![w] = {}]
    /\ UNCHANGED <<jobs, idle, threads, submitted>>

\* Under the signal's lock: a job that came before the lock was taken is seen.
WorkerRecheck(w) ==
    /\ IF jobs # <<>>
       THEN Goto(w, "idle", "pop") /\ idle' = idle - 1
       ELSE Goto(w, "idle", "waiting") /\ UNCHANGED idle
    /\ UNCHANGED <<jobs, threads, job, submitted, done>>

\* The five seconds are over; the thread has yet to take the lock again.
WorkerTimeout(w) ==
    /\ Goto(w, "waiting", "timedOut")
    /\ UNCHANGED <<jobs, idle, threads, job, submitted, done>>

\* A condition variable may also return for no reason.
WorkerSpurious(w) ==
    /\ Goto(w, "waiting", "notified")
    /\ UNCHANGED <<jobs, idle, threads, job, submitted, done>>

WorkerNotified(w) ==
    /\ Goto(w, "notified", "pop")
    /\ idle' = idle - 1
    /\ UNCHANGED <<jobs, threads, job, submitted, done>>

\* The lock is held again until the thread leaves or goes round.
WorkerTimedOut(w) ==
    /\ Goto(w, "timedOut", "leaving")
    /\ idle' = idle - 1
    /\ UNCHANGED <<jobs, threads, job, submitted, done>>

\* Faulty: leaves without a last look at the queue.
WorkerLeaves_blind(w) ==
    /\ Goto(w, "leaving", "gone")
    /\ threads' = threads - 1
    /\ UNCHANGED <<jobs, idle, job, submitted, done>>

\* Leave only if there is still nothing to do.
WorkerLeaves(w) ==
    /\ IF jobs = <<>>
       THEN Goto(w, "leaving", "gone") /\ threads' = threads - 1
       ELSE Goto(w, "leaving", "pop") /\ UNCHANGED threads
    /\ UNCHANGED <<jobs, idle, job, submitted, done>>

-----------------------------------------------------------------------------

SubmitStep(s) == SubmitCheck(s) \/ SubmitSignal(s)

WorkerStep(w) ==
    \/ WorkerPop(w) \/ WorkerIdle(w) \/ WorkerRecheck(w) \/ WorkerNotified(w)
    \/ WorkerTimedOut(w) \/ WorkerLeaves(w)

Next ==
    \/ \E s \in Submitters : SubmitStep(s) \/ \E j \in Jobs : SubmitPush(s, j)
    \/ \E w \in Workers : WorkerStep(w) \/ JobEnds(w) \/ WorkerTimeout(w) \/ WorkerSpurious(w)

Safety == Init /\ [][Next]_vars

\* Threads run, and a job, once started, ends; the idle timeout need not fire.
Spec ==
    /\ Safety
    /\ \A s \in Submitters : WF_vars(SubmitStep(s))
    /\ \A w \in Workers : WF_vars(WorkerStep(w)) /\ WF_vars(JobEnds(w))

-----------------------------------------------------------------------------

TypeOK ==
    /\ jobs \in Seq(Jobs)
    /\ idle \in Nat
    /\ threads \in Nat
    /\ pc \in [Submitters \cup Workers ->
                {"user", "check", "signal", "gone", "pop", "run", "empty",
                 "idle", "waiting", "notified", "timedOut", "leaving"}]
    /\ job \in [Workers -> SUBSET Jobs]
    /\ submitted \subseteq Jobs
    /\ done \subseteq Jobs

\* The counters tell the truth: `idle` counts the threads between finding no
\* job and taking the lock again, `threads` those that exist.
CountersExact ==
    /\ idle = Cardinality({w \in Workers :
                pc[w] \in {"idle", "waiting", "notified", "timedOut"}})
    /\ threads = Cardinality({w \in Workers : pc[w] # "gone"})

\* A queued job is never left to sleeping or departed threads: someone who will
\* look at the queue, or wake or start someone who will, is on the way. It is
\* the order push, test idle, signal against idle, recheck, wait that ensures
\* this, also when the idle timeout strikes in between, and counters that tell
\* the truth.
NoStrandedJob ==
    CountersExact /\ (jobs # <<>> =>
        \/ \E w \in Workers : pc[w] \notin {"gone", "waiting"}
        \/ \E s \in Submitters : pc[s] = "check" /\ idle = 0
        \/ \E s \in Submitters, w \in Workers :
                pc[s] \in {"check", "signal"} /\ pc[w] = "waiting")

\* The jobs that some thread of the pool is in.
Running == UNION {job[w] : w \in Workers}

Pool == INSTANCE JobPool WITH queue <- jobs, running <- Running, ended <- done

\* BlockingPool::spawn: the jobs are started in order, each by one thread and once,
\* whatever submitters, idle timeouts and threads that come and go do in between,
\* and every job that was submitted is run to its end.
ImplementsJobPool == Pool!Spec
=============================================================================
