------------------------- MODULE BlockingPoolProofs -------------------------
(***************************************************************************)
(* For any number of jobs, submitters and pool threads: the counters are   *)
(* exact, no job is stranded, and the pool implements JobPool.             *)
(***************************************************************************)
EXTENDS BlockingPool, FiniteSetTheorems, SequenceTheorems, TLAPS

Idlers == {w \in Workers : pc[w] \in {"idle", "waiting", "notified", "timedOut"}}
Alive  == {w \in Workers : pc[w] # "gone"}

\* Submitters and pool threads are at different places of different functions.
Places ==
    /\ \A s \in Submitters : pc[s] \in {"user", "check", "signal"}
    /\ \A w \in Workers : pc[w] \notin {"user", "check", "signal"}

\* A job is in the queue once, in the hands of one thread, or done.
Apart ==
    /\ \A i, k \in 1..Len(jobs) : jobs[i] = jobs[k] => i = k
    /\ \A i \in 1..Len(jobs) :
        jobs[i] \in submitted \ done /\ \A w \in Workers : jobs[i] \notin job[w]
    /\ \A w, v \in Workers : w # v => job[w] \cap job[v] = {}
    /\ \A w \in Workers : job[w] \subseteq submitted \ done
    /\ \A w \in Workers : IF pc[w] = "run" THEN \E j \in Jobs : job[w] = {j} ELSE job[w] = {}
    /\ done \subseteq submitted

\* The inductive invariant.
IndInv == TypeOK /\ Places /\ NoStrandedJob /\ Apart

-----------------------------------------------------------------------------

USE BoundsAssumption, ThreadsAssumption

\* Pool threads are finitely many, so counting them gives numbers.
LEMMA CountsFinite ==
    /\ IsFiniteSet(Idlers) /\ Cardinality(Idlers) \in Nat
    /\ IsFiniteSet(Alive) /\ Cardinality(Alive) \in Nat
<1>1. Idlers \subseteq Workers /\ Alive \subseteq Workers
  BY DEF Idlers, Alive
<1> QED  BY <1>1, FS_Subset, FS_CardinalityType

\* A set that gains or loses one element changes its cardinality by one.
LEMMA OneMore ==
    ASSUME NEW S, IsFiniteSet(S), NEW x, x \notin S
    PROVE  Cardinality(S \cup {x}) = Cardinality(S) + 1
  BY FS_AddElement
\* The same, taking one away.
LEMMA OneLess ==
    ASSUME NEW S, IsFiniteSet(S), NEW x \in S
    PROVE  Cardinality(S \ {x}) = Cardinality(S) - 1 /\ Cardinality(S) > 0
<1>1. Cardinality(S) \in Nat /\ Cardinality(S) # 0
  BY FS_CardinalityType, FS_EmptySet
<1>2. Cardinality(S \ {x}) = Cardinality(S) - 1
  BY FS_RemoveElement
<1> QED  BY <1>1, <1>2

\* The counters count the two sets of threads.
LEMMA CountersNamed == CountersExact <=> idle = Cardinality(Idlers) /\ threads = Cardinality(Alive)
  BY DEF CountersExact, Idlers, Alive

\* The invariant holds of a pool without threads.
LEMMA InitIndInv == Init => IndInv
<1> SUFFICES ASSUME Init PROVE IndInv
  OBVIOUS
<1>1. TypeOK /\ Places
  BY DEF Init, TypeOK, Places
<1>2. Idlers = {} /\ Alive = {}
  BY DEF Init, Idlers, Alive
<1>3. CountersExact
  BY <1>2, CountersNamed, FS_EmptySet DEF Init
<1>4. Apart
  BY DEF Init, Apart
<1> QED  BY <1>1, <1>3, <1>4 DEF Init, IndInv, NoStrandedJob

-----------------------------------------------------------------------------

\* Every action keeps the variables in their types; that the counters stay
\* natural numbers needs that they are exact.
LEMMA TypeStep ==
    ASSUME TypeOK, Places, CountersExact, [Next]_vars
    PROVE  TypeOK' /\ Places'
<1> USE DEF TypeOK, Places
<1>a. ASSUME NEW w \in Workers, pc[w] \in {"idle", "notified", "timedOut"}
      PROVE  idle - 1 \in Nat
  <2>1. w \in Idlers
    BY <1>a DEF Idlers
  <2>2. Cardinality(Idlers) > 0 /\ Cardinality(Idlers) \in Nat
    BY <2>1, CountsFinite, OneLess
  <2> QED  BY <2>2, CountersNamed
<1>b. ASSUME NEW w \in Workers, pc[w] = "leaving" PROVE threads - 1 \in Nat
  <2>1. w \in Alive
    BY <1>b DEF Alive
  <2>2. Cardinality(Alive) > 0 /\ Cardinality(Alive) \in Nat
    BY <2>1, CountsFinite, OneLess
  <2> QED  BY <2>2, CountersNamed
<1>1. ASSUME NEW s \in Submitters, NEW j \in Jobs, SubmitPush(s, j)
      PROVE  TypeOK' /\ Places'
  <2>1. jobs' \in Seq(Jobs)
    BY <1>1 DEF SubmitPush
  <2> QED  BY <1>1, <2>1 DEF SubmitPush, Goto
<1>2. ASSUME NEW s \in Submitters, SubmitCheck(s) PROVE TypeOK' /\ Places'
  <2>1. CASE idle = 0
    <3>1. PICK w \in Workers : /\ pc[w] = "gone"
                               /\ pc' = [pc EXCEPT ![s] = "signal", ![w] = "pop"]
                               /\ threads' = threads + 1
      BY <1>2, <2>1 DEF SubmitCheck
    <3> QED  BY <1>2, <3>1 DEF SubmitCheck
  <2>2. CASE idle # 0
    BY <1>2, <2>2 DEF SubmitCheck, Goto
  <2> QED  BY <2>1, <2>2
<1>3. ASSUME NEW s \in Submitters, SubmitSignal(s) PROVE TypeOK' /\ Places'
  <2>1. \/ pc' = [pc EXCEPT ![s] = "user"]
        \/ \E w \in Workers : pc' = [pc EXCEPT ![s] = "user", ![w] = "notified"]
    BY <1>3 DEF SubmitSignal
  <2>2. pc' \in [Submitters \cup Workers ->
                {"user", "check", "signal", "gone", "pop", "run", "empty",
                 "idle", "waiting", "notified", "timedOut", "leaving"}] /\ Places'
    BY <2>1
  <2> QED  BY <1>3, <2>2 DEF SubmitSignal
<1>4. ASSUME NEW w \in Workers, WorkerPop(w) PROVE TypeOK' /\ Places'
  <2>1. CASE jobs # <<>>
    <3>1. Head(jobs) \in Jobs /\ Tail(jobs) \in Seq(Jobs)
      BY <2>1, HeadTailProperties
    <3> QED  BY <1>4, <2>1, <3>1 DEF WorkerPop, Goto
  <2>2. CASE jobs = <<>>
    BY <1>4, <2>2 DEF WorkerPop, Goto
  <2> QED  BY <2>1, <2>2
<1>5. ASSUME NEW w \in Workers, WorkerIdle(w) PROVE TypeOK' /\ Places'
  BY <1>5 DEF WorkerIdle, Goto
<1>6. ASSUME NEW w \in Workers, JobEnds(w) PROVE TypeOK' /\ Places'
  <2>1. done' \subseteq Jobs /\ job' \in [Workers -> SUBSET Jobs]
    BY <1>6 DEF JobEnds
  <2> QED  BY <1>6, <2>1 DEF JobEnds, Goto
<1>7. ASSUME NEW w \in Workers, WorkerRecheck(w) PROVE TypeOK' /\ Places'
  BY <1>7, <1>a DEF WorkerRecheck, Goto
<1>8. ASSUME NEW w \in Workers, WorkerTimeout(w) \/ WorkerSpurious(w) PROVE TypeOK' /\ Places'
  BY <1>8 DEF WorkerTimeout, WorkerSpurious, Goto
<1>9. ASSUME NEW w \in Workers, WorkerNotified(w) \/ WorkerTimedOut(w) PROVE TypeOK' /\ Places'
  BY <1>9, <1>a DEF WorkerNotified, WorkerTimedOut, Goto
<1>10. ASSUME NEW w \in Workers, WorkerLeaves(w) PROVE TypeOK' /\ Places'
  BY <1>10, <1>b DEF WorkerLeaves, Goto
<1>11. CASE UNCHANGED vars
  BY <1>11 DEF vars
<1> QED
  BY <1>1, <1>2, <1>3, <1>4, <1>5, <1>6, <1>7, <1>8, <1>9, <1>10, <1>11
  DEF Next, SubmitStep, WorkerStep

\* A thread counts itself idle when it has found nothing to do and uncounts
\* itself once, whichever way its wait ends.
LEMMA CountersStep ==
    ASSUME TypeOK, Places, CountersExact, [Next]_vars
    PROVE  CountersExact'
<1> USE DEF TypeOK, Places
<1>n. CountersExact' <=> idle' = Cardinality(Idlers') /\ threads' = Cardinality(Alive')
  BY DEF CountersExact, Idlers, Alive
<1>k. ASSUME Idlers' = Idlers, Alive' = Alive, idle' = idle, threads' = threads
      PROVE  CountersExact'
  BY <1>k, <1>n, CountersNamed
<1>1. ASSUME NEW s \in Submitters, NEW j \in Jobs, SubmitPush(s, j) PROVE CountersExact'
  <2>1. Idlers' = Idlers /\ Alive' = Alive
    BY <1>1 DEF SubmitPush, Goto, Idlers, Alive
  <2> QED  BY <1>1, <2>1, <1>k DEF SubmitPush
<1>2. ASSUME NEW s \in Submitters, SubmitCheck(s) PROVE CountersExact'
  <2>1. CASE idle = 0
    <3>1. PICK w \in Workers : /\ pc[w] = "gone"
                               /\ pc' = [pc EXCEPT ![s] = "signal", ![w] = "pop"]
                               /\ threads' = threads + 1
      BY <1>2, <2>1 DEF SubmitCheck
    <3>2. Idlers' = Idlers /\ Alive' = Alive \cup {w} /\ w \notin Alive
      BY <3>1 DEF Idlers, Alive
    <3>3. Cardinality(Alive') = Cardinality(Alive) + 1
      BY <3>2, OneMore, CountsFinite
    <3> QED  BY <1>2, <1>n, <3>1, <3>2, <3>3, CountersNamed DEF SubmitCheck
  <2>2. CASE idle # 0
    <3>1. Idlers' = Idlers /\ Alive' = Alive
      BY <1>2, <2>2 DEF SubmitCheck, Goto, Idlers, Alive
    <3> QED  BY <1>2, <2>2, <3>1, <1>k DEF SubmitCheck
  <2> QED  BY <2>1, <2>2
<1>3. ASSUME NEW s \in Submitters, SubmitSignal(s) PROVE CountersExact'
  <2>1. \/ pc' = [pc EXCEPT ![s] = "user"]
        \/ \E w \in Workers : /\ pc[w] = "waiting"
                              /\ pc' = [pc EXCEPT ![s] = "user", ![w] = "notified"]
    BY <1>3 DEF SubmitSignal
  <2>2. Idlers' = Idlers /\ Alive' = Alive
    BY <2>1 DEF Idlers, Alive
  <2> QED  BY <1>3, <2>2, <1>k DEF SubmitSignal
<1>4. ASSUME NEW w \in Workers, WorkerPop(w) \/ JobEnds(w) \/ WorkerTimeout(w) \/ WorkerSpurious(w)
      PROVE  CountersExact'
  <2>1. Idlers' = Idlers /\ Alive' = Alive
    BY <1>4 DEF WorkerPop, JobEnds, WorkerTimeout, WorkerSpurious, Goto, Idlers, Alive
  <2> QED  BY <1>4, <2>1, <1>k DEF WorkerPop, JobEnds, WorkerTimeout, WorkerSpurious
<1>5. ASSUME NEW w \in Workers, WorkerIdle(w) PROVE CountersExact'
  <2>1. Idlers' = Idlers \cup {w} /\ w \notin Idlers /\ Alive' = Alive
    BY <1>5 DEF WorkerIdle, Goto, Idlers, Alive
  <2>2. Cardinality(Idlers') = Cardinality(Idlers) + 1
    BY <2>1, OneMore, CountsFinite
  <2> QED  BY <1>5, <2>1, <2>2, <1>n, CountersNamed DEF WorkerIdle
<1>6. ASSUME NEW w \in Workers, pc[w] \in {"idle", "notified", "timedOut"},
             NEW to \in {"pop", "leaving"}, pc' = [pc EXCEPT ![w] = to],
             idle' = idle - 1, threads' = threads
      PROVE  CountersExact'
  <2>1. Idlers' = Idlers \ {w} /\ w \in Idlers /\ Alive' = Alive
    BY <1>6 DEF Idlers, Alive
  <2>2. Cardinality(Idlers') = Cardinality(Idlers) - 1
    BY <2>1, OneLess, CountsFinite
  <2> QED  BY <1>6, <2>1, <2>2, <1>n, CountersNamed
<1>7. ASSUME NEW w \in Workers, WorkerRecheck(w) PROVE CountersExact'
  <2>1. CASE jobs # <<>>
    BY <1>6, <1>7, <2>1 DEF WorkerRecheck, Goto
  <2>2. CASE jobs = <<>>
    <3>1. Idlers' = Idlers /\ Alive' = Alive
      BY <1>7, <2>2 DEF WorkerRecheck, Goto, Idlers, Alive
    <3> QED  BY <1>7, <2>2, <3>1, <1>k DEF WorkerRecheck
  <2> QED  BY <2>1, <2>2
<1>8. ASSUME NEW w \in Workers, WorkerNotified(w) \/ WorkerTimedOut(w) PROVE CountersExact'
  BY <1>6, <1>8 DEF WorkerNotified, WorkerTimedOut, Goto
<1>9. ASSUME NEW w \in Workers, WorkerLeaves(w) PROVE CountersExact'
  <2>1. CASE jobs = <<>>
    <3>1. Idlers' = Idlers /\ Alive' = Alive \ {w} /\ w \in Alive
      BY <1>9, <2>1 DEF WorkerLeaves, Goto, Idlers, Alive
    <3>2. Cardinality(Alive') = Cardinality(Alive) - 1
      BY <3>1, OneLess, CountsFinite
    <3> QED  BY <1>9, <2>1, <3>1, <3>2, <1>n, CountersNamed DEF WorkerLeaves
  <2>2. CASE jobs # <<>>
    <3>1. Idlers' = Idlers /\ Alive' = Alive
      BY <1>9, <2>2 DEF WorkerLeaves, Goto, Idlers, Alive
    <3> QED  BY <1>9, <2>2, <3>1, <1>k DEF WorkerLeaves
  <2> QED  BY <2>1, <2>2
<1>10. CASE UNCHANGED vars
  BY <1>10, <1>n, CountersNamed DEF vars, Idlers, Alive
<1> QED
  BY <1>1, <1>2, <1>3, <1>4, <1>5, <1>7, <1>8, <1>9, <1>10 DEF Next, SubmitStep, WorkerStep

-----------------------------------------------------------------------------

\* Who stands between a queued job and its being left behind.
Awake   == \E w \in Workers : pc[w] \notin {"gone", "waiting"}
Starts  == \E s \in Submitters : pc[s] = "check" /\ idle = 0
Signals == \E s \in Submitters, w \in Workers :
              pc[s] \in {"check", "signal"} /\ pc[w] = "waiting"
Attended == jobs # <<>> => Awake \/ Starts \/ Signals

\* Someone is counted idle exactly if some thread is between the two ends of
\* its wait, so a submitter that sees `idle` above zero has someone to signal
\* or someone awake.
LEMMA IdleMeansSomeone ==
    ASSUME TypeOK, CountersExact, idle # 0
    PROVE  Awake \/ \E w \in Workers : pc[w] = "waiting"
<1>1. Idlers # {}
  BY CountersNamed, CountsFinite, FS_EmptySet
<1> QED  BY <1>1 DEF Idlers, Awake

\* No step leaves a queued job to threads that sleep or are gone.
LEMMA AttendedStep ==
    ASSUME TypeOK, Places, CountersExact, Attended, [Next]_vars
    PROVE  Attended'
<1> USE DEF TypeOK, Places
<1>1. ASSUME NEW s \in Submitters, NEW j \in Jobs, SubmitPush(s, j) PROVE Attended'
  <2>1. pc' = [pc EXCEPT ![s] = "check"] /\ idle' = idle
    BY <1>1 DEF SubmitPush, Goto
  <2>2. CASE idle = 0
    BY <2>1, <2>2 DEF Attended, Starts
  <2>3. CASE idle # 0
    BY <2>1, <2>3, IdleMeansSomeone DEF Attended, Awake, Signals
  <2> QED  BY <2>2, <2>3
<1>2. ASSUME NEW s \in Submitters, SubmitCheck(s) PROVE Attended'
  <2>1. CASE idle = 0
    <3>1. PICK w \in Workers : pc' = [pc EXCEPT ![s] = "signal", ![w] = "pop"]
      BY <1>2, <2>1 DEF SubmitCheck
    <3>2. pc'[w] = "pop"
      BY <3>1
    <3> QED  BY <3>2 DEF Attended, Awake
  <2>2. CASE idle # 0
    <3>1. pc' = [pc EXCEPT ![s] = "signal"]
      BY <1>2, <2>2 DEF SubmitCheck, Goto
    <3> QED  BY <3>1, <2>2, IdleMeansSomeone DEF Attended, Awake, Signals
  <2> QED  BY <2>1, <2>2
<1>3. ASSUME NEW s \in Submitters, SubmitSignal(s) PROVE Attended'
  <2>1. CASE \E w \in Workers : pc[w] = "waiting"
    <3>1. PICK w \in Workers : pc' = [pc EXCEPT ![s] = "user", ![w] = "notified"]
      BY <1>3, <2>1 DEF SubmitSignal
    <3>2. pc'[w] = "notified"
      BY <3>1
    <3> QED  BY <3>2 DEF Attended, Awake
  <2>2. CASE ~ \E w \in Workers : pc[w] = "waiting"
    <3>1. pc' = [pc EXCEPT ![s] = "user"] /\ jobs' = jobs /\ idle' = idle
      BY <1>3, <2>2 DEF SubmitSignal
    <3>2. pc[s] = "signal"
      BY <1>3 DEF SubmitSignal
    <3> QED  BY <2>2, <3>1, <3>2 DEF Attended, Awake, Starts, Signals
  <2> QED  BY <2>1, <2>2
<1>4. ASSUME NEW w \in Workers, NEW to, to \notin {"gone", "waiting"}, pc' = [pc EXCEPT ![w] = to]
      PROVE  Attended'
  BY <1>4 DEF Attended, Awake
<1>5. ASSUME NEW w \in Workers, WorkerPop(w) PROVE Attended'
  BY <1>4, <1>5 DEF WorkerPop, Goto
<1>6. ASSUME NEW w \in Workers, WorkerIdle(w) \/ JobEnds(w) \/ WorkerTimeout(w)
                                \/ WorkerSpurious(w) \/ WorkerNotified(w) \/ WorkerTimedOut(w)
      PROVE  Attended'
  BY <1>4, <1>6 DEF WorkerIdle, JobEnds, WorkerTimeout, WorkerSpurious, WorkerNotified,
                    WorkerTimedOut, Goto
<1>7. ASSUME NEW w \in Workers, WorkerRecheck(w) PROVE Attended'
  <2>1. CASE jobs # <<>>
    BY <1>4, <1>7, <2>1 DEF WorkerRecheck, Goto
  <2>2. CASE jobs = <<>>
    BY <1>7, <2>2 DEF WorkerRecheck, Attended
  <2> QED  BY <2>1, <2>2
<1>8. ASSUME NEW w \in Workers, WorkerLeaves(w) PROVE Attended'
  <2>1. CASE jobs # <<>>
    BY <1>4, <1>8, <2>1 DEF WorkerLeaves, Goto
  <2>2. CASE jobs = <<>>
    BY <1>8, <2>2 DEF WorkerLeaves, Attended
  <2> QED  BY <2>1, <2>2
<1>9. CASE UNCHANGED vars
  BY <1>9 DEF vars, Attended, Awake, Starts, Signals
<1> QED
  BY <1>1, <1>2, <1>3, <1>5, <1>6, <1>7, <1>8, <1>9 DEF Next, SubmitStep, WorkerStep

-----------------------------------------------------------------------------
(* Each job is run once.                                                   *)

\* The steps that are about threads and signals leave the jobs where they are.
ThreadStep(x) ==
    \/ x \in Submitters /\ (SubmitCheck(x) \/ SubmitSignal(x))
    \/ /\ x \in Workers
       /\ \/ WorkerIdle(x) \/ WorkerRecheck(x) \/ WorkerTimeout(x) \/ WorkerSpurious(x)
          \/ WorkerNotified(x) \/ WorkerTimedOut(x) \/ WorkerLeaves(x)
          \/ (WorkerPop(x) /\ jobs = <<>>)

\* Such a step starts and ends no job.
LEMMA JobsStay ==
    ASSUME TypeOK, Places, NEW x \in Submitters \cup Workers, ThreadStep(x)
    PROVE  /\ jobs' = jobs /\ job' = job /\ submitted' = submitted /\ done' = done
           /\ \A w \in Workers : pc'[w] = "run" <=> pc[w] = "run"
<1> USE DEF TypeOK, Places
<1>1. CASE x \in Submitters /\ SubmitCheck(x)
  <2>1. \/ pc' = [pc EXCEPT ![x] = "signal"]
        \/ \E w \in Workers : pc[w] = "gone" /\ pc' = [pc EXCEPT ![x] = "signal", ![w] = "pop"]
    BY <1>1 DEF SubmitCheck, Goto
  <2> QED  BY <1>1, <2>1 DEF SubmitCheck
<1>2. CASE x \in Submitters /\ SubmitSignal(x)
  <2>1. \/ pc' = [pc EXCEPT ![x] = "user"]
        \/ \E w \in Workers : pc[w] = "waiting" /\ pc' = [pc EXCEPT ![x] = "user", ![w] = "notified"]
    BY <1>2 DEF SubmitSignal
  <2> QED  BY <1>2, <2>1 DEF SubmitSignal
<1>3. CASE x \in Workers /\ WorkerPop(x) /\ jobs = <<>>
  BY <1>3 DEF WorkerPop, Goto
<1>4. CASE x \in Workers /\ (WorkerIdle(x) \/ WorkerRecheck(x) \/ WorkerTimeout(x) \/ WorkerSpurious(x))
  BY <1>4 DEF WorkerIdle, WorkerRecheck, WorkerTimeout, WorkerSpurious, Goto
<1>5. CASE x \in Workers /\ (WorkerNotified(x) \/ WorkerTimedOut(x) \/ WorkerLeaves(x))
  BY <1>5 DEF WorkerNotified, WorkerTimedOut, WorkerLeaves, Goto
<1> QED  BY <1>1, <1>2, <1>3, <1>4, <1>5 DEF ThreadStep

\* The steps that are about jobs, and all others.
LEMMA StepKinds ==
    ASSUME [Next]_vars
    PROVE  \/ \E s \in Submitters, j \in Jobs : SubmitPush(s, j)
           \/ \E w \in Workers : WorkerPop(w) /\ jobs # <<>>
           \/ \E w \in Workers : JobEnds(w)
           \/ \E x \in Submitters \cup Workers : ThreadStep(x)
           \/ UNCHANGED vars
  BY DEF Next, SubmitStep, WorkerStep, ThreadStep

\* What pop_front leaves of the queue.
LEMMA Popped ==
    ASSUME TypeOK, jobs # <<>>
    PROVE  /\ Head(jobs) \in Jobs /\ Head(jobs) = jobs[1] /\ 1 \in 1..Len(jobs)
           /\ Len(Tail(jobs)) = Len(jobs) - 1
           /\ \A i \in 1..Len(Tail(jobs)) : i + 1 \in 1..Len(jobs) /\ Tail(jobs)[i] = jobs[i + 1]
<1>1. Len(jobs) \in Nat /\ Len(jobs) # 0
  BY EmptySeq, LenProperties DEF TypeOK
<1> QED  BY <1>1, HeadTailProperties DEF TypeOK

\* Pushing, popping and ending a job keep the places a job can be in apart.
LEMMA ApartStep ==
    ASSUME TypeOK, Places, Apart, [Next]_vars
    PROVE  Apart'
<1> USE DEF TypeOK, Places
<1>1. ASSUME NEW s \in Submitters, NEW j \in Jobs, SubmitPush(s, j) PROVE Apart'
  <2>1. /\ jobs' = Append(jobs, j) /\ submitted' = submitted \cup {j} /\ j \notin submitted
        /\ job' = job /\ done' = done /\ \A w \in Workers : pc'[w] = pc[w]
    BY <1>1 DEF SubmitPush, Goto
  <2>2. /\ Len(jobs') = Len(jobs) + 1 /\ Len(jobs) \in Nat
        /\ \A i \in 1..Len(jobs) : jobs'[i] = jobs[i]
        /\ jobs'[Len(jobs) + 1] = j
    BY <2>1
  <2>3. \A i \in 1..Len(jobs') : i \in 1..Len(jobs) \/ (i = Len(jobs) + 1 /\ jobs'[i] = j)
    BY <2>2
  <2>4. j \notin done /\ \A w \in Workers : j \notin job[w]
    BY <2>1 DEF Apart
  <2>5. \A i \in 1..Len(jobs) : jobs[i] # j
    BY <2>1 DEF Apart
  <2>6. \A i, k \in 1..Len(jobs') : jobs'[i] = jobs'[k] => i = k
    BY <2>2, <2>3, <2>5 DEF Apart
  <2>7. \A i \in 1..Len(jobs') :
           jobs'[i] \in submitted' \ done' /\ \A w \in Workers : jobs'[i] \notin job'[w]
    BY <2>1, <2>2, <2>3, <2>4 DEF Apart
  <2> QED  BY <2>1, <2>6, <2>7 DEF Apart
<1>2. ASSUME NEW w \in Workers, WorkerPop(w), jobs # <<>> PROVE Apart'
  <2> DEFINE j == Head(jobs)
  <2>1. /\ jobs' = Tail(jobs) /\ job' = [job EXCEPT ![w] = {j}]
        /\ pc' = [pc EXCEPT ![w] = "run"] /\ submitted' = submitted /\ done' = done
    BY <1>2 DEF WorkerPop, Goto
  <2>2. j \in Jobs /\ j \in submitted \ done /\ \A v \in Workers : j \notin job[v]
    BY <1>2, Popped DEF Apart
  <2>3. \A i \in 1..Len(jobs') : i + 1 \in 1..Len(jobs) /\ jobs'[i] = jobs[i + 1] /\ jobs'[i] # j
    BY <1>2, <2>1, Popped DEF Apart
  <2>4. \A i, k \in 1..Len(jobs') : jobs'[i] = jobs'[k] => i = k
    <3> SUFFICES ASSUME NEW i \in 1..Len(jobs'), NEW k \in 1..Len(jobs'), jobs'[i] = jobs'[k]
                 PROVE  i = k
      OBVIOUS
    <3>1. i + 1 = k + 1
      BY <2>3 DEF Apart
    <3> QED  BY <3>1
  <2>5. \A v \in Workers : job'[v] = IF v = w THEN {j} ELSE job[v]
    BY <2>1
  <2>6. \A i \in 1..Len(jobs') :
           jobs'[i] \in submitted' \ done' /\ \A v \in Workers : jobs'[i] \notin job'[v]
    BY <2>1, <2>3, <2>5 DEF Apart
  <2>7. \A u, v \in Workers : u # v => job'[u] \cap job'[v] = {}
    BY <2>2, <2>5 DEF Apart
  <2>8. \A v \in Workers : job'[v] \subseteq submitted' \ done'
    BY <2>1, <2>2, <2>5 DEF Apart
  <2>9. \A v \in Workers :
           IF pc'[v] = "run" THEN \E i \in Jobs : job'[v] = {i} ELSE job'[v] = {}
    BY <2>1, <2>2, <2>5 DEF Apart
  <2> QED  BY <2>1, <2>4, <2>6, <2>7, <2>8, <2>9 DEF Apart
<1>3. ASSUME NEW w \in Workers, JobEnds(w) PROVE Apart'
  <2>1. /\ jobs' = jobs /\ job' = [job EXCEPT ![w] = {}] /\ done' = done \cup job[w]
        /\ pc' = [pc EXCEPT ![w] = "pop"] /\ submitted' = submitted
    BY <1>3 DEF JobEnds, Goto
  <2>2. \A v \in Workers : job'[v] = IF v = w THEN {} ELSE job[v]
    BY <2>1
  <2>3. \A v \in Workers : job'[v] \cap job[w] = {}
    BY <2>2 DEF Apart
  <2>4. \A i \in 1..Len(jobs') :
           jobs'[i] \in submitted' \ done' /\ \A v \in Workers : jobs'[i] \notin job'[v]
    BY <2>1, <2>2 DEF Apart
  <2>5. /\ \A u, v \in Workers : u # v => job'[u] \cap job'[v] = {}
        /\ \A v \in Workers : job'[v] \subseteq submitted' \ done'
        /\ done' \subseteq submitted'
    BY <2>1, <2>2, <2>3 DEF Apart
  <2>6. \A v \in Workers :
           IF pc'[v] = "run" THEN \E i \in Jobs : job'[v] = {i} ELSE job'[v] = {}
    BY <2>1, <2>2 DEF Apart
  <2> QED  BY <2>1, <2>4, <2>5, <2>6 DEF Apart
<1>4. ASSUME NEW x \in Submitters \cup Workers, ThreadStep(x) PROVE Apart'
  BY <1>4, JobsStay DEF Apart
<1>5. CASE UNCHANGED vars
  BY <1>5 DEF vars, Apart
<1> QED  BY <1>1, <1>2, <1>3, <1>4, <1>5, StepKinds

-----------------------------------------------------------------------------

\* The invariant holds of every state submitters and pool threads can reach.
THEOREM Invariance == Safety => []IndInv
<1>1. NoStrandedJob <=> CountersExact /\ Attended
  BY DEF NoStrandedJob, Attended, Awake, Starts, Signals
<1>2. NoStrandedJob' <=> CountersExact' /\ Attended'
  BY DEF NoStrandedJob, Attended, Awake, Starts, Signals
<1>3. IndInv /\ [Next]_vars => IndInv'
  BY <1>1, <1>2, TypeStep, CountersStep, AttendedStep, ApartStep DEF IndInv
<1> QED  BY InitIndInv, <1>3, PTL DEF Safety

\* BlockingPool::submit and worker_loop: the counters are exact, and while a
\* job is queued there is a thread that will look at the queue, or a submitter
\* about to start or to signal one.
THEOREM NoJobStranded == Safety => []NoStrandedJob
  BY Invariance, PTL DEF IndInv

-----------------------------------------------------------------------------
(* The pool implements JobPool.                                            *)

\* A pool without threads has no jobs.
LEMMA InitPool == Init => Pool!Init
  BY DEF Init, Pool!Init, Running

\* Pushing, popping and ending a job are the steps of JobPool; nothing else that
\* submitters and threads do is seen there.
LEMMA NextPool == IndInv /\ [Next]_vars => [Pool!Next]_(Pool!vars)
<1> SUFFICES ASSUME IndInv, [Next]_vars PROVE [Pool!Next]_(Pool!vars)
  OBVIOUS
<1> USE DEF IndInv, TypeOK, Places
<1>1. ASSUME NEW s \in Submitters, NEW j \in Jobs, SubmitPush(s, j) PROVE Pool!Submit(j)
  <2>1. /\ jobs' = Append(jobs, j) /\ j \notin submitted /\ job' = job /\ done' = done
    BY <1>1 DEF SubmitPush
  <2>2. j \notin Running \cup done /\ \A i \in 1..Len(jobs) : jobs[i] # j
    BY <2>1 DEF Apart, Running
  <2>3. Running' = Running
    BY <2>1 DEF Running
  <2> QED  BY <2>1, <2>2, <2>3 DEF Pool!Submit
<1>2. ASSUME NEW w \in Workers, WorkerPop(w), jobs # <<>> PROVE Pool!Start
  <2>1. jobs' = Tail(jobs) /\ job' = [job EXCEPT ![w] = {Head(jobs)}] /\ done' = done
    BY <1>2 DEF WorkerPop
  <2>2. Head(jobs) \notin Running \cup done
    BY <1>2, Popped DEF Apart, Running
  <2>3. job[w] = {}
    BY <1>2 DEF WorkerPop, Goto, Apart
  <2>4. \A v \in Workers : job'[v] = IF v = w THEN {Head(jobs)} ELSE job[v]
    BY <2>1
  <2>5. Running' = Running \cup {Head(jobs)}
    BY <2>3, <2>4 DEF Running
  <2> QED  BY <1>2, <2>1, <2>2, <2>5 DEF Pool!Start
<1>3. ASSUME NEW w \in Workers, JobEnds(w) PROVE \E j \in Jobs : Pool!End(j)
  <2>1. PICK j \in Jobs : job[w] = {j}
    BY <1>3 DEF JobEnds, Goto, Apart
  <2>2. jobs' = jobs /\ job' = [job EXCEPT ![w] = {}] /\ done' = done \cup {j}
    BY <1>3, <2>1 DEF JobEnds
  <2>3. \A v \in Workers : job'[v] = IF v = w THEN {} ELSE job[v]
    BY <2>2
  <2>4. \A v \in Workers : v # w => j \notin job[v]
    BY <2>1 DEF Apart
  <2>5. Running' = Running \ {j} /\ j \in Running
    BY <2>1, <2>3, <2>4 DEF Running
  <2>6. Pool!End(j)
    BY <2>2, <2>5 DEF Pool!End
  <2> QED  BY <2>6
<1>4. ASSUME NEW x \in Submitters \cup Workers, ThreadStep(x) PROVE UNCHANGED Pool!vars
  BY <1>4, JobsStay DEF Pool!vars, Running
<1>5. CASE UNCHANGED vars
  BY <1>5 DEF vars, Pool!vars, Running
<1> QED  BY <1>1, <1>2, <1>3, <1>4, <1>5, StepKinds DEF Pool!Next

\* BlockingPool::spawn: jobs start in the order of their submission, each by one
\* thread and once, and what ended had been started: the safety part of
\* ImplementsJobPool, for any number of jobs, submitters and threads.
THEOREM PoolImplementsJobPool == Safety => Pool!Safety
  BY InitPool, NextPool, Invariance, PTL DEF Safety, Pool!Safety
=============================================================================
