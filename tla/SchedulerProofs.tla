-------------------------- MODULE SchedulerProofs --------------------------
(***************************************************************************)
(* For any number of workers and tasks: a task has one entry over all the  *)
(* queues exactly when it is due, whatever wakes, steals and suspends in   *)
(* between, the count that run_until_idle waits on is exact, and the       *)
(* scheduler implements TaskPool.                                          *)
(***************************************************************************)
EXTENDS Scheduler, FiniteSetTheorems, SequenceTheorems, TLAPS

Has(seq, t) == \E i \in 1..Len(seq) : seq[i] = t
Distinct(seq) == \A i, j \in 1..Len(seq) : seq[i] = seq[j] => i = j

\* Worker w is on its way out of a task that has ended.
Ending(w) ==
    pc[w] \in {"onAbandon", "finish"} \/ (pc[w] = "notify" /\ ret[w] = "onAbandon")

Runs(w, t) == InBody(w) /\ cur[w] = t
Locks(w, t) == pc[w] = "lock" /\ cur[w] = t

\* Each thread is somewhere in its own functions, and a worker has a task exactly
\* between finding it and parting with it.
Places ==
    /\ \A w \in Workers :
        /\ pc[w] \in WorkerLocations
        /\ pc[w] = "notify" <=> ret[w] # "user"
        /\ pc[w] = "injector" => local[w] = <<>>
        /\ cur[w] \in Tasks <=>
              pc[w] = "lock" \/ InBody(w) \/ Suspending(w) \/ Ending(w)
    /\ pc[Main] \in MainLocations /\ ret[Main] = "user"
    /\ pc[Ext] \in {"user", "notify"} /\ ret[Ext] = "user"

\* A coroutine mutex is held by the worker in the task's body or on the way out.
Holders ==
    /\ \A w \in Workers :
        InBody(w) \/ Suspending(w) => holder[cur[w]] = w /\ life[cur[w]] = "some"
    /\ \A w \in Workers, t \in Tasks :
        holder[t] = w => (InBody(w) \/ Suspending(w)) /\ cur[w] = t

\* Task t is in a queue, or in the hands of a worker about to resume it.
InQueue(t) ==
    \/ Has(injector, t)
    \/ \E w \in Workers : Has(local[w], t)
    \/ \E w \in Workers : Locks(w, t)

\* A task is in a queue exactly when it is alive, its last wait is over and its
\* body is not executing. A waker that overtakes the suspension makes it due
\* before the worker has let go of it.
QueuedWhenDue ==
    \A t \in Tasks :
        /\ InQueue(t) <=> /\ life[t] = "some"
                          /\ waker[t] # "armed"
                          /\ \A w \in Workers : ~Runs(w, t)
        /\ waker[t] = "armed" => life[t] = "some" /\ \A w \in Workers : ~Runs(w, t)

\* The entries of all queues and hands are of different tasks.
Exclusive ==
    /\ Distinct(injector)
    /\ \A w \in Workers : Distinct(local[w])
    /\ \A t \in Tasks, w, v \in Workers :
        /\ Has(injector, t) => ~Has(local[w], t) /\ ~Locks(w, t)
        /\ Has(local[w], t) => ~Locks(v, t) /\ (v # w => ~Has(local[v], t))
        /\ Locks(w, t) /\ Locks(v, t) => v = w

\* Where a worker has no task and is outside of the condition variable `done`.
Unladen == {"loop", "local", "injector", "steal", "park", "waiting", "unpark"}

Live == {t \in Tasks : life[t] = "some"}
Enders == {w \in Workers : Ending(w)}
Parkers == {w \in Workers : pc[w] \in {"waiting", "unpark"}}

\* The two counters count what they should.
Counted ==
    /\ parked = Cardinality(Parkers)
    /\ active = Cardinality(Live) + Cardinality(Enders)

\* Main's wait, once more.
Notified == (pc[Main] = "wait" /\ active = 0) => \E w \in Workers : pc[w] = "finished"

\* The inductive invariant.
IndInv ==
    /\ TypeOK /\ Places /\ Holders
    /\ QueuedWhenDue /\ Exclusive
    /\ Counted /\ Notified

-----------------------------------------------------------------------------
(* Queues as sequences without repetition.                                 *)

USE AgentsAssumption DEF Agents

\* A task pushed at the back is the only change.
LEMMA AppendEntry ==
    ASSUME NEW s \in Seq(Tasks), NEW x \in Tasks
    PROVE  /\ Append(s, x) \in Seq(Tasks)
           /\ \A y : Has(Append(s, x), y) <=> Has(s, y) \/ y = x
           /\ Distinct(s) /\ ~Has(s, x) => Distinct(Append(s, x))
<1>1. /\ Append(s, x) \in Seq(Tasks)
      /\ Len(Append(s, x)) = Len(s) + 1
      /\ \A i \in 1..Len(s) : Append(s, x)[i] = s[i]
      /\ Append(s, x)[Len(s) + 1] = x
  BY AppendProperties
<1>2. Len(s) \in Nat
  BY LenProperties
<1>3. ASSUME NEW y PROVE Has(Append(s, x), y) <=> Has(s, y) \/ y = x
  BY <1>1, <1>2 DEF Has
<1>4. Distinct(s) /\ ~Has(s, x) => Distinct(Append(s, x))
  BY <1>1, <1>2 DEF Has, Distinct
<1> QED  BY <1>1, <1>3, <1>4

\* Popping at the front leaves everything else.
LEMMA PopEntry ==
    ASSUME NEW s \in Seq(Tasks), s # <<>>
    PROVE  /\ Head(s) \in Tasks /\ Tail(s) \in Seq(Tasks)
           /\ \A y : Has(s, y) <=> y = Head(s) \/ Has(Tail(s), y)
           /\ Distinct(s) => Distinct(Tail(s)) /\ ~Has(Tail(s), Head(s))
<1>1. /\ Len(s) \in Nat /\ Len(s) # 0 /\ Head(s) = s[1] /\ Head(s) \in Tasks
      /\ Tail(s) \in Seq(Tasks) /\ Len(Tail(s)) = Len(s) - 1
      /\ \A i \in 1..Len(Tail(s)) : Tail(s)[i] = s[i + 1]
  BY HeadTailProperties, LenProperties, EmptySeq
<1>2. ASSUME NEW y PROVE Has(s, y) <=> y = Head(s) \/ Has(Tail(s), y)
  <2>1. ASSUME Has(Tail(s), y) PROVE Has(s, y)
    <3>1. PICK i \in 1..Len(Tail(s)) : Tail(s)[i] = y
      BY <2>1 DEF Has
    <3>2. i + 1 \in 1..Len(s) /\ s[i + 1] = y
      BY <1>1, <3>1
    <3> QED  BY <3>2 DEF Has
  <2>2. ASSUME Has(s, y), y # Head(s) PROVE Has(Tail(s), y)
    <3>1. PICK i \in 1..Len(s) : s[i] = y
      BY <2>2 DEF Has
    <3>2. i - 1 \in 1..Len(Tail(s)) /\ Tail(s)[i - 1] = s[(i - 1) + 1]
      BY <1>1, <2>2, <3>1
    <3> QED  BY <3>1, <3>2 DEF Has
  <2>3. Has(s, Head(s))
    BY <1>1 DEF Has
  <2> QED  BY <2>1, <2>2, <2>3
<1>3. Distinct(s) => Distinct(Tail(s)) /\ ~Has(Tail(s), Head(s))
  BY <1>1 DEF Has, Distinct
<1> QED  BY <1>1, <1>2, <1>3

\* A batch cuts a queue into its head, what moves and what stays.
LEMMA CutEntries ==
    ASSUME NEW s \in Seq(Tasks), NEW n \in 1..Len(s)
    PROVE  LET a == SubSeq(s, 2, n)
               b == SubSeq(s, n + 1, Len(s))
           IN  /\ Head(s) \in Tasks /\ a \in Seq(Tasks) /\ b \in Seq(Tasks)
               /\ \A y : Has(s, y) <=> y = Head(s) \/ Has(a, y) \/ Has(b, y)
               /\ Distinct(s) => /\ Distinct(a) /\ Distinct(b)
                                 /\ ~Has(a, Head(s)) /\ ~Has(b, Head(s))
                                 /\ \A y : ~(Has(a, y) /\ Has(b, y))
<1> DEFINE a == SubSeq(s, 2, n)
           b == SubSeq(s, n + 1, Len(s))
<1>0. Len(s) \in Nat /\ s # <<>>
  BY LenProperties, EmptySeq
<1>h. Head(s) = s[1] /\ Head(s) \in Tasks
  BY <1>0, HeadTailProperties
<1>1. /\ a \in Seq(Tasks) /\ Len(a) = n - 1
      /\ \A i \in 1..(n - 1) : a[i] = s[i + 1]
  BY <1>0
<1>2. /\ b \in Seq(Tasks) /\ Len(b) = Len(s) - n
      /\ \A i \in 1..(Len(s) - n) : b[i] = s[n + i]
  BY <1>0
<1> HIDE DEF a, b
<1>3. ASSUME NEW y PROVE Has(s, y) <=> y = Head(s) \/ Has(a, y) \/ Has(b, y)
  <2>1. ASSUME Has(a, y) PROVE Has(s, y)
    <3>1. PICK i \in 1..(n - 1) : a[i] = y
      BY <2>1, <1>1 DEF Has
    <3>2. i + 1 \in 1..Len(s) /\ s[i + 1] = y
      BY <1>0, <1>1, <3>1
    <3> QED  BY <3>2 DEF Has
  <2>2. ASSUME Has(b, y) PROVE Has(s, y)
    <3>1. PICK i \in 1..(Len(s) - n) : b[i] = y
      BY <2>2, <1>2 DEF Has
    <3>2. n + i \in 1..Len(s) /\ s[n + i] = y
      BY <1>0, <1>2, <3>1
    <3> QED  BY <3>2 DEF Has
  <2>3. Has(s, Head(s))
    BY <1>0, <1>h DEF Has
  <2>4. ASSUME Has(s, y), y # Head(s) PROVE Has(a, y) \/ Has(b, y)
    <3>1. PICK i \in 1..Len(s) : s[i] = y
      BY <2>4 DEF Has
    <3>2. i # 1
      BY <2>4, <3>1, <1>h
    <3>3. CASE i <= n
      <4>1. i - 1 \in 1..Len(a) /\ a[i - 1] = s[(i - 1) + 1] /\ (i - 1) + 1 = i
        BY <1>0, <1>1, <3>1, <3>2, <3>3
      <4> QED  BY <4>1, <3>1 DEF Has
    <3>4. CASE i > n
      <4>1. i - n \in 1..Len(b) /\ b[i - n] = s[n + (i - n)] /\ n + (i - n) = i
        BY <1>0, <1>2, <3>1, <3>4
      <4> QED  BY <4>1, <3>1 DEF Has
    <3> QED  BY <1>0, <3>1, <3>3, <3>4
  <2> QED  BY <2>1, <2>2, <2>3, <2>4
<1>4. ASSUME Distinct(s)
      PROVE  /\ Distinct(a) /\ Distinct(b)
             /\ ~Has(a, Head(s)) /\ ~Has(b, Head(s))
             /\ \A y : ~(Has(a, y) /\ Has(b, y))
  <2>0. ASSUME NEW i \in 1..Len(s), NEW j \in 1..Len(s), s[i] = s[j] PROVE i = j
    BY <1>4, <2>0 DEF Distinct
  <2>1. ASSUME NEW i \in 1..(n - 1), NEW j \in 1..(n - 1), a[i] = a[j] PROVE i = j
    <3>1. i + 1 \in 1..Len(s) /\ j + 1 \in 1..Len(s) /\ s[i + 1] = s[j + 1]
      BY <1>0, <1>1, <2>1
    <3> QED  BY <3>1, <2>0
  <2>2. ASSUME NEW i \in 1..(Len(s) - n), NEW j \in 1..(Len(s) - n), b[i] = b[j]
        PROVE  i = j
    <3>1. n + i \in 1..Len(s) /\ n + j \in 1..Len(s) /\ s[n + i] = s[n + j]
      BY <1>0, <1>2, <2>2
    <3>2. n + i = n + j
      BY <3>1, <2>0
    <3> QED  BY <1>0, <3>2
  <2>3. ASSUME NEW i \in 1..(n - 1), a[i] = Head(s) PROVE FALSE
    <3>1. i + 1 \in 1..Len(s) /\ 1 \in 1..Len(s) /\ s[i + 1] = s[1]
      BY <1>0, <1>h, <1>1, <2>3
    <3> QED  BY <3>1, <2>0
  <2>4. ASSUME NEW j \in 1..(Len(s) - n), b[j] = Head(s) PROVE FALSE
    <3>1. n + j \in 1..Len(s) /\ 1 \in 1..Len(s) /\ s[n + j] = s[1]
      BY <1>0, <1>h, <1>2, <2>4
    <3>2. n + j = 1
      BY <3>1, <2>0
    <3> QED  BY <1>0, <3>2
  <2>5. ASSUME NEW i \in 1..(n - 1), NEW j \in 1..(Len(s) - n), a[i] = b[j] PROVE FALSE
    <3>1. i + 1 \in 1..Len(s) /\ n + j \in 1..Len(s) /\ s[i + 1] = s[n + j]
      BY <1>0, <1>1, <1>2, <2>5
    <3>2. i + 1 = n + j
      BY <3>1, <2>0
    <3> QED  BY <1>0, <3>2
  <2>6. Distinct(a) /\ ~Has(a, Head(s))
    BY <1>1, <2>1, <2>3 DEF Distinct, Has
  <2>7. Distinct(b) /\ ~Has(b, Head(s))
    BY <1>2, <2>2, <2>4 DEF Distinct, Has
  <2>8. \A y : ~(Has(a, y) /\ Has(b, y))
    BY <1>1, <1>2, <2>5 DEF Has
  <2> QED  BY <2>6, <2>7, <2>8
<1> QED  BY <1>h, <1>1, <1>2, <1>3, <1>4 DEF a, b

-----------------------------------------------------------------------------
(* Types, places and holders.                                              *)

\* The invariant holds of a runtime that has just been created.
LEMMA InitIndInv == Init => IndInv
<1> SUFFICES ASSUME Init PROVE IndInv
  OBVIOUS
<1> USE DEF Init
<1>1. TypeOK
  <2>1. injector \in Seq(Tasks) /\ local \in [Workers -> Seq(Tasks)]
    OBVIOUS
  <2>2. pc \in [Agents -> WorkerLocations \cup MainLocations]
    BY DEF WorkerLocations, MainLocations
  <2>3. ret \in [Agents -> {"user", "run", "suspend", "onAbandon"}]
    OBVIOUS
  <2>4. /\ cur \in [Workers -> Tasks \cup {Nobody}]
        /\ scan \in [Workers -> SUBSET Workers]
        /\ life \in [Tasks -> {"unspawned", "some", "none"}]
        /\ holder \in [Tasks -> Workers \cup {Nobody}]
        /\ waker \in [Tasks -> {"none", "armed", "fired"}]
    OBVIOUS
  <2> QED  BY <2>1, <2>2, <2>3, <2>4 DEF TypeOK
<1>2. \A w \in Workers : pc[w] = "loop" /\ ret[w] = "user" /\ cur[w] = Nobody
  OBVIOUS
<1>3. Places
  BY <1>2 DEF Places, InBody, Suspending, Ending, WorkerLocations, MainLocations
<1>4. Holders
  BY <1>2 DEF Holders, InBody, Suspending
<1>5. \A t \in Tasks : ~Has(injector, t) /\ \A w \in Workers : ~Has(local[w], t)
  BY DEF Has
<1>6. QueuedWhenDue
  BY <1>2, <1>5 DEF QueuedWhenDue, InQueue, Locks, Runs
<1>7. Exclusive
  BY <1>2, <1>5 DEF Exclusive, Locks, Distinct
<1>8. Live = {} /\ Enders = {} /\ Parkers = {}
  BY <1>2 DEF Live, Enders, Parkers, Ending
<1>9. Counted
  BY <1>8, FS_EmptySet DEF Counted
<1> QED  BY <1>1, <1>3, <1>4, <1>6, <1>7, <1>9 DEF IndInv, Notified

\* A set that gains or loses one element changes its cardinality by one.
LEMMA OneMore ==
    ASSUME NEW S, IsFiniteSet(S), NEW x, x \notin S
    PROVE  Cardinality(S \cup {x}) = Cardinality(S) + 1
  BY FS_AddElement

\* The same, taking one away.
LEMMA OneLess ==
    ASSUME NEW S, IsFiniteSet(S), NEW x \in S
    PROVE  Cardinality(S \ {x}) = Cardinality(S) - 1 /\ Cardinality(S) > 0
<1>1. Cardinality(S) \in Nat /\ Cardinality(S) # 0
  BY FS_CardinalityType, FS_EmptySet
<1>2. Cardinality(S \ {x}) = Cardinality(S) - 1
  BY FS_RemoveElement
<1> QED  BY <1>1, <1>2

\* Workers and tasks are finitely many, so counting them gives numbers.
LEMMA CountsFinite ==
    /\ IsFiniteSet(Live) /\ Cardinality(Live) \in Nat
    /\ IsFiniteSet(Enders) /\ Cardinality(Enders) \in Nat
    /\ IsFiniteSet(Parkers) /\ Cardinality(Parkers) \in Nat
<1>1. Live \subseteq Tasks /\ Enders \subseteq Workers /\ Parkers \subseteq Workers
  BY DEF Live, Enders, Parkers
<1> QED  BY <1>1, FS_Subset, FS_CardinalityType

\* A worker at the end of a task, or in `park`, is counted.
LEMMA CountersPositive ==
    ASSUME Counted, NEW w \in Workers
    PROVE  /\ pc[w] = "finish" => active \in Nat /\ active > 0
           /\ pc[w] = "unpark" => parked \in Nat /\ parked > 0
<1>1. ASSUME pc[w] = "finish" PROVE active \in Nat /\ active > 0
  <2>1. w \in Enders
    BY <1>1 DEF Enders, Ending
  <2>2. Cardinality(Enders) > 0
    BY <2>1, CountsFinite, OneLess
  <2> QED  BY <2>2, CountsFinite DEF Counted
<1>2. ASSUME pc[w] = "unpark" PROVE parked \in Nat /\ parked > 0
  <2>1. w \in Parkers
    BY <1>2 DEF Parkers
  <2> QED  BY <2>1, CountsFinite, OneLess DEF Counted
<1> QED  BY <1>1, <1>2

-----------------------------------------------------------------------------
(* The two halves of a step that most actions leave alone.                 *)

\* No entry moves, and no body starts or stops.
LEMMA QuietQueues ==
    ASSUME QueuedWhenDue, Exclusive, UNCHANGED <<injector, local, life, waker>>,
           \A v \in Workers, t \in Tasks :
               (Runs(v, t)' <=> Runs(v, t)) /\ (Locks(v, t)' <=> Locks(v, t))
    PROVE  QueuedWhenDue' /\ Exclusive'
<1>1. \A t \in Tasks : InQueue(t)' <=> InQueue(t)
  BY DEF InQueue
<1>2. QueuedWhenDue'
  BY <1>1 DEF QueuedWhenDue
<1>3. Exclusive'
  BY DEF Exclusive
<1> QED  BY <1>2, <1>3

\* Nobody comes to be counted or stops being counted.
LEMMA QuietCounts ==
    ASSUME Counted, UNCHANGED <<parked, active>>,
           Live' = Live, Enders' = Enders, Parkers' = Parkers
    PROVE  Counted'
  BY DEF Counted

\* A worker without a task moves on.
LEMMA MoveStep ==
    ASSUME IndInv, NEW w \in Workers, NEW q,
           pc[w] \in Unladen, q \in Unladen \cup {"exit"},
           pc' = [pc EXCEPT ![w] = q],
           q = "injector" => local[w] = <<>>,
           scan' \in [Workers -> SUBSET Workers], parked' \in Nat,
           parked' = Cardinality(Parkers'),
           UNCHANGED <<injector, local, shutdown, active, ret, cur, life, holder, waker>>
    PROVE  IndInv'
<1> USE DEF IndInv, Unladen
<1>1. TypeOK'
  BY DEF TypeOK, WorkerLocations, MainLocations
<1>2. Places'
  BY DEF TypeOK, Places, InBody, Suspending, Ending, WorkerLocations
<1>3. Holders'
  BY DEF TypeOK, Places, Holders, InBody, Suspending
<1>4. \A v \in Workers, t \in Tasks :
          (Runs(v, t)' <=> Runs(v, t)) /\ (Locks(v, t)' <=> Locks(v, t))
  BY DEF TypeOK, Places, Runs, Locks, InBody
<1>5. QueuedWhenDue' /\ Exclusive'
  BY <1>4, QuietQueues
<1>6. Live' = Live /\ Enders' = Enders
  BY DEF TypeOK, Places, Live, Enders, Ending
<1>7. Counted'
  BY <1>6 DEF Counted
<1>8. Notified'
  BY DEF TypeOK, Places, Notified
<1> QED  BY <1>1, <1>2, <1>3, <1>5, <1>7, <1>8

\* worker_loop, the empty queues of find_task, and park's timeout.
LEMMA SearchStep ==
    ASSUME IndInv, NEW w \in Workers,
           \/ WorkerLoop(w) \/ FoundNothing(w) \/ ParkTimeout(w)
           \/ PopLocal(w) /\ local[w] = <<>>
           \/ StealBatch(w) /\ injector = <<>>
           \/ \E v \in Workers : StealFrom(w, v) /\ local[v] = <<>>
    PROVE  IndInv'
<1>1. PICK q \in {"local", "injector", "steal", "park", "unpark", "exit"} : pc' = [pc EXCEPT ![w] = q]
  BY DEF WorkerLoop, FoundNothing, ParkTimeout, PopLocal, StealBatch, StealFrom, Goto
<1>2. pc[w] \in {"loop", "local", "injector", "steal", "waiting"}
  BY DEF WorkerLoop, FoundNothing, ParkTimeout, PopLocal, StealBatch, StealFrom, Goto
<1>3. UNCHANGED <<injector, local, parked, shutdown, active, ret, cur, life, holder, waker>>
  BY DEF WorkerLoop, FoundNothing, ParkTimeout, PopLocal, StealBatch, StealFrom, queues, tasks
<1>4. scan' \in [Workers -> SUBSET Workers]
  BY DEF WorkerLoop, FoundNothing, ParkTimeout, PopLocal, StealBatch, StealFrom, IndInv, TypeOK
<1>5. pc[w] = "waiting" <=> q = "unpark"
  BY <1>1 DEF WorkerLoop, FoundNothing, ParkTimeout, PopLocal, StealBatch, StealFrom, Goto, IndInv, TypeOK
<1>6. Parkers' = Parkers
  BY <1>1, <1>2, <1>5 DEF Parkers, IndInv, TypeOK
<1>7. parked' \in Nat /\ parked' = Cardinality(Parkers')
  BY <1>3, <1>6 DEF IndInv, TypeOK, Counted
<1>8. pc[w] \in Unladen /\ q \in Unladen \cup {"exit"}
  BY <1>2 DEF Unladen
<1>9. q = "injector" => local[w] = <<>>
  BY <1>1 DEF WorkerLoop, FoundNothing, ParkTimeout, PopLocal, StealBatch, StealFrom, Goto, IndInv, TypeOK
<1> QED  BY <1>1, <1>3, <1>4, <1>7, <1>8, <1>9, MoveStep

\* The count of parked workers follows those that are inside `park`.
LEMMA ParkStep ==
    ASSUME IndInv, NEW w \in Workers, Park(w) \/ Unpark(w)
    PROVE  IndInv'
<1> USE DEF IndInv
<1>1. CASE Park(w)
  <2>1. /\ pc[w] = "park" /\ pc' = [pc EXCEPT ![w] = "waiting"] /\ parked' = parked + 1
        /\ UNCHANGED <<injector, local, shutdown, active, ret, cur, scan, life, holder, waker>>
    BY <1>1 DEF Park, Goto, queues, tasks
  <2>2. w \notin Parkers /\ Parkers' = Parkers \cup {w}
    BY <2>1 DEF Parkers, TypeOK
  <2>3. parked' = Cardinality(Parkers')
    BY <2>1, <2>2, OneMore, CountsFinite DEF Counted
  <2>4. parked' \in Nat /\ scan' \in [Workers -> SUBSET Workers] /\ pc[w] \in Unladen
    BY <2>1 DEF TypeOK, Unladen
  <2> HIDE DEF IndInv
  <2>5. "waiting" \in Unladen \cup {"exit"} /\ "waiting" # "injector"
    BY DEF Unladen
  <2> QED  BY <2>1, <2>3, <2>4, <2>5, MoveStep
<1>2. CASE Unpark(w)
  <2>1. /\ pc[w] = "unpark" /\ pc' = [pc EXCEPT ![w] = "loop"] /\ parked' = parked - 1
        /\ UNCHANGED <<injector, local, shutdown, active, ret, cur, scan, life, holder, waker>>
    BY <1>2 DEF Unpark, Goto, queues, tasks
  <2>2. w \in Parkers /\ Parkers' = Parkers \ {w}
    BY <2>1 DEF Parkers, TypeOK
  <2>3. parked' = Cardinality(Parkers')
    BY <2>1, <2>2, OneLess, CountsFinite DEF Counted
  <2>4. parked' \in Nat /\ scan' \in [Workers -> SUBSET Workers] /\ pc[w] \in Unladen
    BY <2>1, CountersPositive DEF TypeOK, Unladen
  <2> HIDE DEF IndInv
  <2>5. "loop" \in Unladen \cup {"exit"} /\ "loop" # "injector"
    BY DEF Unladen
  <2> QED  BY <2>1, <2>3, <2>4, <2>5, MoveStep
<1> QED  BY <1>1, <1>2

-----------------------------------------------------------------------------
(* find_task: an entry goes from a queue into the hands of a worker.       *)

\* What a worker takes leaves the queues for its hands.
LEMMA TakeStep ==
    ASSUME IndInv, NEW w \in Workers, NEW t \in Tasks,
           pc[w] \in {"local", "injector", "steal"}, pc' = [pc EXCEPT ![w] = "lock"],
           cur' = [cur EXCEPT ![w] = t], scan' \in [Workers -> SUBSET Workers],
           injector' \in Seq(Tasks), local' \in [Workers -> Seq(Tasks)],
           \A y \in Tasks :
               (Has(injector, y) \/ \E v \in Workers : Has(local[v], y))
               <=> (y = t \/ Has(injector', y) \/ \E v \in Workers : Has(local'[v], y)),
           Exclusive', \A u \in Workers : local[u] = <<>> /\ u # w => local'[u] = <<>>,
           UNCHANGED <<parked, shutdown, active, ret, life, holder, waker>>
    PROVE  IndInv'
<1> USE DEF IndInv
<1>1. TypeOK'
  BY DEF TypeOK, WorkerLocations, MainLocations
<1>2. Places'
  BY DEF TypeOK, Places, InBody, Suspending, Ending, WorkerLocations
<1>3. Holders'
  BY DEF TypeOK, Places, Holders, InBody, Suspending
<1>4. \A v \in Workers, y \in Tasks :
          (Runs(v, y)' <=> Runs(v, y)) /\ (Locks(v, y)' <=> Locks(v, y) \/ (v = w /\ y = t))
  BY DEF TypeOK, Places, Runs, Locks, InBody
<1>5. \A y \in Tasks : InQueue(y)' <=> InQueue(y)
  BY <1>4 DEF InQueue
<1>6. QueuedWhenDue'
  BY <1>4, <1>5 DEF QueuedWhenDue
<1>7. Live' = Live /\ Enders' = Enders /\ Parkers' = Parkers
  BY DEF TypeOK, Places, Live, Enders, Ending, Parkers
<1>8. Counted'
  BY <1>7, QuietCounts
<1>9. Notified'
  BY DEF TypeOK, Places, Notified
<1> QED  BY <1>1, <1>2, <1>3, <1>6, <1>8, <1>9

\* A task popped from the worker's own queue, or stolen from another's.
LEMMA PopStep ==
    ASSUME IndInv, NEW w \in Workers, NEW v \in Workers, local[v] # <<>>,
           (PopLocal(w) /\ v = w) \/ StealFrom(w, v)
    PROVE  IndInv'
<1> DEFINE t == Head(local[v])
<1>0. local[v] \in Seq(Tasks) /\ Distinct(local[v])
  BY DEF IndInv, TypeOK, Exclusive
<1>1. /\ t \in Tasks /\ Tail(local[v]) \in Seq(Tasks)
      /\ \A y : Has(local[v], y) <=> y = t \/ Has(Tail(local[v]), y)
      /\ Distinct(Tail(local[v])) /\ ~Has(Tail(local[v]), t)
  BY <1>0, PopEntry
<1> HIDE DEF t
<1>2. /\ pc[w] \in {"local", "injector", "steal"} /\ pc' = [pc EXCEPT ![w] = "lock"]
      /\ cur' = [cur EXCEPT ![w] = t] /\ local' = [local EXCEPT ![v] = Tail(@)]
      /\ UNCHANGED <<injector, parked, shutdown, active, ret, life, holder, waker>>
  BY DEF PopLocal, StealFrom, Goto, tasks, t
<1>3. scan' \in [Workers -> SUBSET Workers]
  BY DEF PopLocal, StealFrom, IndInv, TypeOK
<1>4. injector' \in Seq(Tasks) /\ local' \in [Workers -> Seq(Tasks)]
  BY <1>1, <1>2 DEF IndInv, TypeOK
<1>5. \A u \in Workers : local'[u] = IF u = v THEN Tail(local[v]) ELSE local[u]
  BY <1>2 DEF IndInv, TypeOK
<1>6. \A u \in Workers, y \in Tasks : Has(local[u], y) <=> (u = v /\ y = t) \/ Has(local'[u], y)
  BY <1>1, <1>5
<1>7. \A u \in Workers, y \in Tasks : Locks(u, y)' <=> Locks(u, y) \/ (u = w /\ y = t)
  BY <1>2 DEF IndInv, TypeOK, Places, Locks
<1>8. Exclusive'
  <2>1. Distinct(injector') /\ \A u \in Workers : Distinct(local'[u])
    BY <1>1, <1>2, <1>5 DEF IndInv, Exclusive
  <2>2. ~Has(local'[v], t)
    BY <1>1, <1>5
  <2>3. Has(local[v], t)
    BY <1>1
  <2> QED  BY <1>2, <1>6, <1>7, <2>1, <2>2, <2>3 DEF IndInv, Exclusive
<1>9. \A y \in Tasks :
        (Has(injector, y) \/ \E u \in Workers : Has(local[u], y))
        <=> (y = t \/ Has(injector', y) \/ \E u \in Workers : Has(local'[u], y))
  BY <1>2, <1>6
<1>10. \A u \in Workers : local[u] = <<>> /\ u # w => local'[u] = <<>>
  BY <1>5
<1> QED  BY <1>1, <1>2, <1>3, <1>4, <1>8, <1>9, <1>10, TakeStep

\* A batch taken from the injector: one task in hand, some in the own queue,
\* which was empty when the worker turned to the injector and still is.
LEMMA BatchStep ==
    ASSUME IndInv, NEW w \in Workers, StealBatch(w), injector # <<>>
    PROVE  IndInv'
<1> DEFINE t == Head(injector)
<1>1. PICK n \in 1..Len(injector) :
        /\ local' = [local EXCEPT ![w] = SubSeq(injector, 2, n)]
        /\ injector' = SubSeq(injector, n + 1, Len(injector))
  BY DEF StealBatch
<1> DEFINE a == SubSeq(injector, 2, n)
           b == SubSeq(injector, n + 1, Len(injector))
<1>2. injector \in Seq(Tasks) /\ Distinct(injector)
  BY DEF IndInv, TypeOK, Exclusive
<1>3. /\ t \in Tasks /\ a \in Seq(Tasks) /\ b \in Seq(Tasks)
      /\ \A y : Has(injector, y) <=> y = t \/ Has(a, y) \/ Has(b, y)
      /\ Distinct(a) /\ Distinct(b)
      /\ ~Has(a, t) /\ ~Has(b, t)
      /\ \A y : ~(Has(a, y) /\ Has(b, y))
  BY <1>2, CutEntries
<1> HIDE DEF t, a, b
<1>4. injector' = b /\ local' = [local EXCEPT ![w] = a]
  BY <1>1 DEF a, b
<1>5. /\ pc[w] = "injector" /\ pc' = [pc EXCEPT ![w] = "lock"]
      /\ cur' = [cur EXCEPT ![w] = t]
      /\ UNCHANGED <<parked, shutdown, active, ret, scan, life, holder, waker>>
  BY DEF StealBatch, Goto, tasks, t
<1>6. \A y : ~Has(local[w], y)
  BY <1>5 DEF IndInv, Places, Has
<1>7. injector' \in Seq(Tasks) /\ local' \in [Workers -> Seq(Tasks)]
  BY <1>3, <1>4 DEF IndInv, TypeOK
<1>8. \A u \in Workers : local'[u] = IF u = w THEN a ELSE local[u]
  BY <1>4 DEF IndInv, TypeOK
<1>9. \A u \in Workers, y \in Tasks : Has(local'[u], y) <=> (u = w /\ Has(a, y)) \/ Has(local[u], y)
  BY <1>6, <1>8
<1>10. \A u \in Workers, y \in Tasks : Locks(u, y)' <=> Locks(u, y) \/ (u = w /\ y = t)
  BY <1>5 DEF IndInv, TypeOK, Places, Locks
<1>11. Exclusive'
  <2>1. Distinct(injector') /\ \A u \in Workers : Distinct(local'[u])
    BY <1>3, <1>4, <1>8 DEF IndInv, Exclusive
  <2>2. \A y \in Tasks : Has(injector', y) <=> Has(b, y)
    BY <1>4
  <2> QED  BY <1>3, <1>9, <1>10, <2>1, <2>2 DEF IndInv, Exclusive
<1>12. \A y \in Tasks :
        (Has(injector, y) \/ \E u \in Workers : Has(local[u], y))
        <=> (y = t \/ Has(injector', y) \/ \E u \in Workers : Has(local'[u], y))
  BY <1>3, <1>4, <1>9
<1>13. \A u \in Workers : local[u] = <<>> /\ u # w => local'[u] = <<>>
  BY <1>8
<1>14. scan' \in [Workers -> SUBSET Workers]
  BY <1>5 DEF IndInv, TypeOK
<1> QED  BY <1>3, <1>5, <1>7, <1>11, <1>12, <1>13, <1>14, TakeStep

-----------------------------------------------------------------------------
(* resume, and the ways a body stops executing.                            *)

\* Only one worker is in a task's body, and the task has then no entry.
LEMMA RunsAlone ==
    ASSUME IndInv, NEW w \in Workers, InBody(w)
    PROVE  /\ cur[w] \in Tasks /\ holder[cur[w]] = w /\ life[cur[w]] = "some"
           /\ ~InQueue(cur[w]) /\ waker[cur[w]] # "armed"
           /\ \A v \in Workers : Runs(v, cur[w]) => v = w
<1>1. cur[w] \in Tasks /\ holder[cur[w]] = w /\ life[cur[w]] = "some"
  BY DEF IndInv, Places, Holders
<1>2. \A v \in Workers : Runs(v, cur[w]) => v = w
  BY <1>1 DEF IndInv, Holders, Runs
<1>3. Runs(w, cur[w])
  BY DEF Runs
<1> QED  BY <1>1, <1>2, <1>3 DEF IndInv, QueuedWhenDue

\* The worker gets the mutex: the entry in its hand becomes the running body. The
\* coroutine is there, so the `expect` on it does not fail.
LEMMA ResumeStep ==
    ASSUME IndInv, NEW w \in Workers, ResumeLock(w)
    PROVE  IndInv'
<1> DEFINE t == cur[w]
<1>1. pc[w] = "lock" /\ holder[t] = Nobody
  BY DEF ResumeLock
<1>2. t \in Tasks /\ Locks(w, t)
  BY <1>1 DEF IndInv, Places, Locks
<1>3. life[t] = "some" /\ waker[t] # "armed" /\ \A v \in Workers : ~Runs(v, t)
  BY <1>2 DEF IndInv, QueuedWhenDue, InQueue
<1>4. /\ pc' = [pc EXCEPT ![w] = "run"] /\ holder' = [holder EXCEPT ![t] = w]
      /\ UNCHANGED <<injector, local, parked, shutdown, active, ret, cur, scan, life, waker>>
  BY <1>3 DEF ResumeLock, Goto, queues
<1> HIDE DEF t
<1>t. t = cur[w]
  BY DEF t
<1>5. TypeOK'
  BY <1>2, <1>4 DEF IndInv, TypeOK, WorkerLocations
<1>6. Places'
  BY <1>1, <1>2, <1>4, <1>t DEF IndInv, TypeOK, Places, InBody, Suspending, Ending, WorkerLocations
<1>7. Holders'
  BY <1>1, <1>2, <1>3, <1>4, <1>t DEF IndInv, TypeOK, Places, Holders, InBody, Suspending
<1>8. \A v \in Workers, y \in Tasks :
        /\ Runs(v, y)' <=> Runs(v, y) \/ (v = w /\ y = t)
        /\ Locks(v, y)' <=> Locks(v, y) /\ v # w
  BY <1>1, <1>2, <1>4, <1>t DEF IndInv, TypeOK, Places, Runs, Locks, InBody
<1>9. \A v \in Workers, y \in Tasks : Locks(v, y) /\ v = w => y = t
  BY <1>t DEF Locks
<1>10. Exclusive'
  BY <1>4, <1>8 DEF IndInv, Exclusive
<1>11. \A y \in Tasks : y = t => ~InQueue(y)'
  BY <1>2, <1>4, <1>8 DEF IndInv, Exclusive, InQueue
<1>12. \A y \in Tasks : y # t => (InQueue(y)' <=> InQueue(y))
  BY <1>4, <1>8, <1>9 DEF InQueue
<1>13. QueuedWhenDue'
  BY <1>2, <1>3, <1>4, <1>8, <1>11, <1>12 DEF IndInv, QueuedWhenDue
<1>14. Live' = Live /\ Enders' = Enders /\ Parkers' = Parkers
  BY <1>1, <1>4 DEF IndInv, TypeOK, Places, Live, Enders, Ending, Parkers
<1>15. Counted'
  BY <1>4, <1>14, QuietCounts DEF IndInv
<1>16. Notified'
  BY <1>1, <1>4 DEF IndInv, TypeOK, Places, Notified
<1> QED  BY <1>5, <1>6, <1>7, <1>10, <1>13, <1>15, <1>16 DEF IndInv

\* yield_now: the body stops and the entry appears, in one step.
LEMMA YieldStep ==
    ASSUME IndInv, NEW w \in Workers, BodyYield(w)
    PROVE  IndInv'
<1> DEFINE t == cur[w]
<1>1. pc[w] = "run" /\ InBody(w)
  BY DEF BodyYield, Push, Goto, InBody
<1>2. /\ t \in Tasks /\ holder[t] = w /\ life[t] = "some" /\ ~InQueue(t)
      /\ waker[t] # "armed" /\ \A v \in Workers : Runs(v, t) => v = w
  BY <1>1, RunsAlone
<1>3. /\ pc' = [pc EXCEPT ![w] = "notify"] /\ ret' = [ret EXCEPT ![w] = "suspend"]
      /\ injector' = Append(injector, t) /\ waker' = [waker EXCEPT ![t] = "fired"]
      /\ UNCHANGED <<local, parked, shutdown, active, cur, scan, life, holder>>
  BY DEF BodyYield, Push, Goto
<1> HIDE DEF t
<1>t. t = cur[w]
  BY DEF t
<1>4. /\ injector' \in Seq(Tasks)
      /\ \A y : Has(injector', y) <=> Has(injector, y) \/ y = t
      /\ Distinct(injector')
  BY <1>2, <1>3, AppendEntry DEF IndInv, TypeOK, Exclusive, InQueue
<1>5. TypeOK'
  BY <1>2, <1>3, <1>4 DEF IndInv, TypeOK, WorkerLocations
<1>6. Places'
  BY <1>1, <1>2, <1>3, <1>t DEF IndInv, TypeOK, Places, InBody, Suspending, Ending, WorkerLocations
<1>7. Holders'
  BY <1>1, <1>2, <1>3, <1>t DEF IndInv, TypeOK, Places, Holders, InBody, Suspending
<1>8. \A v \in Workers, y \in Tasks :
        (Runs(v, y)' <=> Runs(v, y) /\ v # w) /\ (Locks(v, y)' <=> Locks(v, y))
  BY <1>1, <1>3 DEF IndInv, TypeOK, Places, Runs, Locks, InBody
<1>9. \A y \in Tasks : Runs(w, y) => y = t
  BY <1>t DEF Runs
<1>10. Exclusive'
  BY <1>2, <1>3, <1>4, <1>8 DEF IndInv, Exclusive, InQueue
<1>11. \A y \in Tasks : InQueue(y)' <=> InQueue(y) \/ y = t
  BY <1>3, <1>4, <1>8 DEF InQueue
<1>12. \A y \in Tasks : waker'[y] = IF y = t THEN "fired" ELSE waker[y]
  BY <1>3 DEF IndInv, TypeOK
<1>13. QueuedWhenDue'
  BY <1>2, <1>3, <1>8, <1>9, <1>11, <1>12 DEF IndInv, QueuedWhenDue
<1>14. Live' = Live /\ Enders' = Enders /\ Parkers' = Parkers
  BY <1>1, <1>3 DEF IndInv, TypeOK, Places, Live, Enders, Ending, Parkers
<1>15. Counted'
  BY <1>3, <1>14, QuietCounts DEF IndInv
<1>16. Notified'
  BY <1>1, <1>3 DEF IndInv, TypeOK, Places, Notified
<1> QED  BY <1>5, <1>6, <1>7, <1>10, <1>13, <1>15, <1>16 DEF IndInv

\* Notify::park: the body stops and its waker is armed, before the mutex is free.
LEMMA WaitStep ==
    ASSUME IndInv, NEW w \in Workers, BodyWait(w)
    PROVE  IndInv'
<1> DEFINE t == cur[w]
<1>1. pc[w] = "run" /\ InBody(w)
  BY DEF BodyWait, Goto, InBody
<1>2. /\ t \in Tasks /\ holder[t] = w /\ life[t] = "some" /\ ~InQueue(t)
      /\ \A v \in Workers : Runs(v, t) => v = w
  BY <1>1, RunsAlone
<1>3. /\ pc' = [pc EXCEPT ![w] = "suspend"] /\ waker' = [waker EXCEPT ![t] = "armed"]
      /\ UNCHANGED <<injector, local, parked, shutdown, active, ret, cur, scan, life, holder>>
  BY DEF BodyWait, Goto, queues
<1> HIDE DEF t
<1>t. t = cur[w]
  BY DEF t
<1>5. TypeOK'
  BY <1>2, <1>3 DEF IndInv, TypeOK, WorkerLocations
<1>6. Places'
  BY <1>1, <1>2, <1>3, <1>t DEF IndInv, TypeOK, Places, InBody, Suspending, Ending, WorkerLocations
<1>7. Holders'
  BY <1>1, <1>2, <1>3, <1>t DEF IndInv, TypeOK, Places, Holders, InBody, Suspending
<1>8. \A v \in Workers, y \in Tasks :
        (Runs(v, y)' <=> Runs(v, y) /\ v # w) /\ (Locks(v, y)' <=> Locks(v, y))
  BY <1>1, <1>3 DEF IndInv, TypeOK, Places, Runs, Locks, InBody
<1>9. \A y \in Tasks : Runs(w, y) => y = t
  BY <1>t DEF Runs
<1>10. Exclusive'
  BY <1>3, <1>8 DEF IndInv, Exclusive
<1>11. \A y \in Tasks : InQueue(y)' <=> InQueue(y)
  BY <1>3, <1>8 DEF InQueue
<1>12. \A y \in Tasks : waker'[y] = IF y = t THEN "armed" ELSE waker[y]
  BY <1>3 DEF IndInv, TypeOK
<1>13. QueuedWhenDue'
  BY <1>2, <1>3, <1>8, <1>9, <1>11, <1>12 DEF IndInv, QueuedWhenDue
<1>14. Live' = Live /\ Enders' = Enders /\ Parkers' = Parkers
  BY <1>1, <1>3 DEF IndInv, TypeOK, Places, Live, Enders, Ending, Parkers
<1>15. Counted'
  BY <1>3, <1>14, QuietCounts DEF IndInv
<1>16. Notified'
  BY <1>1, <1>3 DEF IndInv, TypeOK, Places, Notified
<1> QED  BY <1>5, <1>6, <1>7, <1>10, <1>13, <1>15, <1>16 DEF IndInv

\* The switch back from the coroutine gives its mutex up.
LEMMA SuspendStep ==
    ASSUME IndInv, NEW w \in Workers, Suspend(w)
    PROVE  IndInv'
<1>0. PICK t \in Tasks : t = cur[w]
  BY DEF IndInv, Places, Suspending, Suspend, Goto
<1>1. pc[w] = "suspend" /\ holder[t] = w
  BY <1>0 DEF IndInv, Holders, Suspending, Suspend, Goto
<1>2. /\ pc' = [pc EXCEPT ![w] = "loop"] /\ holder' = [holder EXCEPT ![t] = Nobody]
      /\ cur' = [cur EXCEPT ![w] = Nobody]
      /\ UNCHANGED <<injector, local, parked, shutdown, active, ret, scan, life, waker>>
  BY <1>0 DEF Suspend, Goto, queues
<1>3. TypeOK'
  BY <1>2 DEF IndInv, TypeOK, WorkerLocations
<1>4. Places'
  BY <1>1, <1>2 DEF IndInv, TypeOK, Places, InBody, Suspending, Ending, WorkerLocations
<1>5. Holders'
  BY <1>0, <1>1, <1>2 DEF IndInv, TypeOK, Places, Holders, InBody, Suspending
<1>6. \A v \in Workers, y \in Tasks :
        (Runs(v, y)' <=> Runs(v, y)) /\ (Locks(v, y)' <=> Locks(v, y))
  BY <1>1, <1>2 DEF IndInv, TypeOK, Places, Runs, Locks, InBody
<1>7. QueuedWhenDue' /\ Exclusive'
  BY <1>2, <1>6, QuietQueues DEF IndInv
<1>8. Live' = Live /\ Enders' = Enders /\ Parkers' = Parkers
  BY <1>1, <1>2 DEF IndInv, TypeOK, Places, Live, Enders, Ending, Parkers
<1>9. Counted'
  BY <1>2, <1>8, QuietCounts DEF IndInv
<1>10. Notified'
  BY <1>1, <1>2 DEF IndInv, TypeOK, Places, Notified
<1> QED  BY <1>3, <1>4, <1>5, <1>7, <1>9, <1>10 DEF IndInv

\* The task ends, by returning, unwinding or being abandoned. It has no entry and
\* no armed waker, so nothing will bring it back; the worker takes over its place
\* in the count.
LEMMA EndStep ==
    ASSUME IndInv, NEW w \in Workers, BodyReturn(w) \/ BodyAbandon(w)
    PROVE  IndInv'
<1>0. pc[w] = "run" /\ InBody(w)
  BY DEF BodyReturn, BodyAbandon, Goto, InBody
<1>1. PICK t \in Tasks : t = cur[w]
  BY <1>0, RunsAlone
<1>2. /\ holder[t] = w /\ life[t] = "some" /\ ~InQueue(t)
      /\ waker[t] # "armed" /\ \A v \in Workers : Runs(v, t) => v = w
  BY <1>0, <1>1, RunsAlone
<1>3. PICK q \in {"finish", "onAbandon"} : pc' = [pc EXCEPT ![w] = q]
  BY DEF BodyReturn, BodyAbandon, Goto
<1>4. /\ life' = [life EXCEPT ![t] = "none"] /\ holder' = [holder EXCEPT ![t] = Nobody]
      /\ UNCHANGED <<injector, local, parked, shutdown, active, ret, cur, scan, waker>>
  BY <1>1 DEF BodyReturn, BodyAbandon, queues
<1>5. TypeOK'
  BY <1>3, <1>4 DEF IndInv, TypeOK, WorkerLocations
<1>6. Places'
  BY <1>0, <1>1, <1>3, <1>4 DEF IndInv, TypeOK, Places, InBody, Suspending, Ending, WorkerLocations
<1>7. Holders'
  BY <1>0, <1>1, <1>2, <1>3, <1>4 DEF IndInv, TypeOK, Places, Holders, InBody, Suspending
<1>8. \A v \in Workers, y \in Tasks :
        (Runs(v, y)' <=> Runs(v, y) /\ v # w) /\ (Locks(v, y)' <=> Locks(v, y))
  BY <1>0, <1>3, <1>4 DEF IndInv, TypeOK, Places, Runs, Locks, InBody
<1>9. \A y \in Tasks : Runs(w, y) => y = t
  BY <1>1 DEF Runs
<1>10. Exclusive'
  BY <1>4, <1>8 DEF IndInv, Exclusive
<1>11. \A y \in Tasks : InQueue(y)' <=> InQueue(y)
  BY <1>4, <1>8 DEF InQueue
<1>12. \A y \in Tasks : life'[y] = IF y = t THEN "none" ELSE life[y]
  BY <1>4 DEF IndInv, TypeOK
<1>13. QueuedWhenDue'
  BY <1>2, <1>4, <1>8, <1>9, <1>11, <1>12 DEF IndInv, QueuedWhenDue
<1>14. /\ Parkers' = Parkers
       /\ t \in Live /\ Live' = Live \ {t}
       /\ w \notin Enders /\ Enders' = Enders \cup {w}
  <2>1. Parkers' = Parkers
    BY <1>0, <1>3 DEF IndInv, TypeOK, Parkers
  <2>2. t \in Live /\ Live' = Live \ {t}
    BY <1>2, <1>12 DEF Live
  <2>3. w \notin Enders
    BY <1>0 DEF Enders, Ending
  <2>4. \A v \in Workers : Ending(v)' <=> Ending(v) \/ v = w
    BY <1>0, <1>3, <1>4 DEF IndInv, TypeOK, Ending
  <2> QED  BY <2>1, <2>2, <2>3, <2>4 DEF Enders
<1>15. Counted'
  <2>1. Cardinality(Live') = Cardinality(Live) - 1
    BY <1>14, OneLess, CountsFinite
  <2>2. Cardinality(Enders') = Cardinality(Enders) + 1
    BY <1>14, OneMore, CountsFinite
  <2> QED  BY <1>4, <1>14, <2>1, <2>2, CountsFinite DEF IndInv, Counted
<1>16. Notified'
  BY <1>0, <1>3, <1>4 DEF IndInv, TypeOK, Places, Notified
<1> QED  BY <1>5, <1>6, <1>7, <1>10, <1>13, <1>15, <1>16 DEF IndInv

\* on_abandon is over.
LEMMA AbandonStep ==
    ASSUME IndInv, NEW w \in Workers, OnAbandonDone(w)
    PROVE  IndInv'
<1>1. /\ pc[w] = "onAbandon" /\ pc' = [pc EXCEPT ![w] = "finish"]
      /\ UNCHANGED <<injector, local, parked, shutdown, active, ret, cur, scan, life, holder, waker>>
  BY DEF OnAbandonDone, Goto, queues, tasks
<1>2. TypeOK'
  BY <1>1 DEF IndInv, TypeOK, WorkerLocations
<1>3. Places'
  BY <1>1 DEF IndInv, TypeOK, Places, InBody, Suspending, Ending, WorkerLocations
<1>4. Holders'
  BY <1>1 DEF IndInv, TypeOK, Places, Holders, InBody, Suspending
<1>5. \A v \in Workers, y \in Tasks :
        (Runs(v, y)' <=> Runs(v, y)) /\ (Locks(v, y)' <=> Locks(v, y))
  BY <1>1 DEF IndInv, TypeOK, Places, Runs, Locks, InBody
<1>6. QueuedWhenDue' /\ Exclusive'
  BY <1>1, <1>5, QuietQueues DEF IndInv
<1>7. Live' = Live /\ Enders' = Enders /\ Parkers' = Parkers
  BY <1>1 DEF IndInv, TypeOK, Places, Live, Enders, Ending, Parkers
<1>8. Counted'
  BY <1>1, <1>7, QuietCounts DEF IndInv
<1>9. Notified'
  BY <1>1 DEF IndInv, TypeOK, Places, Notified
<1> QED  BY <1>2, <1>3, <1>4, <1>6, <1>8, <1>9 DEF IndInv

\* task_finished: the worker leaves the count, and goes to notify when the count
\* has become zero.
LEMMA FinishStep ==
    ASSUME IndInv, NEW w \in Workers, TaskFinished(w)
    PROVE  IndInv'
<1>1. pc[w] = "finish"
  BY DEF TaskFinished, Goto
<1>2. active > 0 /\ active \in Nat
  BY <1>1, CountersPositive DEF IndInv
<1>3. PICK q \in {"finished", "loop"} :
        pc' = [pc EXCEPT ![w] = q] /\ (active = 1 => q = "finished")
  BY DEF TaskFinished, Goto
<1>4. /\ active' = active - 1 /\ cur' = [cur EXCEPT ![w] = Nobody]
      /\ UNCHANGED <<injector, local, parked, shutdown, ret, scan, life, holder, waker>>
  BY DEF TaskFinished, queues, tasks
<1>5. TypeOK'
  BY <1>2, <1>3, <1>4 DEF IndInv, TypeOK, WorkerLocations
<1>6. Places'
  BY <1>1, <1>3, <1>4 DEF IndInv, TypeOK, Places, InBody, Suspending, Ending, WorkerLocations
<1>7. Holders'
  BY <1>1, <1>3, <1>4 DEF IndInv, TypeOK, Places, Holders, InBody, Suspending
<1>8. \A v \in Workers, y \in Tasks :
        (Runs(v, y)' <=> Runs(v, y)) /\ (Locks(v, y)' <=> Locks(v, y))
  BY <1>1, <1>3, <1>4 DEF IndInv, TypeOK, Places, Runs, Locks, InBody
<1>9. QueuedWhenDue' /\ Exclusive'
  BY <1>4, <1>8, QuietQueues DEF IndInv
<1>10. Live' = Live /\ Parkers' = Parkers /\ w \in Enders /\ Enders' = Enders \ {w}
  <2>1. Live' = Live /\ Parkers' = Parkers
    BY <1>1, <1>3, <1>4 DEF IndInv, TypeOK, Live, Parkers
  <2>2. \A v \in Workers : Ending(v)' <=> Ending(v) /\ v # w
    BY <1>1, <1>3, <1>4 DEF IndInv, TypeOK, Ending
  <2>3. Ending(w)
    BY <1>1 DEF Ending
  <2> QED  BY <2>1, <2>2, <2>3 DEF Enders
<1>11. Counted'
  <2>1. Cardinality(Enders') = Cardinality(Enders) - 1
    BY <1>10, OneLess, CountsFinite
  <2> QED  BY <1>4, <1>10, <2>1, CountsFinite DEF IndInv, Counted
<1>12. Notified'
  <2>1. ASSUME active' = 0 PROVE pc'[w] = "finished"
    BY <1>2, <1>3, <1>4, <2>1 DEF IndInv, TypeOK
  <2> QED  BY <2>1 DEF Notified
<1> QED  BY <1>5, <1>6, <1>7, <1>9, <1>11, <1>12 DEF IndInv

\* The notification of run_until_idle.
LEMMA NotifyDoneStep ==
    ASSUME IndInv, NEW w \in Workers, NotifyDone(w)
    PROVE  IndInv'
<1>1. /\ pc[w] = "finished"
      /\ pc' = [pc EXCEPT ![w] = "loop", ![Main] = IF @ = "wait" THEN "check" ELSE @]
  BY DEF NotifyDone
<1>u. /\ pc[w] = "finished"
      /\ UNCHANGED <<injector, local, parked, shutdown, active, ret, cur, scan, life, holder, waker>>
  BY DEF NotifyDone, queues, tasks
<1>2. /\ pc'[Main] # "wait" /\ pc'[Main] \in MainLocations /\ pc'[Ext] = pc[Ext]
      /\ \A v \in Workers : pc'[v] = IF v = w THEN "loop" ELSE pc[v]
      /\ pc' \in [Agents -> WorkerLocations \cup MainLocations]
  BY <1>1 DEF IndInv, TypeOK, Places, WorkerLocations, MainLocations
<1>3. TypeOK'
  BY <1>u, <1>2 DEF IndInv, TypeOK
<1>4. Places'
  BY <1>u, <1>2 DEF IndInv, TypeOK, Places, InBody, Suspending, Ending, WorkerLocations
<1>5. Holders'
  BY <1>u, <1>2 DEF IndInv, TypeOK, Places, Holders, InBody, Suspending
<1>6. \A v \in Workers, y \in Tasks :
        (Runs(v, y)' <=> Runs(v, y)) /\ (Locks(v, y)' <=> Locks(v, y))
  BY <1>u, <1>2 DEF IndInv, TypeOK, Places, Runs, Locks, InBody
<1>7. QueuedWhenDue' /\ Exclusive'
  BY <1>u, <1>6, QuietQueues DEF IndInv
<1>8. Live' = Live /\ Enders' = Enders /\ Parkers' = Parkers
  BY <1>u, <1>2 DEF IndInv, TypeOK, Places, Live, Enders, Ending, Parkers
<1>9. Counted'
  BY <1>u, <1>8, QuietCounts DEF IndInv
<1>10. Notified'
  BY <1>2 DEF Notified
<1> QED  BY <1>3, <1>4, <1>5, <1>7, <1>9, <1>10 DEF IndInv

-----------------------------------------------------------------------------
(* enqueue: the entry appears, and later somebody is notified.             *)

\* The agent that pushes task t goes on to notify, and what it was doing does not
\* change by that; t must have no entry, and be due once it has one.
LEMMA PushStep ==
    ASSUME IndInv, NEW g \in Agents, NEW from, NEW t \in Tasks, Push(g, from, t, from),
           \/ g \in Workers /\ from \in {"run", "onAbandon"}
           \/ g \in {Main, Ext} /\ from = "user",
           ~InQueue(t), \A w \in Workers : ~Runs(w, t),
           life' \in [Tasks -> {"unspawned", "some", "none"}],
           waker' \in [Tasks -> {"none", "armed", "fired"}],
           \A y \in Tasks : y # t => life'[y] = life[y] /\ waker'[y] = waker[y],
           life'[t] = "some", waker'[t] # "armed",
           active' \in Nat, active' >= active,
           active' = Cardinality(Live') + Cardinality(Enders),
           UNCHANGED <<parked, shutdown, cur, scan, holder>>
    PROVE  IndInv'
<1>1. /\ pc[g] = from /\ pc' = [pc EXCEPT ![g] = "notify"] /\ ret' = [ret EXCEPT ![g] = from]
      /\ injector' = Append(injector, t) /\ local' = local
  BY DEF Push, Goto
<1>2. /\ injector' \in Seq(Tasks)
      /\ \A y : Has(injector', y) <=> Has(injector, y) \/ y = t
      /\ Distinct(injector')
  BY <1>1, AppendEntry DEF IndInv, TypeOK, Exclusive, InQueue
<1>3. TypeOK'
  BY <1>1, <1>2 DEF IndInv, TypeOK, WorkerLocations
<1>4. \A v \in Workers : /\ InBody(v)' <=> InBody(v)
                         /\ Suspending(v)' <=> Suspending(v)
                         /\ Ending(v)' <=> Ending(v)
                         /\ pc'[v] = "lock" <=> pc[v] = "lock"
  BY <1>1 DEF IndInv, TypeOK, Places, InBody, Suspending, Ending
<1>5. Places'
  <2>1. pc'[Main] \in MainLocations /\ ret'[Main] = "user"
    BY <1>1 DEF IndInv, TypeOK, Places, MainLocations
  <2>2. pc'[Ext] \in {"user", "notify"} /\ ret'[Ext] = "user"
    BY <1>1 DEF IndInv, TypeOK, Places
  <2>3. ASSUME NEW v \in Workers
        PROVE  /\ pc'[v] \in WorkerLocations
               /\ pc'[v] = "notify" <=> ret'[v] # "user"
               /\ pc'[v] = "injector" => local'[v] = <<>>
    BY <1>1 DEF IndInv, TypeOK, Places, WorkerLocations
  <2>4. ASSUME NEW v \in Workers
        PROVE  cur'[v] \in Tasks <=>
                 pc'[v] = "lock" \/ InBody(v)' \/ Suspending(v)' \/ Ending(v)'
    BY <1>4 DEF IndInv, Places
  <2> QED  BY <2>1, <2>2, <2>3, <2>4 DEF Places
<1>6. Holders'
  <2>1. \A v \in Workers : life[cur[v]] = "some" /\ cur[v] \in Tasks => life'[cur[v]] = "some"
    OBVIOUS
  <2> QED  BY <1>4, <2>1 DEF IndInv, Places, Holders
<1>7. \A v \in Workers, y \in Tasks :
        (Runs(v, y)' <=> Runs(v, y)) /\ (Locks(v, y)' <=> Locks(v, y))
  BY <1>4 DEF Runs, Locks
<1>8. Exclusive'
  BY <1>1, <1>2, <1>7 DEF IndInv, Exclusive, InQueue
<1>9. \A y \in Tasks : InQueue(y)' <=> InQueue(y) \/ y = t
  BY <1>1, <1>2, <1>7 DEF InQueue
<1>10. QueuedWhenDue'
  BY <1>7, <1>9 DEF IndInv, QueuedWhenDue
<1>11. Enders' = Enders /\ Parkers' = Parkers
  <2>1. \A v \in Workers : pc'[v] \in {"waiting", "unpark"} <=> pc[v] \in {"waiting", "unpark"}
    BY <1>1 DEF IndInv, TypeOK
  <2> QED  BY <1>4, <2>1 DEF Enders, Parkers
<1>12. Counted'
  BY <1>11 DEF IndInv, Counted
<1>13. Notified'
  <2>1. \A v \in Workers : pc[v] = "finished" => pc'[v] = "finished"
    BY <1>1 DEF IndInv, TypeOK
  <2>2. pc'[Main] = "wait" => pc[Main] = "wait"
    BY <1>1 DEF IndInv, TypeOK
  <2>3. active' = 0 => active = 0
    BY DEF IndInv, TypeOK
  <2> QED  BY <2>1, <2>2, <2>3 DEF IndInv, Notified
<1> QED  BY <1>3, <1>5, <1>6, <1>8, <1>10, <1>12, <1>13 DEF IndInv

\* Runtime::spawn_raw.
LEMMA SpawnStep ==
    ASSUME IndInv, NEW g \in Agents, NEW from, NEW t \in Tasks, Spawn(g, from, t),
           (g \in Workers /\ from = "run") \/ (g = Main /\ from = "user")
    PROVE  IndInv'
<1>1. /\ life[t] = "unspawned" /\ life' = [life EXCEPT ![t] = "some"]
      /\ active' = active + 1 /\ Push(g, from, t, from)
      /\ UNCHANGED <<parked, shutdown, cur, scan, holder, waker>>
  BY DEF Spawn
<1>2. ~InQueue(t) /\ waker[t] # "armed"
  BY <1>1 DEF IndInv, QueuedWhenDue
<1>3. \A w \in Workers : ~Runs(w, t)
  BY <1>1 DEF IndInv, Holders, Runs
<1>4. /\ life' \in [Tasks -> {"unspawned", "some", "none"}]
      /\ \A y \in Tasks : y # t => life'[y] = life[y] /\ waker'[y] = waker[y]
      /\ life'[t] = "some" /\ waker'[t] # "armed"
      /\ waker' \in [Tasks -> {"none", "armed", "fired"}]
  BY <1>1, <1>2 DEF IndInv, TypeOK
<1>5. t \notin Live /\ Live' = Live \cup {t}
  BY <1>1, <1>4 DEF Live
<1>6. active' = Cardinality(Live') + Cardinality(Enders)
  <2>1. Cardinality(Live') = Cardinality(Live) + 1
    BY <1>5, OneMore, CountsFinite
  <2> QED  BY <1>1, <2>1, CountsFinite DEF IndInv, Counted
<1>7. active' \in Nat /\ active' >= active
  BY <1>1 DEF IndInv, TypeOK
<1>8. \/ g \in Workers /\ from \in {"run", "onAbandon"}
      \/ g \in {Main, Ext} /\ from = "user"
  OBVIOUS
<1> QED  BY <1>1, <1>2, <1>3, <1>4, <1>6, <1>7, <1>8, PushStep

\* Waker::wake: the armed waker fires once.
LEMMA WakeStep ==
    ASSUME IndInv, NEW g \in Agents, NEW from, NEW t \in Tasks, Wake(g, from, t),
           (g \in Workers /\ from \in {"run", "onAbandon"}) \/ (g = Ext /\ from = "user")
    PROVE  IndInv'
<1>1. /\ waker[t] = "armed" /\ waker' = [waker EXCEPT ![t] = "fired"]
      /\ Push(g, from, t, from)
      /\ UNCHANGED <<parked, shutdown, active, cur, scan, life, holder>>
  BY DEF Wake
<1>2. ~InQueue(t) /\ life[t] = "some" /\ \A w \in Workers : ~Runs(w, t)
  BY <1>1 DEF IndInv, QueuedWhenDue
<1>3. /\ life' \in [Tasks -> {"unspawned", "some", "none"}]
      /\ \A y \in Tasks : y # t => life'[y] = life[y] /\ waker'[y] = waker[y]
      /\ life'[t] = "some" /\ waker'[t] # "armed"
      /\ waker' \in [Tasks -> {"none", "armed", "fired"}]
  BY <1>1, <1>2 DEF IndInv, TypeOK
<1>4. Live' = Live
  BY <1>1 DEF Live
<1>5. active' \in Nat /\ active' >= active /\ active' = Cardinality(Live') + Cardinality(Enders)
  BY <1>1, <1>4 DEF IndInv, TypeOK, Counted
<1>6. \/ g \in Workers /\ from \in {"run", "onAbandon"}
      \/ g \in {Main, Ext} /\ from = "user"
  OBVIOUS
<1> QED  BY <1>1, <1>2, <1>3, <1>5, <1>6, PushStep

\* Threads move on without touching a task: Main and Ext anywhere in their
\* functions, a worker back from its notification, sleepers out of the wait.
LEMMA IdleMoves ==
    ASSUME IndInv,
           pc' \in [Agents -> WorkerLocations \cup MainLocations],
           ret' \in [Agents -> {"user", "run", "suspend", "onAbandon"}],
           \A v \in Workers :
               \/ pc'[v] = pc[v] /\ ret'[v] = ret[v]
               \/ pc[v] = "notify" /\ pc'[v] = ret[v] /\ ret'[v] = "user"
               \/ pc[v] = "waiting" /\ pc'[v] = "unpark" /\ ret'[v] = ret[v],
           pc'[Main] \in MainLocations, ret'[Main] = "user",
           pc'[Ext] \in {"user", "notify"}, ret'[Ext] = "user",
           pc'[Main] = "wait" /\ active = 0 => pc[Main] = "wait",
           shutdown' \in BOOLEAN,
           UNCHANGED <<injector, local, parked, active, cur, scan, life, holder, waker>>
    PROVE  IndInv'
<1>1. TypeOK'
  BY DEF IndInv, TypeOK
<1>2. \A v \in Workers : /\ InBody(v)' <=> InBody(v)
                         /\ Suspending(v)' <=> Suspending(v)
                         /\ Ending(v)' <=> Ending(v)
                         /\ pc'[v] = "lock" <=> pc[v] = "lock"
  BY DEF IndInv, TypeOK, Places, InBody, Suspending, Ending
<1>3. Places'
  <2>1. ASSUME NEW v \in Workers
        PROVE  /\ pc'[v] \in WorkerLocations
               /\ pc'[v] = "notify" <=> ret'[v] # "user"
               /\ pc'[v] = "injector" => local'[v] = <<>>
    <3>0. /\ pc[v] \in WorkerLocations /\ (pc[v] = "notify" <=> ret[v] # "user")
          /\ (pc[v] = "injector" => local[v] = <<>>)
          /\ ret[v] \in {"user", "run", "suspend", "onAbandon"}
      BY DEF IndInv, TypeOK, Places
    <3>1. CASE pc'[v] = pc[v] /\ ret'[v] = ret[v]
      BY <3>0, <3>1
    <3>2. CASE pc[v] = "notify" /\ pc'[v] = ret[v] /\ ret'[v] = "user"
      BY <3>0, <3>2 DEF WorkerLocations
    <3>3. CASE pc[v] = "waiting" /\ pc'[v] = "unpark" /\ ret'[v] = ret[v]
      BY <3>0, <3>3 DEF WorkerLocations
    <3> QED  BY <3>1, <3>2, <3>3
  <2>2. ASSUME NEW v \in Workers
        PROVE  cur'[v] \in Tasks <=>
                 pc'[v] = "lock" \/ InBody(v)' \/ Suspending(v)' \/ Ending(v)'
    BY <1>2 DEF IndInv, Places
  <2> QED  BY <2>1, <2>2 DEF Places
<1>4. Holders'
  BY <1>2 DEF IndInv, Holders
<1>5. \A v \in Workers, y \in Tasks :
        (Runs(v, y)' <=> Runs(v, y)) /\ (Locks(v, y)' <=> Locks(v, y))
  BY <1>2 DEF Runs, Locks
<1>6. QueuedWhenDue' /\ Exclusive'
  BY <1>5, QuietQueues DEF IndInv
<1>7. Live' = Live /\ Enders' = Enders /\ Parkers' = Parkers
  <2>1. \A v \in Workers : pc'[v] \in {"waiting", "unpark"} <=> pc[v] \in {"waiting", "unpark"}
    BY DEF IndInv, TypeOK
  <2> QED  BY <1>2, <2>1 DEF Live, Enders, Parkers
<1>8. Counted'
  BY <1>7, QuietCounts DEF IndInv
<1>9. Notified'
  <2>1. \A v \in Workers : pc[v] = "finished" => pc'[v] = "finished"
    OBVIOUS
  <2> QED  BY <2>1 DEF IndInv, Notified
<1> QED  BY <1>1, <1>3, <1>4, <1>6, <1>8, <1>9 DEF IndInv

\* The second half of an enqueue.
LEMMA NotifyStep ==
    ASSUME IndInv, NEW g \in Agents, Notify(g)
    PROVE  IndInv'
<1>1. \/ pc' = [pc EXCEPT ![g] = ret[g]]
      \/ \E w \in Workers : pc[w] = "waiting" /\ pc' = [pc EXCEPT ![g] = ret[g], ![w] = "unpark"]
  BY DEF Notify
<1>2. /\ pc[g] = "notify" /\ ret' = [ret EXCEPT ![g] = "user"]
      /\ UNCHANGED <<injector, local, parked, shutdown, active, cur, scan, life, holder, waker>>
  BY DEF Notify, queues, tasks
<1>3. /\ pc' \in [Agents -> WorkerLocations \cup MainLocations]
      /\ ret' \in [Agents -> {"user", "run", "suspend", "onAbandon"}]
  <2>1. ret[g] \in WorkerLocations \cup MainLocations
    BY DEF IndInv, TypeOK, WorkerLocations, MainLocations
  <2>2. "unpark" \in WorkerLocations \cup MainLocations
    BY DEF WorkerLocations
  <2>3. pc' \in [Agents -> WorkerLocations \cup MainLocations]
    BY <1>1, <2>1, <2>2 DEF IndInv, TypeOK
  <2> QED  BY <1>2, <2>3 DEF IndInv, TypeOK
<1>4. \A v \in Workers :
        \/ pc'[v] = pc[v] /\ ret'[v] = ret[v]
        \/ pc[v] = "notify" /\ pc'[v] = ret[v] /\ ret'[v] = "user"
        \/ pc[v] = "waiting" /\ pc'[v] = "unpark" /\ ret'[v] = ret[v]
  BY <1>1, <1>2 DEF IndInv, TypeOK
<1>5. /\ pc'[Main] \in MainLocations /\ ret'[Main] = "user"
      /\ pc'[Ext] \in {"user", "notify"} /\ ret'[Ext] = "user"
      /\ (pc'[Main] = "wait" => pc[Main] = "wait")
  BY <1>1, <1>2 DEF IndInv, TypeOK, Places, MainLocations
<1> QED  BY <1>2, <1>3, <1>4, <1>5, IdleMoves DEF IndInv, TypeOK

\* run_until_idle, which waits only when there is a task, and Drop for Runtime.
LEMMA MainMoves ==
    ASSUME IndInv,
           \/ RunUntilIdle \/ IdleCheck \/ IdleReturn
           \/ DropRuntime \/ DropNotifyAll \/ DropJoin
    PROVE  IndInv'
<1>1. UNCHANGED <<injector, local, parked, active, ret, cur, scan, life, holder, waker>>
      /\ shutdown' \in BOOLEAN
  BY DEF RunUntilIdle, IdleCheck, IdleReturn, DropRuntime, DropNotifyAll, DropJoin,
         queues, tasks, IndInv, TypeOK
<1>2. /\ pc' \in [Agents -> WorkerLocations \cup MainLocations]
      /\ \A v \in Workers : pc'[v] = pc[v] \/ (pc[v] = "waiting" /\ pc'[v] = "unpark")
      /\ pc'[Main] \in MainLocations /\ pc'[Ext] \in {"user", "notify"}
      /\ (pc'[Main] = "wait" /\ active = 0 => pc[Main] = "wait")
  <2>1. CASE DropNotifyAll
    BY <2>1 DEF DropNotifyAll, IndInv, TypeOK, Places, WorkerLocations, MainLocations
  <2>2. CASE ~DropNotifyAll
    <3>1. PICK q \in MainLocations : pc' = [pc EXCEPT ![Main] = q] /\ (q = "wait" => active > 0)
      BY <2>2 DEF RunUntilIdle, IdleCheck, IdleReturn, DropRuntime, DropJoin, Goto, MainLocations
    <3> QED  BY <3>1 DEF IndInv, TypeOK, Places
  <2> QED  BY <2>1, <2>2
<1>3. /\ ret' \in [Agents -> {"user", "run", "suspend", "onAbandon"}]
      /\ ret'[Main] = "user" /\ ret'[Ext] = "user"
  BY <1>1 DEF IndInv, TypeOK, Places
<1>4. \A v \in Workers :
        \/ pc'[v] = pc[v] /\ ret'[v] = ret[v]
        \/ pc[v] = "notify" /\ pc'[v] = ret[v] /\ ret'[v] = "user"
        \/ pc[v] = "waiting" /\ pc'[v] = "unpark" /\ ret'[v] = ret[v]
  BY <1>1, <1>2
<1> QED  BY <1>1, <1>2, <1>3, <1>4, IdleMoves

-----------------------------------------------------------------------------

\* The invariant is inductive.
THEOREM Invariance == Safety => []IndInv
<1>1. IndInv /\ [Next]_vars => IndInv'
  <2> SUFFICES ASSUME IndInv, [Next]_vars PROVE IndInv'
    OBVIOUS
  <2>1. ASSUME NEW w \in Workers, WorkerStep(w) PROVE IndInv'
    <3>1. ASSUME WorkerLoop(w) \/ FoundNothing(w) PROVE IndInv'
      BY <3>1, SearchStep
    <3>2. ASSUME PopLocal(w) PROVE IndInv'
      BY <3>2, SearchStep, PopStep
    <3>3. ASSUME StealBatch(w) PROVE IndInv'
      BY <3>3, SearchStep, BatchStep
    <3>4. ASSUME NEW v \in Workers, StealFrom(w, v) PROVE IndInv'
      BY <3>4, SearchStep, PopStep
    <3>5. ASSUME Park(w) \/ Unpark(w) PROVE IndInv'
      BY <3>5, ParkStep
    <3>6. w \in Agents
      OBVIOUS
    <3> QED
      BY <2>1, <3>1, <3>2, <3>3, <3>4, <3>5, <3>6, ResumeStep, SuspendStep, AbandonStep,
         FinishStep, NotifyDoneStep, NotifyStep DEF WorkerStep
  <2>2. ASSUME NEW w \in Workers, ParkTimeout(w) PROVE IndInv'
    BY <2>2, SearchStep
  <2>3. ASSUME NEW w \in Workers, BodyEnds(w) PROVE IndInv'
    BY <2>3, YieldStep, WaitStep, EndStep DEF BodyEnds
  <2>4. ASSUME NEW w \in Workers, BodyCalls(w) PROVE IndInv'
    BY <2>4, SpawnStep, WakeStep DEF BodyCalls, BodySpawn, BodyWake, AbandonWake
  <2>5. ASSUME NEW t \in Tasks, MainSpawn(t) \/ ExtWake(t) PROVE IndInv'
    BY <2>5, SpawnStep, WakeStep DEF MainSpawn, ExtWake
  <2>6. ASSUME MainStep \/ RunUntilIdle \/ DropRuntime \/ Notify(Ext) PROVE IndInv'
    BY <2>6, MainMoves, NotifyStep DEF MainStep
  <2>7. ASSUME UNCHANGED vars PROVE IndInv'
    BY <2>7 DEF vars, IndInv, TypeOK, Places, Holders, QueuedWhenDue, Exclusive, Counted,
         Notified, InBody, Suspending, Ending, InQueue, Runs, Locks, Live, Enders, Parkers
  <2> QED  BY <2>1, <2>2, <2>3, <2>4, <2>5, <2>6, <2>7 DEF Next
<1> QED  BY <1>1, InitIndInv, PTL DEF Safety

\* An entry is an occurrence, and entries without repetition occur once.
LEMMA OccurrencesCount ==
    ASSUME NEW s \in Seq(Tasks), NEW t
    PROVE  /\ Occurrences(s, t) \in Nat
           /\ Occurrences(s, t) = 0 <=> ~Has(s, t)
           /\ Distinct(s) => Occurrences(s, t) <= 1
<1> DEFINE I == {i \in 1..Len(s) : s[i] = t}
<1>1. Len(s) \in Nat
  BY LenProperties
<1>2. IsFiniteSet(I) /\ Cardinality(I) \in Nat
  <2>1. IsFiniteSet(1..Len(s)) /\ I \subseteq 1..Len(s)
    BY <1>1, FS_Interval
  <2> QED  BY <2>1, FS_Subset, FS_CardinalityType
<1>3. Cardinality(I) = 0 <=> ~Has(s, t)
  <2>1. I = {} <=> ~Has(s, t)
    BY DEF Has
  <2> HIDE DEF I
  <2> QED  BY <1>2, <2>1, FS_EmptySet
<1>4. ASSUME Distinct(s), NEW i \in I PROVE Cardinality(I) = 1
  <2>1. I = {i}
    BY <1>4 DEF Distinct
  <2> QED  BY <2>1, FS_Singleton
<1>5. Distinct(s) => Cardinality(I) <= 1
  BY <1>2, <1>4, FS_EmptySet
<1> QED  BY <1>2, <1>3, <1>5 DEF Occurrences

\* A set in which all elements are equal has at most one.
LEMMA AtMostOne ==
    ASSUME NEW S, \A x, y \in S : x = y
    PROVE  Cardinality(S) <= 1
<1>1. CASE S = {}
  BY <1>1, FS_EmptySet
<1>2. ASSUME NEW x \in S PROVE Cardinality(S) <= 1
  <2>1. S = {x}
    OBVIOUS
  <2> QED  BY <2>1, FS_Singleton
<1> QED  BY <1>1, <1>2

\* No task is in two queues, twice in one, or in the hands of two workers, and none
\* is taken up after it has finished: for any number of workers and tasks.
THEOREM OneEntryPerTask == Safety => []QueuedAtMostOnce
<1>1. IndInv => QueuedAtMostOnce
  <2> SUFFICES ASSUME IndInv PROVE QueuedAtMostOnce
    OBVIOUS
  <2> USE DEF IndInv
  <2>1. NeverResumesFinished
    BY DEF NeverResumesFinished, Places, QueuedWhenDue, InQueue, Locks
  <2>2. \A w \in Workers, t \in Tasks : w \in Taken(t) <=> Locks(w, t)
    BY DEF Taken, Locks
  <2>3. \A t \in Tasks : Taken(t) \subseteq Workers
    BY DEF Taken
  <2>4. \A t \in Tasks : Cardinality(Taken(t)) <= 1
    BY <2>2, <2>3, AtMostOne DEF Exclusive
  <2>5. \A t \in Tasks :
          /\ Occurrences(injector, t) \in Nat
          /\ Occurrences(injector, t) = 0 <=> ~Has(injector, t)
          /\ Occurrences(injector, t) <= 1
    BY OccurrencesCount DEF TypeOK, Exclusive
  <2>6. \A w \in Workers, t \in Tasks :
          /\ Occurrences(local[w], t) \in Nat
          /\ Occurrences(local[w], t) = 0 <=> ~Has(local[w], t)
          /\ Occurrences(local[w], t) <= 1
    BY OccurrencesCount DEF TypeOK, Exclusive
  <2>7. ASSUME NEW t \in Tasks, NEW w \in Workers, Occurrences(local[w], t) = 1
        PROVE  /\ Occurrences(injector, t) = 0
               /\ Taken(t) = {}
               /\ \A v \in Workers \ {w} : Occurrences(local[v], t) = 0
    <3>1. Has(local[w], t)
      BY <2>6, <2>7
    <3>2. ~Has(injector, t) /\ \A v \in Workers : ~Locks(v, t) /\ (v # w => ~Has(local[v], t))
      BY <3>1 DEF Exclusive
    <3> QED  BY <2>2, <2>3, <2>5, <2>6, <3>2
  <2>8. ASSUME NEW t \in Tasks, Taken(t) # {} PROVE Occurrences(injector, t) = 0
    BY <2>2, <2>3, <2>5, <2>8 DEF Exclusive
  <2> QED  BY <2>1, <2>4, <2>5, <2>6, <2>7, <2>8 DEF QueuedAtMostOnce
<1> QED  BY <1>1, Invariance, PTL

\* Whatever wakes, steals and suspends in between, a live task that nobody runs
\* has an entry somewhere unless a waker that can still fire stands for it.
THEOREM NoTaskForgotten == Safety => []NoLostTask
<1>1. IndInv => NoLostTask
  <2> SUFFICES ASSUME IndInv, NEW t \in Tasks,
                      life[t] = "some", holder[t] = Nobody, waker[t] # "armed"
               PROVE  Queued(t)
    BY DEF NoLostTask
  <2> USE DEF IndInv
  <2>1. \A w \in Workers : ~Runs(w, t)
    BY DEF Holders, Runs
  <2>2. InQueue(t)
    BY <2>1 DEF QueuedWhenDue
  <2>3. Has(injector, t) => Occurrences(injector, t) > 0
    BY OccurrencesCount DEF TypeOK
  <2>4. \A w \in Workers : Has(local[w], t) => Occurrences(local[w], t) > 0
    BY OccurrencesCount DEF TypeOK
  <2>5. \A w \in Workers : Locks(w, t) => w \in Taken(t)
    BY DEF Taken, Locks
  <2> QED  BY <2>2, <2>3, <2>4, <2>5 DEF InQueue, Queued
<1> QED  BY <1>1, Invariance, PTL

\* The count of active tasks is exact, and the main thread does not sleep on a
\* count of zero without somebody about to notify it.
THEOREM IdleIsNoticed == Safety => []NoLostIdleNotify
<1>1. IndInv => NoLostIdleNotify
  BY DEF IndInv, Counted, Notified, NoLostIdleNotify, ActiveExact, Live, Enders, Ending
<1> QED  BY <1>1, Invariance, PTL

-----------------------------------------------------------------------------
(* The scheduler implements TaskPool.                                      *)

\* Worker w has task t's coroutine on its stack.
Stacks(w, t) == (InBody(w) \/ Suspending(w)) /\ cur[w] = t

\* Once the runtime is dropped all its workers have exited.
Joined == pc[Main] = "end" => \A w \in Workers : pc[w] = "exit"

\* A step after which every worker that had exited still has, and only the join
\* of all of them ends the main thread.
LEMMA JoinedStep ==
    ASSUME IndInv, Joined, [Next]_vars
    PROVE  Joined'
<1>1. CASE DropJoin
  BY <1>1 DEF DropJoin, Goto, Joined, IndInv, TypeOK
<1>2. CASE DropNotifyAll
  BY <1>2 DEF DropNotifyAll, Joined, IndInv, TypeOK
<1>3. CASE IdleCheck \/ IdleReturn \/ RunUntilIdle \/ DropRuntime
  BY <1>3 DEF IdleCheck, IdleReturn, RunUntilIdle, DropRuntime, Goto, Joined, IndInv, TypeOK
<1>4. ASSUME NEW g \in Agents, Notify(g) PROVE Joined'
  <2>1. pc[g] = "notify" /\ ret[g] # "end"
    BY <1>4 DEF Notify, IndInv, TypeOK
  <2> QED  BY <1>4, <2>1 DEF Notify, Joined, IndInv, TypeOK
<1>5. ASSUME NEW g \in Agents, NEW from, NEW t \in Tasks,
             Spawn(g, from, t) \/ Wake(g, from, t), from # "exit"
      PROVE  Joined'
  BY <1>5 DEF Spawn, Wake, Push, Goto, Joined, IndInv, TypeOK
<1>6. ASSUME NEW w \in Workers, pc[w] # "exit", NEW q, pc' = [pc EXCEPT ![w] = q]
      PROVE  Joined'
  BY <1>6 DEF Joined, IndInv, TypeOK
<1>7. ASSUME NEW w \in Workers, WorkerStep(w) PROVE Joined'
  <2>1. CASE NotifyDone(w)
    BY <2>1 DEF NotifyDone, Joined, IndInv, TypeOK
  <2>2. CASE Notify(w)
    BY <1>4, <2>2
  <2>3. CASE ~NotifyDone(w) /\ ~Notify(w)
    <3>1. pc[w] # "exit" /\ \E q : pc' = [pc EXCEPT ![w] = q]
      BY <1>7, <2>3 DEF WorkerStep, WorkerLoop, PopLocal, StealBatch, StealFrom, FoundNothing,
         Park, Unpark, ResumeLock, Suspend, OnAbandonDone, TaskFinished, Goto
    <3> QED  BY <3>1, <1>6
  <2> QED  BY <2>1, <2>2, <2>3
<1>8. ASSUME NEW w \in Workers, ParkTimeout(w) \/ BodyEnds(w) PROVE Joined'
  <2>1. pc[w] # "exit" /\ \E q : pc' = [pc EXCEPT ![w] = q]
    BY <1>8 DEF ParkTimeout, BodyEnds, BodyYield, BodyWait, BodyReturn, BodyAbandon, Push, Goto
  <2> QED  BY <2>1, <1>6
<1>9. ASSUME NEW w \in Workers, BodyCalls(w) PROVE Joined'
  BY <1>5, <1>9 DEF BodyCalls, BodySpawn, BodyWake, AbandonWake
<1>10. ASSUME NEW t \in Tasks, MainSpawn(t) \/ ExtWake(t) PROVE Joined'
  BY <1>5, <1>10 DEF MainSpawn, ExtWake
<1>11. CASE UNCHANGED vars
  BY <1>11 DEF vars, Joined
<1> QED
  BY <1>1, <1>2, <1>3, <1>4, <1>7, <1>8, <1>9, <1>10, <1>11 DEF Next, MainStep

\* Nothing that a program could see has changed.
LEMMA Unseen ==
    ASSUME UNCHANGED <<life, waker>>,
           \A w \in Workers, t \in Tasks :
               (Runs(w, t)' <=> Runs(w, t)) /\ (Stacks(w, t)' <=> Stacks(w, t)),
           MainAt(pc[Main])' = MainAt(pc[Main])
    PROVE  UNCHANGED Pool!vars
<1>1. State' = State
  BY DEF State, StateOf, Runs
<1>2. On' = On
  BY DEF On, Stacks
<1> QED  BY <1>1, <1>2 DEF Pool!vars

\* One task changes, as the program sees it.
LEMMA OneState ==
    ASSUME NEW t \in Tasks, NEW x, StateOf(t)' = x,
           \A y \in Tasks : y # t =>
               /\ life'[y] = life[y] /\ waker'[y] = waker[y]
               /\ \A w \in Workers : Runs(w, y)' <=> Runs(w, y)
    PROVE  State' = [State EXCEPT ![t] = x]
<1>1. \A y \in Tasks : y # t => StateOf(y)' = StateOf(y)
  BY DEF StateOf, Runs
<1> QED  BY <1>1 DEF State

\* One task comes onto the stack of some workers, or leaves it.
LEMMA OneStack ==
    ASSUME NEW t \in Tasks, NEW W \in SUBSET Workers,
           \A w \in Workers : Stacks(w, t)' <=> w \in W,
           \A y \in Tasks, w \in Workers : y # t => (Stacks(w, y)' <=> Stacks(w, y))
    PROVE  On' = [On EXCEPT ![t] = W]
<1>1. \A y \in Tasks : y # t => On'[y] = On[y]
  BY DEF On, Stacks
<1>2. On'[t] = W
  BY DEF On, Stacks
<1>3. On = [y \in Tasks |-> On[y]] /\ On' = [y \in Tasks |-> On'[y]]
  BY DEF On
<1> QED  BY <1>1, <1>2, <1>3
\* A task is on at most one stack, the holder's, and the one that runs it has it there.
LEMMA OneHolder ==
    ASSUME IndInv, NEW w \in Workers, NEW t \in Tasks, Stacks(w, t)
    PROVE  /\ life[t] = "some"
           /\ \A v \in Workers : Stacks(v, t) => v = w
  BY DEF IndInv, Holders, Stacks

\* A worker goes on without touching a coroutine.
LEMMA WorkerUnseen ==
    ASSUME IndInv, NEW w \in Workers,
           \/ WorkerLoop(w) \/ PopLocal(w) \/ StealBatch(w) \/ (\E v \in Workers : StealFrom(w, v))
           \/ FoundNothing(w) \/ Park(w) \/ ParkTimeout(w) \/ Unpark(w)
           \/ OnAbandonDone(w) \/ TaskFinished(w) \/ NotifyDone(w)
    PROVE  UNCHANGED Pool!vars
<1>1. UNCHANGED <<life, waker, ret>>
  BY DEF WorkerLoop, PopLocal, StealBatch, StealFrom, FoundNothing, Park, ParkTimeout, Unpark,
         OnAbandonDone, TaskFinished, NotifyDone, tasks
<1>2. /\ pc[w] \in Unladen \cup {"onAbandon", "finish", "finished"}
      /\ pc'[w] \in Unladen \cup {"lock", "exit", "finish", "finished"}
      /\ \A v \in Workers : v # w => pc'[v] = pc[v] /\ cur'[v] = cur[v]
      /\ MainAt(pc'[Main]) = MainAt(pc[Main])
  BY DEF WorkerLoop, PopLocal, StealBatch, StealFrom, FoundNothing, Park, ParkTimeout, Unpark,
         OnAbandonDone, TaskFinished, NotifyDone, Goto, Unladen, IndInv, TypeOK, MainAt
<1>3. \A v \in Workers, t \in Tasks :
          (Runs(v, t)' <=> Runs(v, t)) /\ (Stacks(v, t)' <=> Stacks(v, t))
  BY <1>1, <1>2 DEF Unladen, Runs, Stacks, InBody, Suspending
<1> QED  BY <1>1, <1>2, <1>3, Unseen

\* The second half of an enqueue.
LEMMA NotifyUnseen ==
    ASSUME IndInv, NEW g \in Agents, Notify(g)
    PROVE  UNCHANGED Pool!vars
<1>1. \/ pc' = [pc EXCEPT ![g] = ret[g]]
      \/ \E w \in Workers : pc[w] = "waiting" /\ pc' = [pc EXCEPT ![g] = ret[g], ![w] = "unpark"]
  BY DEF Notify
<1>2. pc[g] = "notify" /\ ret' = [ret EXCEPT ![g] = "user"] /\ UNCHANGED <<life, waker, cur>>
  BY DEF Notify, tasks
<1>3. \A v \in Workers : (InBody(v)' <=> InBody(v)) /\ (Suspending(v)' <=> Suspending(v))
  BY <1>1, <1>2 DEF IndInv, TypeOK, InBody, Suspending
<1>4. MainAt(pc[Main])' = MainAt(pc[Main])
  BY <1>1, <1>2 DEF IndInv, TypeOK, Places, MainAt
<1> QED  BY <1>2, <1>3, <1>4, Unseen DEF Runs, Stacks

\* resume: a ready task, off every stack, is taken up.
LEMMA ResumeRuns ==
    ASSUME IndInv, Joined, NEW w \in Workers, NEW t \in Tasks, t = cur[w], ResumeLock(w)
    PROVE  Pool!Run(t, w)
<1>1. pc[w] = "lock" /\ t \in Tasks /\ holder[t] = Nobody /\ InQueue(t)
  BY DEF ResumeLock, IndInv, Places, InQueue, Locks
<1>2. life[t] = "some" /\ waker[t] # "armed" /\ \A v \in Workers : ~Runs(v, t)
  BY <1>1 DEF IndInv, QueuedWhenDue
<1>3. pc' = [pc EXCEPT ![w] = "run"] /\ UNCHANGED <<life, waker, ret, cur>>
  BY <1>2 DEF ResumeLock, Goto
<1>4. \A v \in Workers : ~Stacks(v, t)
  BY <1>1 DEF IndInv, Holders, Stacks
<1>5. \A v \in Workers, y \in Tasks :
        /\ Runs(v, y)' <=> Runs(v, y) \/ (v = w /\ y = t)
        /\ Stacks(v, y)' <=> Stacks(v, y) \/ (v = w /\ y = t)
  BY <1>1, <1>3 DEF IndInv, TypeOK, Runs, Stacks, InBody, Suspending
<1>6. State[t] = "ready" /\ On[t] = {}
  BY <1>1, <1>2, <1>4 DEF State, StateOf, On, Runs, Stacks
<1>7. StateOf(t)' = "running"
  <2>1. Runs(w, t)'
    BY <1>1, <1>5
  <2> QED  BY <1>2, <1>3, <2>1 DEF StateOf, Runs
<1>8. State' = [State EXCEPT ![t] = "running"]
  BY <1>1, <1>3, <1>5, <1>7, OneState
<1>9. On' = [On EXCEPT ![t] = {w}]
  BY <1>1, <1>4, <1>5, OneStack
<1>10. MainAt(pc[Main]) # "dropped" /\ UNCHANGED MainAt(pc[Main])
  BY <1>1, <1>3 DEF Joined, MainAt, IndInv, TypeOK
<1> QED  BY <1>1, <1>6, <1>8, <1>9, <1>10 DEF Pool!Run, Pool!Move

\* A body that gives up its worker, for a yield or a wait: still on the stack.
LEMMA BodyStops ==
    ASSUME IndInv, NEW w \in Workers, NEW t \in Tasks, t = cur[w], NEW x,
           pc[w] = "run", pc'[w] = "suspend" \/ (pc'[w] = "notify" /\ ret'[w] = "suspend"),
           \A v \in Agents : v # w => pc'[v] = pc[v] /\ ret'[v] = ret[v],
           waker' = [waker EXCEPT ![t] = IF x = "waiting" THEN "armed" ELSE "fired"],
           x \in {"waiting", "ready"}, UNCHANGED <<life, cur>>
    PROVE  Pool!Move(t, "running", x) /\ UNCHANGED <<On, MainAt(pc[Main])>>
<1>1. t \in Tasks /\ InBody(w) /\ Runs(w, t) /\ Stacks(w, t)
  BY DEF IndInv, Places, InBody, Runs, Stacks
<1>2. life[t] = "some" /\ \A v \in Workers : Stacks(v, t) => v = w
  BY <1>1, OneHolder
<1>3. \A v \in Workers, y \in Tasks :
        /\ Runs(v, y)' <=> Runs(v, y) /\ v # w
        /\ Stacks(v, y)' <=> Stacks(v, y)
  BY <1>1 DEF Runs, Stacks, InBody, Suspending
<1>4. State[t] = "running"
  BY <1>1, <1>2 DEF State, StateOf, Runs
<1>5. StateOf(t)' = x
  <2>1. \A v \in Workers : ~Runs(v, t)'
    BY <1>1, <1>2, <1>3 DEF Runs, Stacks
  <2>2. waker'[t] = "armed" <=> x = "waiting"
    BY <1>1 DEF IndInv, TypeOK
  <2> QED  BY <1>1, <1>2, <2>1, <2>2 DEF StateOf, Runs
<1>6. State' = [State EXCEPT ![t] = x]
  <2>1. \A y \in Tasks : y # t =>
               /\ life'[y] = life[y] /\ waker'[y] = waker[y]
               /\ \A v \in Workers : Runs(v, y)' <=> Runs(v, y)
    BY <1>1, <1>3 DEF IndInv, TypeOK, Runs
  <2> QED  BY <1>1, <1>5, <2>1, OneState
<1>7. On' = On
  BY <1>3 DEF On, Stacks
<1>8. UNCHANGED MainAt(pc[Main])
  BY DEF MainAt
<1> QED  BY <1>1, <1>4, <1>6, <1>7, <1>8 DEF Pool!Move

\* The coroutine has switched back, and its mutex is released.
LEMMA SuspendLeaves ==
    ASSUME IndInv, NEW w \in Workers, NEW t \in Tasks, t = cur[w], Suspend(w)
    PROVE  Pool!Leave(t)
<1>1. t \in Tasks /\ ~InBody(w) /\ Stacks(w, t)
  BY DEF Suspend, Goto, IndInv, Places, Suspending, InBody, Stacks
<1>2. life[t] = "some" /\ \A v \in Workers : Stacks(v, t) => v = w
  BY <1>1, OneHolder
<1>3. pc' = [pc EXCEPT ![w] = "loop"] /\ UNCHANGED <<life, waker, ret>>
      /\ cur' = [cur EXCEPT ![w] = Nobody]
  BY DEF Suspend, Goto
<1>4. \A v \in Workers, y \in Tasks :
        /\ Runs(v, y)' <=> Runs(v, y)
        /\ Stacks(v, y)' <=> Stacks(v, y) /\ v # w
  BY <1>1, <1>3 DEF IndInv, TypeOK, Runs, Stacks, InBody, Suspending
<1>5. \A v \in Workers : ~Runs(v, t)
  BY <1>1, <1>2 DEF Runs, Stacks
<1>6. State[t] # "running" /\ On[t] # {}
  BY <1>1, <1>2, <1>5 DEF State, StateOf, On, Runs, Stacks
<1>7. State' = State
  BY <1>3, <1>4 DEF State, StateOf, Runs
<1>8. On' = [On EXCEPT ![t] = {}]
  <2>1. \A y \in Tasks, v \in Workers : y # t => (Stacks(v, y)' <=> Stacks(v, y))
    BY <1>1, <1>4 DEF Stacks
  <2>2. \A v \in Workers : Stacks(v, t)' <=> v \in {}
    BY <1>1, <1>2, <1>4
  <2> QED  BY <1>1, <2>1, <2>2, OneStack
<1>9. UNCHANGED MainAt(pc[Main])
  BY <1>3 DEF MainAt, IndInv, TypeOK
<1> QED  BY <1>1, <1>6, <1>7, <1>8, <1>9 DEF Pool!Leave
\* The body returns or is abandoned: its coroutine is dropped.
LEMMA BodyFinishes ==
    ASSUME IndInv, NEW w \in Workers, NEW t \in Tasks, t = cur[w],
           BodyReturn(w) \/ BodyAbandon(w)
    PROVE  Pool!Finish(t)
<1>1. PICK q \in {"finish", "onAbandon"} : pc' = [pc EXCEPT ![w] = q]
  BY DEF BodyReturn, BodyAbandon, Goto
<1>2. pc[w] = "run" /\ life' = [life EXCEPT ![t] = "none"] /\ UNCHANGED <<ret, cur, waker>>
  BY DEF BodyReturn, BodyAbandon, Goto
<1>3. Runs(w, t) /\ Stacks(w, t) /\ pc'[w] = q
  BY <1>1, <1>2 DEF IndInv, TypeOK, InBody, Runs, Stacks
<1>4. life[t] = "some" /\ \A v \in Workers : Stacks(v, t) => v = w
  BY <1>3, OneHolder
<1>5. \A v \in Workers, y \in Tasks :
        /\ Runs(v, y)' <=> Runs(v, y) /\ v # w
        /\ Stacks(v, y)' <=> Stacks(v, y) /\ v # w
  BY <1>1, <1>2, <1>3 DEF IndInv, TypeOK, Runs, Stacks, InBody, Suspending
<1>6. State[t] = "running" /\ StateOf(t)' = "done"
  BY <1>2, <1>3, <1>4 DEF State, StateOf, Runs, IndInv, TypeOK
<1>7. State' = [State EXCEPT ![t] = "done"]
  <2>1. \A y \in Tasks : y # t =>
               /\ life'[y] = life[y] /\ waker'[y] = waker[y]
               /\ \A v \in Workers : Runs(v, y)' <=> Runs(v, y)
    BY <1>2, <1>3, <1>5 DEF IndInv, TypeOK, Runs
  <2> QED  BY <1>6, <2>1, OneState
<1>8. On' = [On EXCEPT ![t] = {}]
  <2>1. \A y \in Tasks, v \in Workers : y # t => (Stacks(v, y)' <=> Stacks(v, y))
    BY <1>3, <1>5 DEF Stacks
  <2>2. \A v \in Workers : Stacks(v, t)' <=> v \in {}
    BY <1>4, <1>5
  <2> QED  BY <2>1, <2>2, OneStack
<1>9. UNCHANGED MainAt(pc[Main])
  BY <1>1 DEF MainAt, IndInv, TypeOK
<1> QED  BY <1>6, <1>7, <1>8, <1>9 DEF Pool!Finish, Pool!Move

\* An enqueue moves no coroutine, whoever makes it, unless it is a yield's.
LEMMA PushUnseen ==
    ASSUME IndInv, NEW g \in Agents, NEW from, NEW t \in Tasks, Push(g, from, t, from),
           \/ g \in Workers /\ from \in {"run", "onAbandon"}
           \/ g \in {Main, Ext} /\ from = "user",
           UNCHANGED cur
    PROVE  /\ \A v \in Workers, y \in Tasks :
                 (Runs(v, y)' <=> Runs(v, y)) /\ (Stacks(v, y)' <=> Stacks(v, y))
           /\ On' = On /\ UNCHANGED MainAt(pc[Main])
<1>1. /\ pc[g] = from /\ pc' = [pc EXCEPT ![g] = "notify"]
      /\ ret' = [ret EXCEPT ![g] = from]
  BY DEF Push, Goto
<1>2. \A v \in Workers : (InBody(v)' <=> InBody(v)) /\ (Suspending(v)' <=> Suspending(v))
  BY <1>1 DEF IndInv, TypeOK, Places, InBody, Suspending
<1>3. \A v \in Workers, y \in Tasks :
          (Runs(v, y)' <=> Runs(v, y)) /\ (Stacks(v, y)' <=> Stacks(v, y))
  BY <1>2 DEF Runs, Stacks
<1>4. On' = On
  BY <1>3 DEF On, Stacks
<1>5. UNCHANGED MainAt(pc[Main])
  BY <1>1 DEF MainAt, IndInv, TypeOK
<1> QED  BY <1>3, <1>4, <1>5

\* Runtime::spawn_raw.
LEMMA SpawnReadies ==
    ASSUME IndInv, Joined, NEW g \in Agents, NEW from, NEW t \in Tasks, Spawn(g, from, t),
           (g \in Workers /\ from = "run") \/ (g = Main /\ from = "user")
    PROVE  Pool!Spawn(t)
<1>1. /\ life[t] = "unspawned" /\ life' = [life EXCEPT ![t] = "some"]
      /\ Push(g, from, t, from) /\ UNCHANGED <<cur, waker>>
  BY DEF Spawn
<1>2. waker[t] # "armed" /\ \A w \in Workers : ~Runs(w, t)
  BY <1>1 DEF IndInv, QueuedWhenDue, Holders, Runs
<1>3. /\ \A v \in Workers, y \in Tasks : Runs(v, y)' <=> Runs(v, y)
      /\ On' = On /\ UNCHANGED MainAt(pc[Main])
  BY <1>1, PushUnseen
<1>4. State[t] = "new" /\ StateOf(t)' = "ready"
  <2>1. life'[t] = "some" /\ waker'[t] # "armed" /\ \A w \in Workers : ~Runs(w, t)'
    BY <1>1, <1>2, <1>3 DEF IndInv, TypeOK
  <2> QED  BY <1>1, <2>1 DEF State, StateOf, Runs
<1>5. State' = [State EXCEPT ![t] = "ready"]
  BY <1>1, <1>3, <1>4, OneState DEF IndInv, TypeOK
<1>6. MainAt(pc[Main]) # "dropped"
  BY <1>1 DEF Push, Goto, Joined, MainAt
<1> QED  BY <1>3, <1>4, <1>5, <1>6 DEF Pool!Spawn, Pool!Move

\* Waker::wake, before or after the task has left its stack.
LEMMA WakeReadies ==
    ASSUME IndInv, NEW g \in Agents, NEW from, NEW t \in Tasks, Wake(g, from, t),
           (g \in Workers /\ from \in {"run", "onAbandon"}) \/ (g = Ext /\ from = "user")
    PROVE  Pool!Wake(t)
<1>1. /\ waker[t] = "armed" /\ waker' = [waker EXCEPT ![t] = "fired"]
      /\ Push(g, from, t, from) /\ UNCHANGED <<cur, life>>
  BY DEF Wake
<1>2. life[t] = "some" /\ \A w \in Workers : ~Runs(w, t)
  BY <1>1 DEF IndInv, QueuedWhenDue
<1>3. /\ \A v \in Workers, y \in Tasks : Runs(v, y)' <=> Runs(v, y)
      /\ On' = On /\ UNCHANGED MainAt(pc[Main])
  BY <1>1, PushUnseen
<1>4. State[t] = "waiting" /\ StateOf(t)' = "ready"
  <2>1. life'[t] = "some" /\ waker'[t] # "armed" /\ \A w \in Workers : ~Runs(w, t)'
    BY <1>1, <1>2, <1>3 DEF IndInv, TypeOK
  <2> QED  BY <1>1, <1>2, <2>1 DEF State, StateOf, Runs
<1>5. State' = [State EXCEPT ![t] = "ready"]
  BY <1>1, <1>3, <1>4, OneState DEF IndInv, TypeOK
<1> QED  BY <1>3, <1>4, <1>5 DEF Pool!Wake, Pool!Move
\* run_until_idle comes back only when nothing is left to run, and the runtime is
\* dropped only when no coroutine is on a worker's stack.
LEMMA MainSeen ==
    ASSUME IndInv,
           \/ RunUntilIdle \/ IdleCheck \/ IdleReturn
           \/ DropRuntime \/ DropNotifyAll \/ DropJoin
    PROVE  [Pool!Next]_(Pool!vars)
<1>1. UNCHANGED <<life, waker, ret, cur, active>>
  BY DEF RunUntilIdle, IdleCheck, IdleReturn, DropRuntime, DropNotifyAll, DropJoin, tasks
<1>2. \A v \in Workers : pc'[v] = pc[v] \/ (pc[v] = "waiting" /\ pc'[v] = "unpark")
  BY DEF RunUntilIdle, IdleCheck, IdleReturn, DropRuntime, DropNotifyAll, DropJoin, Goto,
         IndInv, TypeOK
<1>3. \A v \in Workers, t \in Tasks :
          (Runs(v, t)' <=> Runs(v, t)) /\ (Stacks(v, t)' <=> Stacks(v, t))
  BY <1>1, <1>2 DEF Runs, Stacks, InBody, Suspending
<1>4. State' = State /\ On' = On
  BY <1>1, <1>3 DEF State, StateOf, On, Runs, Stacks
<1>5. CASE RunUntilIdle
  <2>1. MainAt(pc[Main]) = "user" /\ MainAt(pc[Main])' = "idling"
    BY <1>5 DEF RunUntilIdle, Goto, MainAt, IndInv, TypeOK
  <2> QED  BY <1>4, <2>1 DEF Pool!Next, Pool!RunUntilIdle, Pool!MainStep
<1>6. CASE IdleCheck /\ active > 0
  <2>1. MainAt(pc[Main])' = MainAt(pc[Main])
    BY <1>6 DEF IdleCheck, Goto, MainAt, IndInv, TypeOK
  <2> QED  BY <1>4, <2>1 DEF Pool!vars
<1>7. CASE IdleCheck /\ ~(active > 0)
  <2>1. Cardinality(Live) = 0
    BY <1>7, CountsFinite DEF IndInv, Counted
  <2>2. Live = {}
    BY <2>1, CountsFinite, FS_EmptySet
  <2>3. \A t \in Tasks : State[t] \in {"new", "done"}
    BY <2>2 DEF Live, State, StateOf, IndInv, TypeOK
  <2>4. MainAt(pc[Main]) = "idling" /\ MainAt(pc[Main])' = "user"
    BY <1>7 DEF IdleCheck, Goto, MainAt, IndInv, TypeOK
  <2> QED  BY <1>4, <2>3, <2>4 DEF Pool!Next, Pool!Idle, Pool!MainStep
<1>8. CASE IdleReturn \/ DropNotifyAll
  <2>1. MainAt(pc[Main])' = MainAt(pc[Main])
    BY <1>8 DEF IdleReturn, DropNotifyAll, Goto, MainAt, IndInv, TypeOK
  <2> QED  BY <1>4, <2>1 DEF Pool!vars
<1>9. CASE DropRuntime
  <2>1. MainAt(pc[Main]) = "user" /\ MainAt(pc[Main])' = "dropping"
    BY <1>9 DEF DropRuntime, Goto, MainAt, IndInv, TypeOK
  <2> QED  BY <1>4, <2>1 DEF Pool!Next, Pool!Drop, Pool!MainStep
<1>10. CASE DropJoin
  <2>1. MainAt(pc[Main]) = "dropping" /\ MainAt(pc[Main])' = "dropped"
    BY <1>10 DEF DropJoin, Goto, MainAt, IndInv, TypeOK
  <2>2. \A t \in Tasks : On[t] = {}
    BY <1>10 DEF DropJoin, On, InBody, Suspending
  <2> QED  BY <1>4, <2>1, <2>2 DEF Pool!Next, Pool!Dropped, Pool!MainStep
<1> QED  BY <1>5, <1>6, <1>7, <1>8, <1>9, <1>10

\* A fresh runtime is a fresh pool.
LEMMA InitPool == Init => Pool!Init /\ Joined
<1> SUFFICES ASSUME Init PROVE Pool!Init /\ Joined
  OBVIOUS
<1>1. \A w \in Workers : pc[w] = "loop"
  BY DEF Init
<1>2. pc[Main] = "user"
  BY DEF Init
<1>3. State = [t \in Tasks |-> "new"]
  BY DEF Init, State, StateOf
<1>4. On = [t \in Tasks |-> {}]
  BY <1>1 DEF On, InBody, Suspending
<1> QED  BY <1>2, <1>3, <1>4 DEF Pool!Init, MainAt, Joined

\* Every step of the scheduler is a step of the pool or none.
LEMMA NextPool ==
    ASSUME IndInv, Joined, [Next]_vars
    PROVE  [Pool!Next]_(Pool!vars)
<1>1. ASSUME NEW w \in Workers, ResumeLock(w) PROVE Pool!Next
  <2>1. PICK t \in Tasks : t = cur[w]
    BY <1>1 DEF ResumeLock, IndInv, Places
  <2> QED  BY <1>1, <2>1, ResumeRuns DEF Pool!Next, Pool!TakenUp
<1>2. ASSUME NEW w \in Workers, Suspend(w) PROVE Pool!Next
  <2>1. PICK t \in Tasks : t = cur[w]
    BY <1>2 DEF Suspend, Goto, IndInv, Places, Suspending
  <2> QED  BY <1>2, <2>1, SuspendLeaves DEF Pool!Next
<1>3. ASSUME NEW w \in Workers, BodyEnds(w) PROVE Pool!Next
  <2>1. PICK t \in Tasks : t = cur[w]
    BY <1>3 DEF BodyEnds, BodyYield, BodyWait, BodyReturn, BodyAbandon, Push, Goto,
         IndInv, Places, InBody
  <2>2. CASE BodyYield(w)
    <3>1. Pool!Move(t, "running", "ready") /\ UNCHANGED <<On, MainAt(pc[Main])>>
      BY <2>1, <2>2, BodyStops DEF BodyYield, Push, Goto, IndInv, TypeOK
    <3> QED  BY <3>1 DEF Pool!Next, Pool!Yield
  <2>3. CASE BodyWait(w)
    <3>1. Pool!Move(t, "running", "waiting") /\ UNCHANGED <<On, MainAt(pc[Main])>>
      BY <2>1, <2>3, BodyStops DEF BodyWait, Goto, IndInv, TypeOK
    <3> QED  BY <3>1 DEF Pool!Next, Pool!Wait
  <2>4. CASE BodyReturn(w) \/ BodyAbandon(w)
    BY <2>1, <2>4, BodyFinishes DEF Pool!Next
  <2> QED  BY <1>3, <2>2, <2>3, <2>4 DEF BodyEnds
<1>4. ASSUME NEW w \in Workers, BodyCalls(w) PROVE Pool!Next
  BY <1>4, SpawnReadies, WakeReadies DEF BodyCalls, BodySpawn, BodyWake, AbandonWake, Pool!Next
<1>5. ASSUME NEW t \in Tasks, MainSpawn(t) \/ ExtWake(t) PROVE Pool!Next
  BY <1>5, SpawnReadies, WakeReadies DEF MainSpawn, ExtWake, Pool!Next
<1>6. ASSUME NEW w \in Workers, WorkerStep(w) \/ ParkTimeout(w) PROVE [Pool!Next]_(Pool!vars)
  <2>1. w \in Agents
    OBVIOUS
  <2> QED  BY <1>1, <1>2, <1>6, <2>1, WorkerUnseen, NotifyUnseen DEF WorkerStep
<1>7. CASE MainStep \/ RunUntilIdle \/ DropRuntime \/ Notify(Ext)
  BY <1>7, MainSeen, NotifyUnseen DEF MainStep
<1>8. CASE UNCHANGED vars
  BY <1>8 DEF vars, Pool!vars, State, StateOf, On, InBody, Suspending
<1> QED  BY <1>3, <1>4, <1>5, <1>6, <1>7, <1>8 DEF Next

\* With any number of workers and tasks, and through every wake that overtakes a
\* suspension, every batch and steal, the scheduler behaves as one pool of tasks:
\* a task is on one stack at a time, is resumed once for each time it became ready,
\* run_until_idle returns only when all tasks are done, and none runs after Drop.
THEOREM SchedulerImplementsTaskPool == Safety => Pool!Safety
<1>1. IndInv /\ Joined /\ [Next]_vars => Joined'
  BY JoinedStep
<1>2. IndInv /\ Joined /\ [Next]_vars => [Pool!Next]_(Pool!vars)
  BY NextPool
<1> QED  BY <1>1, <1>2, InitPool, Invariance, PTL DEF Safety, Pool!Safety
=============================================================================
