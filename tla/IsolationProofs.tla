-------------------------- MODULE IsolationProofs --------------------------
(***************************************************************************)
(* For any number of workers, tasks and generators: the thread locals name *)
(* the coroutines that are nested on the thread, if no iter function       *)
(* blocks, and a generator is driven by one call at a time even if some do,*)
(* which its mutex records, as it does a panic.                            *)
(***************************************************************************)
EXTENDS Isolation, FiniteSetTheorems, SequenceTheorems, TLAPS

\* A task is on one worker while it runs, and out of every generator otherwise,
\* unless iter functions block.
Seats ==
    /\ \A w \in Workers : on[w] # Nobody => task[on[w]] = "running"
    /\ \A w, v \in Workers : on[w] = on[v] /\ on[w] # Nobody => w = v
    /\ ~iterBlocks => \A t \in Tasks : task[t] # "running" => frames[t] = <<>>

\* The nested calls of all the tasks are in different generators.
OncePerFrame ==
    \A t, u \in Tasks : \A i \in DOMAIN frames[t], j \in DOMAIN frames[u] :
        frames[t][i] = frames[u][j] => t = u /\ i = j

\* What keeps a second call out of a generator: the mutex, or having no handle.
Guarded ==
    \A t \in Tasks : \A i \in DOMAIN frames[t] :
        locked[frames[t][i]] \/ life[frames[t][i]] = "released"

\* The generator outside of the i-th one of a nest.
Around(f, i) == IF i = 1 THEN None ELSE f[i - 1]

\* The locals `outer` of the nested resumes chain the generators together.
OutersMatch ==
    ~iterBlocks =>
        \A t \in Tasks : \A i \in DOMAIN frames[t] :
            outer[frames[t][i]] = Around(frames[t], i)

\* A locked generator was left by a panic or is in some nest.
LocksHeld ==
    ~iterBlocks =>
        \A g \in Generators :
            locked[g] => g \in panicked \/ \E t \in Tasks : \E i \in DOMAIN frames[t] : frames[t][i] = g

\* A generator left by a panic stays locked, unless it was left while it was being
\* released, without its mutex; and nobody gets into it again.
LocksKept ==
    /\ \A g \in Generators : g \in panicked => locked[g] \/ life[g] = "released"
    /\ \A g \in Generators : life[g] = "released" => ~locked[g]
    /\ \A t \in Tasks : \A i \in DOMAIN frames[t] :
        frames[t][i] \in panicked => life[frames[t][i]] = "released"

\* LocalsMatch, with the innermost generator as a function of the frames.
InnerOf(f) == IF f = <<>> THEN None ELSE Last(f)
LocalsAt(w) ==
    IF on[w] = Nobody
    THEN contexts[w] = <<>> /\ yielder[w] = None
    ELSE contexts[w] = <<on[w]>> \o frames[on[w]] /\ yielder[w] = InnerOf(frames[on[w]])
Locals == ~iterBlocks => \A w \in Workers : LocalsAt(w)

\* The inductive invariant.
IndInv ==
    /\ TypeOK /\ Seats
    /\ Locals /\ OutersMatch
    /\ OncePerFrame /\ Guarded /\ LocksHeld /\ LocksKept

-----------------------------------------------------------------------------
(* Stacks.                                                                 *)

USE GeneratorsAssumption

\* Entering a generator, as seen by the frames and by CONTEXTS.
LEMMA PushFrame ==
    ASSUME NEW f \in Seq(Generators), NEW g \in Generators, NEW t \in Tasks
    PROVE  /\ Append(f, g) \in Seq(Generators) /\ Append(f, g) # <<>>
           /\ DOMAIN f = 1..Len(f) /\ Len(f) \in Nat
           /\ DOMAIN Append(f, g) = 1..(Len(f) + 1)
           /\ \A i \in 1..Len(f) : Append(f, g)[i] = f[i]
           /\ Append(f, g)[Len(f) + 1] = g
           /\ InnerOf(Append(f, g)) = g
           /\ Append(<<t>> \o f, g) = <<t>> \o Append(f, g)
<1>1. /\ Append(f, g) \in Seq(Generators) /\ Append(f, g) # <<>>
      /\ DOMAIN f = 1..Len(f) /\ Len(f) \in Nat
      /\ DOMAIN Append(f, g) = 1..(Len(f) + 1) /\ Len(Append(f, g)) = Len(f) + 1
      /\ \A i \in 1..Len(f) : Append(f, g)[i] = f[i]
      /\ Append(f, g)[Len(f) + 1] = g
  BY AppendProperties, LenProperties
<1>2. InnerOf(Append(f, g)) = g
  BY <1>1 DEF InnerOf, Last
<1>3. Append(<<t>> \o f, g) = <<t>> \o Append(f, g)
  BY <1>1
<1> QED  BY <1>1, <1>2, <1>3

\* Leaving the innermost generator.
LEMMA PopFrame ==
    ASSUME NEW f \in Seq(Generators), f # <<>>, NEW t \in Tasks
    PROVE  /\ Front(f) \in Seq(Generators) /\ Len(f) \in Nat /\ Len(f) > 0
           /\ DOMAIN f = 1..Len(f) /\ DOMAIN Front(f) = 1..(Len(f) - 1)
           /\ \A i \in 1..(Len(f) - 1) : Front(f)[i] = f[i]
           /\ InnerOf(f) = f[Len(f)]
           /\ InnerOf(Front(f)) = Around(f, Len(f))
           /\ Popped(<<t>> \o f) = <<t>> \o Front(f)
           /\ Last(<<t>> \o f) = f[Len(f)]
<1>0. Len(f) \in Nat /\ Len(f) > 0 /\ DOMAIN f = 1..Len(f)
  BY LenProperties, EmptySeq
<1>1. /\ Front(f) \in Seq(Generators) /\ Len(Front(f)) = Len(f) - 1
      /\ DOMAIN Front(f) = 1..(Len(f) - 1)
      /\ \A i \in 1..(Len(f) - 1) : Front(f)[i] = f[i]
  BY <1>0 DEF Front
<1>2. InnerOf(f) = f[Len(f)]
  BY DEF InnerOf, Last
<1>3. InnerOf(Front(f)) = Around(f, Len(f))
  <2>1. CASE Len(f) = 1
    <3>1. Front(f) = <<>>
      BY <1>1, <2>1, EmptySeq
    <3> QED  BY <2>1, <3>1 DEF InnerOf, Around
  <2>2. CASE Len(f) # 1
    <3>1. Front(f) # <<>> /\ Last(Front(f)) = f[Len(f) - 1]
      BY <1>0, <1>1, <2>2 DEF Last
    <3> QED  BY <2>2, <3>1 DEF InnerOf, Around
  <2> QED  BY <2>1, <2>2
<1>4. /\ <<t>> \o f \in Seq(Tasks \cup Generators) /\ Len(<<t>> \o f) = Len(f) + 1
      /\ \A i \in 1..(Len(f) + 1) : (<<t>> \o f)[i] = IF i = 1 THEN t ELSE f[i - 1]
  BY <1>0
<1>5. Last(<<t>> \o f) = f[Len(f)]
  BY <1>0, <1>4 DEF Last
<1>6. Popped(<<t>> \o f) = <<t>> \o Front(f)
  <2>1. PICK c \in Seq(Tasks \cup Generators) : c = <<t>> \o f
    BY <1>4
  <2>2. PICK h \in Seq(Generators) : h = Front(f)
    BY <1>1
  <2>3. /\ c # <<>> /\ Len(c) = Len(f) + 1
        /\ \A i \in 1..(Len(f) + 1) : c[i] = IF i = 1 THEN t ELSE f[i - 1]
    BY <1>0, <1>4, <2>1
  <2>4. Len(h) = Len(f) - 1 /\ \A i \in 1..(Len(f) - 1) : h[i] = f[i]
    BY <1>1, <2>2
  <2>5. /\ Front(c) \in Seq(Tasks \cup Generators) /\ Len(Front(c)) = Len(f)
        /\ \A i \in 1..Len(f) : Front(c)[i] = c[i]
    BY <1>0, <2>3 DEF Front
  <2>6. /\ <<t>> \o h \in Seq(Tasks \cup Generators) /\ Len(<<t>> \o h) = Len(f)
        /\ \A i \in 1..Len(f) : (<<t>> \o h)[i] = IF i = 1 THEN t ELSE h[i - 1]
    <3>1. Len(<<t>>) = 1 /\ <<t>>[1] = t /\ <<t>> \in Seq(Tasks \cup Generators)
      OBVIOUS
    <3>2. h \in Seq(Tasks \cup Generators)
      OBVIOUS
    <3>3. PICK o \in Seq(Tasks \cup Generators) : o = <<t>>
      BY <3>1
    <3>4. /\ o \o h \in Seq(Tasks \cup Generators) /\ Len(o \o h) = 1 + Len(h)
          /\ \A i \in 1..(1 + Len(h)) : (o \o h)[i] = IF i <= 1 THEN o[i] ELSE h[i - 1]
      BY <3>1, <3>2, <3>3, ConcatProperties
    <3>5. 1 + Len(h) = Len(f)
      BY <1>0, <2>4
    <3> QED  BY <3>1, <3>3, <3>4, <3>5
  <2>7. ASSUME NEW i \in 1..Len(f) PROVE Front(c)[i] = (<<t>> \o h)[i]
    <3>1. CASE i = 1
      BY <1>0, <2>3, <2>5, <2>6, <3>1
    <3>2. CASE i # 1
      <4>1. i - 1 \in 1..(Len(f) - 1) /\ i \in 1..(Len(f) + 1)
        BY <1>0, <3>2
      <4> QED  BY <2>3, <2>4, <2>5, <2>6, <3>2, <4>1
    <3> QED  BY <3>1, <3>2
  <2>8. Front(c) = <<t>> \o h
    <3> DEFINE a == Front(c)
               b == <<t>> \o h
    <3>1. /\ a \in Seq(Tasks \cup Generators) /\ b \in Seq(Tasks \cup Generators)
          /\ Len(a) = Len(b) /\ \A i \in 1..Len(a) : a[i] = b[i]
      BY <2>5, <2>6, <2>7
    <3> HIDE DEF a, b
    <3>2. a = b
      BY <3>1, SeqEqual
    <3> QED  BY <3>2 DEF a, b
  <2> QED  BY <2>1, <2>2, <2>3, <2>8 DEF Popped
<1> QED  BY <1>0, <1>1, <1>2, <1>3, <1>5, <1>6

\* A task outside of every generator.
LEMMA EmptyNest ==
    ASSUME NEW t \in Tasks
    PROVE  <<t>> \o <<>> = <<t>> /\ Popped(<<t>>) = <<>> /\ Append(<<>>, t) = <<t>>
<1>1. <<t>> # <<>> /\ Len(<<t>>) = 1
  OBVIOUS
<1>2. Front(<<t>>) = <<>>
  BY DEF Front
<1> QED  BY <1>1, <1>2 DEF Popped

\* Stacks keep their type.
LEMMA StackTypes ==
    ASSUME NEW S, NEW s \in Seq(S)
    PROVE  Popped(s) \in Seq(S)
<1>1. CASE s = <<>>
  BY <1>1 DEF Popped
<1>2. CASE s # <<>>
  <2>1. Len(s) \in Nat /\ Len(s) > 0
    BY <1>2, LenProperties, EmptySeq
  <2> QED  BY <1>2, <2>1 DEF Popped, Front
<1> QED  BY <1>1, <1>2

-----------------------------------------------------------------------------
(* One lemma per kind of step.                                             *)

\* The invariant holds of workers without tasks.
LEMMA InitIndInv == Init => IndInv
<1> SUFFICES ASSUME Init PROVE IndInv
  OBVIOUS
<1> USE DEF Init
<1>1. TypeOK
  BY DEF TypeOK
<1>2. \A t \in Tasks : frames[t] = <<>> /\ DOMAIN frames[t] = {}
  OBVIOUS
<1>3. Seats
  BY <1>2 DEF Seats
<1>4. Locals
  BY DEF Locals, LocalsAt
<1>5. OutersMatch /\ OncePerFrame /\ Guarded
  BY <1>2 DEF OutersMatch, OncePerFrame, Guarded
<1>6. LocksHeld /\ LocksKept
  BY <1>2 DEF LocksHeld, LocksKept
<1> QED  BY <1>1, <1>3, <1>4, <1>5, <1>6 DEF IndInv

\* A step that only blocks a task, lets it go on or ends the process.
LEMMA QuietStep ==
    ASSUME IndInv, TypeOK',
           UNCHANGED <<on, contexts, yielder, task, frames, life, locked, outer, panicked, iterBlocks>>
    PROVE  IndInv'
<1>1. Seats' /\ Locals' /\ OutersMatch'
  BY DEF IndInv, Seats, Locals, LocalsAt, OutersMatch
<1>2. OncePerFrame' /\ Guarded' /\ LocksHeld' /\ LocksKept'
  BY DEF IndInv, OncePerFrame, Guarded, LocksHeld, LocksKept
<1> QED  BY <1>1, <1>2 DEF IndInv

\* task::resume, going in.
LEMMA ResumeStep ==
    ASSUME IndInv, NEW w \in Workers, NEW t \in Tasks, Resume(w, t)
    PROVE  IndInv'
<1>1. /\ on[w] = Nobody /\ task[t] = "ready"
      /\ on' = [on EXCEPT ![w] = t] /\ task' = [task EXCEPT ![t] = "running"]
      /\ contexts' = [contexts EXCEPT ![w] = Append(@, t)]
      /\ UNCHANGED <<yielder, frames, waits, raising, life, locked, outer, panicked, iterBlocks, process>>
  BY DEF Resume, isolate, generators
<1>2. TypeOK'
  BY <1>1 DEF IndInv, TypeOK
<1>3. Seats'
  BY <1>1 DEF IndInv, TypeOK, Seats
<1>4. Locals'
  <2> SUFFICES ASSUME ~iterBlocks, NEW v \in Workers PROVE LocalsAt(v)'
    BY <1>1 DEF Locals
  <2>1. LocalsAt(w) /\ LocalsAt(v)
    BY DEF IndInv, Locals
  <2>2. CASE v = w
    <3>1. frames[t] = <<>>
      BY <1>1 DEF IndInv, Seats
    <3>2. contexts[w] = <<>> /\ yielder[w] = None
      BY <1>1, <2>1 DEF LocalsAt
    <3>3. contexts'[w] = <<t>> /\ on'[w] = t
      BY <1>1, <3>2, EmptyNest DEF IndInv, TypeOK
    <3>4. t # Nobody
      OBVIOUS
    <3> QED  BY <1>1, <2>2, <3>1, <3>2, <3>3, <3>4, EmptyNest DEF LocalsAt, InnerOf
  <2>3. CASE v # w
    <3>1. on'[v] = on[v] /\ contexts'[v] = contexts[v]
      BY <1>1, <2>3 DEF IndInv, TypeOK
    <3> QED  BY <1>1, <2>1, <3>1 DEF LocalsAt
  <2> QED  BY <2>2, <2>3
<1>5. OutersMatch' /\ OncePerFrame' /\ Guarded' /\ LocksHeld' /\ LocksKept'
  BY <1>1 DEF IndInv, OutersMatch, OncePerFrame, Guarded, LocksHeld, LocksKept
<1> QED  BY <1>2, <1>3, <1>4, <1>5 DEF IndInv

\* A worker lets go of the task it resumed, which was outside of every generator
\* if none blocks.
LEMMA PartStep ==
    ASSUME IndInv, NEW w \in Workers, NEW t \in Tasks, on[w] = t,
           ~iterBlocks => frames[t] = <<>>, frames' \in [Tasks -> Seq(Generators)],
           \A u \in Tasks : u # t => frames'[u] = frames[u],
           frames'[t] = frames[t] \/ frames'[t] = <<>>,
           on' = [on EXCEPT ![w] = Nobody], DropIsolated(w),
           \A u \in Tasks : task'[u] = task[u] \/ u = t, TypeOK',
           UNCHANGED <<yielder, life, locked, outer, panicked, iterBlocks>>
    PROVE  IndInv'
<1>1. \A v \in Workers \ {w} : on[v] # t /\ on'[v] = on[v] /\ contexts'[v] = contexts[v]
  BY DEF IndInv, TypeOK, Seats, DropIsolated
<1>2. on'[w] = Nobody /\ contexts'[w] = Popped(contexts[w])
  BY DEF IndInv, TypeOK, DropIsolated
<1>3. ~iterBlocks => \A u \in Tasks : frames'[u] = frames[u]
  OBVIOUS
<1>4. Seats'
  <2>1. \A v \in Workers : on'[v] # Nobody => v # w /\ on[v] \in Tasks
    BY <1>1, <1>2 DEF IndInv, TypeOK
  <2>2. \A v \in Workers : on'[v] # Nobody => task'[on'[v]] = "running"
    BY <1>1, <1>2, <2>1 DEF IndInv, Seats
  <2>3. \A u, v \in Workers : on'[u] = on'[v] /\ on'[u] # Nobody => u = v
    BY <1>1, <1>2, <2>1 DEF IndInv, Seats
  <2>4. ~iterBlocks => \A u \in Tasks : task'[u] # "running" => frames'[u] = <<>>
    BY <1>3 DEF IndInv, Seats
  <2> QED  BY <2>2, <2>3, <2>4 DEF Seats
<1>5. Locals'
  <2> SUFFICES ASSUME ~iterBlocks, NEW v \in Workers PROVE LocalsAt(v)'
    BY DEF Locals
  <2>1. LocalsAt(w) /\ LocalsAt(v)
    BY DEF IndInv, Locals
  <2>2. CASE v = w
    <3>1. contexts[w] = <<t>> /\ yielder[w] = None
      BY <2>1, EmptyNest DEF LocalsAt, InnerOf
    <3> QED  BY <1>2, <2>2, <3>1, EmptyNest DEF LocalsAt
  <2>3. CASE v # w
    <3>1. on[v] \in Tasks \cup {Nobody}
      BY DEF IndInv, TypeOK
    <3>2. CASE on[v] = Nobody
      BY <1>1, <2>1, <2>3, <3>2 DEF LocalsAt
    <3>3. CASE on[v] \in Tasks
      BY <1>1, <1>3, <2>1, <2>3, <3>3 DEF LocalsAt
    <3> QED  BY <3>1, <3>2, <3>3
  <2> QED  BY <2>2, <2>3
<1>6. \A u \in Tasks : DOMAIN frames'[u] \subseteq DOMAIN frames[u]
                       /\ \A i \in DOMAIN frames'[u] : frames'[u][i] = frames[u][i]
  <2>1. DOMAIN <<>> = {}
    OBVIOUS
  <2> QED  BY <2>1
<1>7. OutersMatch'
  BY <1>3 DEF IndInv, OutersMatch
<1>8. OncePerFrame'
  <2> SUFFICES ASSUME NEW u \in Tasks, NEW v \in Tasks,
                      NEW i \in DOMAIN frames'[u], NEW j \in DOMAIN frames'[v],
                      frames'[u][i] = frames'[v][j]
               PROVE  u = v /\ i = j
    BY DEF OncePerFrame
  <2>1. /\ i \in DOMAIN frames[u] /\ frames'[u][i] = frames[u][i]
        /\ j \in DOMAIN frames[v] /\ frames'[v][j] = frames[v][j]
    BY <1>6
  <2>2. frames[u][i] = frames[v][j]
    BY <2>1
  <2>3. OncePerFrame
    BY DEF IndInv
  <2> QED  BY <2>1, <2>2, <2>3 DEF OncePerFrame
<1>9. Guarded'
  <2> SUFFICES ASSUME NEW u \in Tasks, NEW i \in DOMAIN frames'[u]
               PROVE  locked[frames'[u][i]] \/ life[frames'[u][i]] = "released"
    BY DEF Guarded
  <2>1. i \in DOMAIN frames[u] /\ frames'[u][i] = frames[u][i]
    BY <1>6
  <2>2. locked[frames[u][i]] \/ life[frames[u][i]] = "released"
    BY <2>1 DEF IndInv, Guarded
  <2> QED  BY <2>1, <2>2, Zenon
<1>10. LocksHeld'
  BY <1>3 DEF IndInv, LocksHeld
<1>11. LocksKept'
  <2>1. ASSUME NEW u \in Tasks, NEW i \in DOMAIN frames'[u], frames'[u][i] \in panicked
        PROVE  life[frames'[u][i]] = "released"
    BY <1>6, <2>1 DEF IndInv, LocksKept
  <2> QED  BY <2>1 DEF IndInv, LocksKept
<1> QED  BY <1>4, <1>5, <1>7, <1>8, <1>9, <1>10, <1>11 DEF IndInv

\* suspend_current.
LEMMA SuspendStep ==
    ASSUME IndInv, NEW w \in Workers, NEW t \in Tasks, Suspend(w, t)
    PROVE  IndInv'
<1>1. /\ on[w] = t /\ (iterBlocks \/ frames[t] = <<>>)
      /\ on' = [on EXCEPT ![w] = Nobody] /\ task' = [task EXCEPT ![t] = "ready"]
      /\ DropIsolated(w)
      /\ UNCHANGED <<yielder, frames, waits, raising, life, locked, outer, panicked, iterBlocks, process>>
  BY DEF Suspend, Running, generators
<1>2. TypeOK'
  <2>1. contexts' \in [Workers -> Seq(Tasks \cup Generators)]
    BY <1>1, StackTypes DEF IndInv, TypeOK, DropIsolated
  <2> QED  BY <1>1, <2>1 DEF IndInv, TypeOK
<1>3. /\ frames' \in [Tasks -> Seq(Generators)] /\ (~iterBlocks => frames[t] = <<>>)
      /\ \A u \in Tasks : u # t => frames'[u] = frames[u]
      /\ frames'[t] = frames[t] \/ frames'[t] = <<>>
      /\ \A u \in Tasks : task'[u] = task[u] \/ u = t
  BY <1>1 DEF IndInv, TypeOK
<1> QED  BY <1>1, <1>2, <1>3, PartStep

\* The task's body returns or is left by a panic. If no iter function blocks, the
\* innermost context is the task only outside of every generator.
LEMMA EndStep ==
    ASSUME IndInv, NEW w \in Workers, NEW t \in Tasks, on[w] = t, TaskEnds(w, t),
           frames[t] = <<>> \/ Context(w) = t
    PROVE  IndInv'
<1>1. /\ on' = [on EXCEPT ![w] = Nobody] /\ task' = [task EXCEPT ![t] = "finished"]
      /\ frames' = [frames EXCEPT ![t] = <<>>] /\ raising' = [raising EXCEPT ![t] = FALSE]
      /\ DropIsolated(w)
      /\ UNCHANGED <<yielder, waits, life, locked, outer, panicked, iterBlocks, process>>
  BY DEF TaskEnds, generators
<1>2. TypeOK'
  <2>1. contexts' \in [Workers -> Seq(Tasks \cup Generators)]
    BY <1>1, StackTypes DEF IndInv, TypeOK, DropIsolated
  <2>2. frames' \in [Tasks -> Seq(Generators)]
    BY <1>1 DEF IndInv, TypeOK
  <2> QED  BY <1>1, <2>1, <2>2 DEF IndInv, TypeOK
<1>3. ASSUME ~iterBlocks, frames[t] # <<>> PROVE FALSE
  <2>1. contexts[w] = <<t>> \o frames[t]
    BY <1>3 DEF IndInv, Locals, LocalsAt
  <2>2. frames[t] \in Seq(Generators)
    BY DEF IndInv, TypeOK
  <2>3. /\ Last(<<t>> \o frames[t]) = frames[t][Len(frames[t])]
        /\ Len(frames[t]) \in Nat /\ Len(frames[t]) > 0
    BY <1>3, <2>2, PopFrame
  <2>4. frames[t][Len(frames[t])] \in Generators
    BY <2>2, <2>3
  <2>5. Context(w) \in Generators \cup {Nobody}
    BY <2>1, <2>3, <2>4 DEF Context
  <2> QED  BY <1>3, <2>5
<1>4. /\ frames' \in [Tasks -> Seq(Generators)] /\ (~iterBlocks => frames[t] = <<>>)
      /\ \A u \in Tasks : u # t => frames'[u] = frames[u]
      /\ frames'[t] = frames[t] \/ frames'[t] = <<>>
      /\ \A u \in Tasks : task'[u] = task[u] \/ u = t
  BY <1>1, <1>2, <1>3 DEF IndInv, TypeOK
<1> QED  BY <1>1, <1>2, <1>4, PartStep

\* A task enters a generator that nobody is inside of, and closes it to others.
LEMMA EnterStep ==
    ASSUME IndInv, NEW w \in Workers, NEW t \in Tasks, NEW g \in Generators,
           on[w] = t, Enter(w, t, g), ~locked[g], life[g] = "some",
           life' \in [Generators -> {"some", "none", "released"}],
           locked' \in [Generators -> BOOLEAN], waits' \in [Tasks -> Generators \cup {None}],
           \A h \in Generators : h # g => life'[h] = life[h] /\ locked'[h] = locked[h],
           locked'[g] <=> life'[g] # "released",
           UNCHANGED <<on, task, raising, panicked, iterBlocks, process>>
    PROVE  IndInv'
<1>1. /\ outer' = [outer EXCEPT ![g] = yielder[w]] /\ yielder' = [yielder EXCEPT ![w] = g]
      /\ contexts' = [contexts EXCEPT ![w] = Append(@, g)]
      /\ frames' = [frames EXCEPT ![t] = Append(@, g)]
  BY DEF Enter, isolate
<1>2. TypeOK'
  <2>1. contexts' \in [Workers -> Seq(Tasks \cup Generators)] /\ frames' \in [Tasks -> Seq(Generators)]
    BY <1>1 DEF IndInv, TypeOK
  <2>2. outer' \in [Generators -> Generators \cup {None}] /\ yielder' \in [Workers -> Generators \cup {None}]
    BY <1>1 DEF IndInv, TypeOK
  <2> QED  BY <2>1, <2>2 DEF IndInv, TypeOK
<1>3. PICK f \in Seq(Generators) : f = frames[t]
  BY DEF IndInv, TypeOK
<1>4. /\ Append(f, g) # <<>> /\ DOMAIN f = 1..Len(f) /\ Len(f) \in Nat
      /\ DOMAIN Append(f, g) = 1..(Len(f) + 1)
      /\ \A i \in 1..Len(f) : Append(f, g)[i] = f[i]
      /\ Append(f, g)[Len(f) + 1] = g
      /\ InnerOf(Append(f, g)) = g
      /\ Append(<<t>> \o f, g) = <<t>> \o Append(f, g)
  BY PushFrame
<1>5. \A u \in Tasks : frames'[u] = IF u = t THEN Append(f, g) ELSE frames[u]
  BY <1>1, <1>3 DEF IndInv, TypeOK
<1>6. \A u \in Tasks : \A i \in DOMAIN frames[u] : frames[u][i] # g
  <2> SUFFICES ASSUME NEW u \in Tasks, NEW i \in DOMAIN frames[u], frames[u][i] = g PROVE FALSE
    OBVIOUS
  <2>1. locked[frames[u][i]] \/ life[frames[u][i]] = "released"
    BY DEF IndInv, Guarded
  <2>2. locked[g] \/ life[g] = "released"
    BY <2>1, Zenon
  <2>3. life[g] # "released"
    OBVIOUS
  <2> QED  BY <2>2, <2>3
<1>7. \A u \in Tasks, i \in Nat : i \in DOMAIN frames'[u] =>
        \/ i \in DOMAIN frames[u] /\ frames'[u][i] = frames[u][i]
        \/ u = t /\ i = Len(f) + 1 /\ frames'[u][i] = g
  <2> SUFFICES ASSUME NEW u \in Tasks, NEW i \in Nat, i \in DOMAIN frames'[u]
               PROVE  \/ i \in DOMAIN frames[u] /\ frames'[u][i] = frames[u][i]
                      \/ u = t /\ i = Len(f) + 1 /\ frames'[u][i] = g
    OBVIOUS
  <2>1. CASE u # t
    BY <1>5, <2>1
  <2>2. CASE u = t
    <3>1. frames'[u] = Append(f, g) /\ frames[u] = f
      BY <1>3, <1>5, <2>2
    <3>2. i \in 1..(Len(f) + 1)
      BY <1>4, <3>1
    <3>3. i \in 1..Len(f) \/ i = Len(f) + 1
      BY <1>4, <3>2
    <3> QED  BY <1>4, <2>2, <3>1, <3>3
  <2> QED  BY <2>1, <2>2
<1>8. \A u \in Tasks : DOMAIN frames'[u] \subseteq Nat /\ DOMAIN frames[u] \subseteq DOMAIN frames'[u]
                       /\ \A i \in DOMAIN frames[u] : frames'[u][i] = frames[u][i]
  <2>1. \A u \in Tasks : DOMAIN frames[u] = 1..Len(frames[u]) /\ Len(frames[u]) \in Nat
    BY LenProperties DEF IndInv, TypeOK
  <2> SUFFICES ASSUME NEW u \in Tasks
               PROVE  /\ DOMAIN frames'[u] \subseteq Nat /\ DOMAIN frames[u] \subseteq DOMAIN frames'[u]
                      /\ \A i \in DOMAIN frames[u] : frames'[u][i] = frames[u][i]
    OBVIOUS
  <2>2. CASE u # t
    BY <1>5, <2>1, <2>2
  <2>3. CASE u = t
    <3>1. frames'[u] = Append(f, g) /\ frames[u] = f
      BY <1>3, <1>5, <2>3
    <3>2. 1..Len(f) \subseteq 1..(Len(f) + 1) /\ 1..(Len(f) + 1) \subseteq Nat
      BY <1>4
    <3> QED  BY <1>4, <3>1, <3>2
  <2> QED  BY <2>2, <2>3
<1>9. Seats'
  BY <1>5 DEF IndInv, Seats, TypeOK
<1>10. Locals'
  <2> SUFFICES ASSUME ~iterBlocks, NEW v \in Workers PROVE LocalsAt(v)'
    BY DEF Locals
  <2>1. LocalsAt(w) /\ LocalsAt(v)
    BY DEF IndInv, Locals
  <2>2. CASE v = w
    <3>1. contexts[w] = <<t>> \o f
      BY <1>3, <2>1 DEF LocalsAt
    <3>2. contexts'[w] = Append(contexts[w], g) /\ yielder'[w] = g
      BY <1>1 DEF IndInv, TypeOK
    <3> QED  BY <1>4, <1>5, <2>2, <3>1, <3>2 DEF LocalsAt
  <2>3. CASE v # w
    <3>1. contexts'[v] = contexts[v] /\ yielder'[v] = yielder[v] /\ on[v] # t
      BY <1>1, <2>3 DEF IndInv, TypeOK, Seats
    <3>2. on[v] \in Tasks => frames'[on[v]] = frames[on[v]]
      BY <1>5, <3>1
    <3>3. on[v] \in Tasks \cup {Nobody}
      BY DEF IndInv, TypeOK
    <3> QED  BY <2>1, <3>1, <3>2, <3>3 DEF LocalsAt
  <2> QED  BY <2>2, <2>3
<1>11. OutersMatch'
  <2> SUFFICES ASSUME ~iterBlocks, NEW u \in Tasks, NEW i \in DOMAIN frames'[u]
               PROVE  outer'[frames'[u][i]] = Around(frames'[u], i)
    BY DEF OutersMatch
  <2>0. i \in Nat
    BY <1>8
  <2>1. CASE i \in DOMAIN frames[u] /\ frames'[u][i] = frames[u][i]
    <3>1. outer[frames[u][i]] = Around(frames[u], i) /\ frames[u][i] # g
      BY <1>6, <2>1 DEF IndInv, OutersMatch
    <3>2. frames[u][i] \in Generators
      BY <2>1 DEF IndInv, TypeOK
    <3>3. outer'[frames[u][i]] = outer[frames[u][i]]
      BY <1>1, <3>1, <3>2 DEF IndInv, TypeOK
    <3>4. i # 1 => i - 1 \in DOMAIN frames[u]
      <4>1. DOMAIN frames[u] = 1..Len(frames[u]) /\ Len(frames[u]) \in Nat
        BY LenProperties DEF IndInv, TypeOK
      <4> QED  BY <2>1, <4>1
    <3>5. Around(frames'[u], i) = Around(frames[u], i)
      BY <1>8, <3>4 DEF Around
    <3> QED  BY <2>1, <3>1, <3>3, <3>5
  <2>2. CASE u = t /\ i = Len(f) + 1 /\ frames'[u][i] = g
    <3>1. outer'[g] = yielder[w] /\ yielder[w] = InnerOf(f)
      BY <1>1, <1>3 DEF IndInv, TypeOK, Locals, LocalsAt
    <3>2. InnerOf(f) = Around(Append(f, g), i)
      <4>1. CASE f = <<>>
        BY <2>2, <4>1 DEF InnerOf, Around
      <4>2. CASE f # <<>>
        <5>1. Len(f) # 0
          BY <4>2, EmptySeq
        <5>2. i # 1 /\ i - 1 = Len(f) /\ Len(f) \in 1..Len(f)
          BY <1>4, <2>2, <5>1
        <5>3. Append(f, g)[i - 1] = f[Len(f)]
          BY <1>4, <5>2
        <5> QED  BY <4>2, <5>2, <5>3 DEF InnerOf, Around, Last
      <4> QED  BY <4>1, <4>2
    <3> QED  BY <1>5, <2>2, <3>1, <3>2
  <2> QED  BY <1>7, <2>0, <2>1, <2>2
<1>12. OncePerFrame'
  <2> SUFFICES ASSUME NEW u \in Tasks, NEW v \in Tasks,
                      NEW i \in DOMAIN frames'[u], NEW j \in DOMAIN frames'[v],
                      frames'[u][i] = frames'[v][j]
               PROVE  u = v /\ i = j
    BY DEF OncePerFrame
  <2>1. i \in Nat /\ j \in Nat
    BY <1>8
  <2> QED  BY <1>6, <1>7, <2>1 DEF IndInv, OncePerFrame
<1>13. Guarded'
  <2> SUFFICES ASSUME NEW u \in Tasks, NEW i \in DOMAIN frames'[u]
               PROVE  locked'[frames'[u][i]] \/ life'[frames'[u][i]] = "released"
    BY DEF Guarded
  <2>1. i \in Nat
    BY <1>8
  <2>2. i \in DOMAIN frames[u] => frames[u][i] \in Generators
    BY DEF IndInv, TypeOK
  <2>3. CASE i \in DOMAIN frames[u] /\ frames'[u][i] = frames[u][i]
    <3>1. locked[frames[u][i]] \/ life[frames[u][i]] = "released"
      BY <2>3 DEF IndInv, Guarded
    <3>2. /\ life'[frames[u][i]] = life[frames[u][i]]
          /\ locked'[frames[u][i]] = locked[frames[u][i]]
      BY <1>6, <2>2, <2>3
    <3> QED  BY <2>3, <3>1, <3>2, Zenon
  <2>4. CASE u = t /\ i = Len(f) + 1 /\ frames'[u][i] = g
    BY <2>4, Zenon
  <2> QED  BY <1>7, <2>1, <2>3, <2>4
<1>14. LocksHeld'
  <2>0. frames'[t] = Append(f, g)
    BY <1>5
  <2>1. Len(f) + 1 \in 1..(Len(f) + 1)
    BY <1>4
  <2>2. Len(f) + 1 \in DOMAIN frames'[t] /\ frames'[t][Len(f) + 1] = g
    BY <1>4, <2>0, <2>1
  <2> SUFFICES ASSUME ~iterBlocks, NEW h \in Generators, locked'[h], h \notin panicked
               PROVE  \E u \in Tasks : \E i \in DOMAIN frames'[u] : frames'[u][i] = h
    BY DEF LocksHeld
  <2>3. CASE h = g
    BY <2>2, <2>3
  <2>4. CASE h # g
    <3>1. locked[h]
      BY <2>4 DEF IndInv, TypeOK
    <3>2. PICK u \in Tasks : \E i \in DOMAIN frames[u] : frames[u][i] = h
      BY <3>1, Zenon DEF IndInv, LocksHeld
    <3>3. PICK i \in DOMAIN frames[u] : frames[u][i] = h
      BY <3>2
    <3>4. i \in DOMAIN frames'[u] /\ frames'[u][i] = h
      BY <1>8, <3>3
    <3> QED  BY <3>4
  <2> QED  BY <2>3, <2>4
<1>15. LocksKept'
  <2>1. g \notin panicked
    BY DEF IndInv, LocksKept
  <2>2. ASSUME NEW h \in Generators
        PROVE  /\ h \in panicked => locked'[h] \/ life'[h] = "released"
               /\ life'[h] = "released" => ~locked'[h]
    <3>1. CASE h = g
      BY <2>1, <3>1, Zenon
    <3>2. CASE h # g
      BY <3>2, Zenon DEF IndInv, LocksKept
    <3> QED  BY <3>1, <3>2
  <2>3. ASSUME NEW u \in Tasks, NEW i \in DOMAIN frames'[u], frames'[u][i] \in panicked
        PROVE  life'[frames'[u][i]] = "released"
    <3>1. i \in Nat /\ frames'[u][i] # g
      BY <1>8, <2>1, <2>3
    <3>2. i \in DOMAIN frames[u] /\ frames'[u][i] = frames[u][i]
      BY <1>7, <3>1
    <3>3. frames[u][i] \in Generators /\ life[frames[u][i]] = "released"
      BY <2>3, <3>2 DEF IndInv, TypeOK, LocksKept
    <3> QED  BY <3>1, <3>2, <3>3
  <2> QED  BY <2>2, <2>3 DEF LocksKept
<1> QED  BY <1>2, <1>9, <1>10, <1>11, <1>12, <1>13, <1>14, <1>15 DEF IndInv

\* A task leaves its innermost generator, unlocking it or having panicked in it.
LEMMA LeaveStep ==
    ASSUME IndInv, NEW w \in Workers, NEW t \in Tasks, NEW g \in Generators,
           on[w] = t, g = Inner(t), Leave(w, t, g),
           life' \in [Generators -> {"some", "none", "released"}],
           locked' \in [Generators -> BOOLEAN], raising' \in [Tasks -> BOOLEAN],
           \A h \in Generators : h # g => life'[h] = life[h] /\ locked'[h] = locked[h],
           life'[g] = "released" <=> life[g] = "released",
           \/ panicked' = panicked /\ ~locked'[g]
           \/ panicked' = panicked \cup {g} /\ locked' = locked,
           UNCHANGED <<on, task, waits, outer, iterBlocks, process>>
    PROVE  IndInv'
<1>1. /\ yielder' = [yielder EXCEPT ![w] = outer[g]]
      /\ contexts' = [contexts EXCEPT ![w] = Popped(@)]
      /\ frames' = [frames EXCEPT ![t] = Front(@)]
  BY DEF Leave, DropIsolated
<1>2. PICK f \in Seq(Generators) : f = frames[t]
  BY DEF IndInv, TypeOK
<1>3. f # <<>> /\ g = Last(f)
  BY <1>2 DEF Inner, None
<1>4. /\ Front(f) \in Seq(Generators) /\ Len(f) \in Nat /\ Len(f) > 0
      /\ DOMAIN f = 1..Len(f) /\ DOMAIN Front(f) = 1..(Len(f) - 1)
      /\ \A i \in 1..(Len(f) - 1) : Front(f)[i] = f[i]
      /\ InnerOf(f) = f[Len(f)]
      /\ InnerOf(Front(f)) = Around(f, Len(f))
      /\ Popped(<<t>> \o f) = <<t>> \o Front(f)
  BY <1>3, PopFrame
<1>5. /\ g = f[Len(f)] /\ Len(f) \in DOMAIN f
      /\ DOMAIN Front(f) \subseteq DOMAIN f /\ Len(f) \notin DOMAIN Front(f)
  BY <1>3, <1>4 DEF Last
<1>6. \A u \in Tasks : frames'[u] = IF u = t THEN Front(f) ELSE frames[u]
  BY <1>1, <1>2 DEF IndInv, TypeOK
<1>7. TypeOK'
  <2>1. contexts' \in [Workers -> Seq(Tasks \cup Generators)]
    BY <1>1, StackTypes DEF IndInv, TypeOK
  <2>2. frames' \in [Tasks -> Seq(Generators)]
    BY <1>1, <1>2, <1>4 DEF IndInv, TypeOK
  <2>3. yielder' \in [Workers -> Generators \cup {None}]
    BY <1>1 DEF IndInv, TypeOK
  <2> QED  BY <2>1, <2>2, <2>3 DEF IndInv, TypeOK
<1>8. \A u \in Tasks : /\ DOMAIN frames'[u] \subseteq DOMAIN frames[u]
                       /\ \A i \in DOMAIN frames'[u] : frames'[u][i] = frames[u][i]
  BY <1>2, <1>4, <1>5, <1>6
<1>9. \A u \in Tasks : \A i \in DOMAIN frames'[u] : frames'[u][i] \in Generators /\ frames'[u][i] # g
  <2> SUFFICES ASSUME NEW u \in Tasks, NEW i \in DOMAIN frames'[u]
               PROVE  frames'[u][i] \in Generators /\ frames'[u][i] # g
    OBVIOUS
  <2>1. frames'[u][i] \in Generators
    BY <1>7 DEF TypeOK
  <2>2. ASSUME frames'[u][i] = g PROVE FALSE
    <3>1. i \in DOMAIN frames[u] /\ frames[u][i] = frames[t][Len(f)] /\ Len(f) \in DOMAIN frames[t]
      BY <1>2, <1>5, <1>8, <2>2
    <3>2. u = t /\ i = Len(f)
      BY <3>1 DEF IndInv, OncePerFrame
    <3> QED  BY <1>5, <1>6, <3>2
  <2> QED  BY <2>1, <2>2
<1>10. Seats'
  <2>1. ~iterBlocks => \A u \in Tasks : task[u] # "running" => frames'[u] = <<>>
    <3>1. task[t] = "running"
      BY DEF IndInv, Seats
    <3> QED  BY <1>6, <3>1 DEF IndInv, Seats
  <2> QED  BY <2>1 DEF IndInv, Seats
<1>11. Locals'
  <2> SUFFICES ASSUME ~iterBlocks, NEW v \in Workers PROVE LocalsAt(v)'
    BY DEF Locals
  <2>1. LocalsAt(w) /\ LocalsAt(v)
    BY DEF IndInv, Locals
  <2>2. CASE v = w
    <3>1. contexts[w] = <<t>> \o f
      BY <1>2, <2>1 DEF LocalsAt
    <3>2. contexts'[w] = Popped(contexts[w]) /\ yielder'[w] = outer[g]
      BY <1>1 DEF IndInv, TypeOK
    <3>3. outer[g] = Around(f, Len(f))
      BY <1>2, <1>5 DEF IndInv, OutersMatch
    <3> QED  BY <1>4, <1>6, <2>2, <3>1, <3>2, <3>3 DEF LocalsAt
  <2>3. CASE v # w
    <3>1. contexts'[v] = contexts[v] /\ yielder'[v] = yielder[v] /\ on[v] # t
      BY <1>1, <2>3 DEF IndInv, TypeOK, Seats
    <3>2. on[v] \in Tasks => frames'[on[v]] = frames[on[v]]
      BY <1>6, <3>1
    <3>3. on[v] \in Tasks \cup {Nobody}
      BY DEF IndInv, TypeOK
    <3> QED  BY <2>1, <3>1, <3>2, <3>3 DEF LocalsAt
  <2> QED  BY <2>2, <2>3
<1>12. OutersMatch'
  <2> SUFFICES ASSUME ~iterBlocks, NEW u \in Tasks, NEW i \in DOMAIN frames'[u]
               PROVE  outer[frames'[u][i]] = Around(frames'[u], i)
    BY DEF OutersMatch
  <2>1. i \in DOMAIN frames[u] /\ frames'[u][i] = frames[u][i]
    BY <1>8
  <2>2. outer[frames[u][i]] = Around(frames[u], i)
    BY <2>1 DEF IndInv, OutersMatch
  <2>3. i # 1 => i - 1 \in DOMAIN frames'[u]
    <3>1. DOMAIN frames'[u] = 1..Len(frames'[u]) /\ Len(frames'[u]) \in Nat
      BY <1>7, LenProperties DEF TypeOK
    <3> QED  BY <3>1
  <2>4. Around(frames'[u], i) = Around(frames[u], i)
    BY <1>8, <2>3 DEF Around
  <2> QED  BY <2>1, <2>2, <2>4
<1>13. OncePerFrame'
  BY <1>8 DEF IndInv, OncePerFrame
<1>14. Guarded'
  <2> SUFFICES ASSUME NEW u \in Tasks, NEW i \in DOMAIN frames'[u]
               PROVE  locked'[frames'[u][i]] \/ life'[frames'[u][i]] = "released"
    BY DEF Guarded
  <2>1. i \in DOMAIN frames[u] /\ frames'[u][i] = frames[u][i]
    BY <1>8
  <2>2. locked[frames[u][i]] \/ life[frames[u][i]] = "released"
    BY <2>1 DEF IndInv, Guarded
  <2>3. /\ life'[frames'[u][i]] = life[frames'[u][i]]
        /\ locked'[frames'[u][i]] = locked[frames'[u][i]]
    BY <1>9
  <2> QED  BY <2>1, <2>2, <2>3, Zenon
<1>15. LocksHeld'
  <2> SUFFICES ASSUME ~iterBlocks, NEW h \in Generators, locked'[h], h \notin panicked'
               PROVE  \E u \in Tasks : \E i \in DOMAIN frames'[u] : frames'[u][i] = h
    BY DEF LocksHeld
  <2>1. h # g
    OBVIOUS
  <2>2. locked[h] /\ h \notin panicked
    BY <2>1
  <2>a. PICK u \in Tasks : \E i \in DOMAIN frames[u] : frames[u][i] = h
    BY <2>2 DEF IndInv, LocksHeld
  <2>3. PICK i \in DOMAIN frames[u] : frames[u][i] = h
    BY <2>a
  <2>4. CASE u # t
    BY <1>6, <2>3, <2>4
  <2>5. CASE u = t
    <3>1. i \in 1..Len(f) /\ i # Len(f)
      BY <1>2, <1>4, <1>5, <2>1, <2>3, <2>5
    <3>2. i \in DOMAIN Front(f) /\ Front(f)[i] = f[i]
      BY <1>4, <3>1
    <3> QED  BY <1>2, <1>6, <2>3, <2>5, <3>2
  <2> QED  BY <2>4, <2>5
<1>16. LocksKept'
  <2>0. /\ locked[g] \/ life[g] = "released"
        /\ g \in panicked => life[g] = "released"
    <3>1. Len(f) \in DOMAIN frames[t] /\ frames[t][Len(f)] = g
      BY <1>2, <1>5
    <3>2. locked[frames[t][Len(f)]] \/ life[frames[t][Len(f)]] = "released"
      BY <3>1 DEF IndInv, Guarded
    <3>3. frames[t][Len(f)] \in panicked => life[frames[t][Len(f)]] = "released"
      BY <3>1 DEF IndInv, LocksKept
    <3> QED  BY <3>1, <3>2, <3>3, Zenon
  <2>1. ASSUME NEW h \in Generators
        PROVE  /\ h \in panicked' => locked'[h] \/ life'[h] = "released"
               /\ life'[h] = "released" => ~locked'[h]
    <3>1. CASE h = g
      <4>1. CASE panicked' = panicked /\ ~locked'[g]
        BY <2>0, <3>1, <4>1
      <4>2. CASE panicked' = panicked \cup {g} /\ locked' = locked
        BY <2>0, <3>1, <4>2, Zenon DEF IndInv, LocksKept
      <4> QED  BY <4>1, <4>2
    <3>2. CASE h # g
      <4>1. h \in panicked' => h \in panicked
        BY <3>2
      <4> QED  BY <3>2, <4>1, Zenon DEF IndInv, LocksKept
    <3> QED  BY <3>1, <3>2
  <2>2. ASSUME NEW u \in Tasks, NEW i \in DOMAIN frames'[u], frames'[u][i] \in panicked'
        PROVE  life'[frames'[u][i]] = "released"
    <3>1. /\ i \in DOMAIN frames[u] /\ frames'[u][i] = frames[u][i]
          /\ frames'[u][i] \in Generators /\ frames'[u][i] # g
      BY <1>8, <1>9
    <3>2. frames[u][i] \in panicked
      BY <2>2, <3>1
    <3>3. life[frames[u][i]] = "released"
      BY <3>1, <3>2 DEF IndInv, LocksKept
    <3> QED  BY <3>1, <3>3
  <2> QED  BY <2>1, <2>2 DEF LocksKept
<1> QED  BY <1>7, <1>10, <1>11, <1>12, <1>13, <1>14, <1>15, <1>16 DEF IndInv

-----------------------------------------------------------------------------

\* The generator's own steps: yield and return.
LEMMA GeneratorSteps ==
    ASSUME IndInv, NEW w \in Workers, NEW t \in Tasks, NEW g \in Generators,
           Yield(w, t, g) \/ GeneratorReturns(w, t, g)
    PROVE  IndInv'
<1>1. on[w] = t /\ g = Inner(t)
  BY DEF Yield, GeneratorReturns, Running
<1>2. CASE Yield(w, t, g) /\ yielder[w] # g
  <2>1. process' \in {"up", "exited", "aborted", "undefined"}
        /\ UNCHANGED <<on, contexts, yielder, task, frames, waits, raising, life, locked, outer, panicked, iterBlocks>>
    BY <1>2 DEF Yield
  <2>2. TypeOK'
    BY <2>1 DEF IndInv, TypeOK
  <2> QED  BY <2>1, <2>2, QuietStep
<1>3. CASE (Yield(w, t, g) /\ yielder[w] = g) \/ GeneratorReturns(w, t, g)
  <2>1. /\ Leave(w, t, g) /\ locked' = [locked EXCEPT ![g] = FALSE]
        /\ UNCHANGED <<on, task, waits, raising, outer, panicked, iterBlocks, process>>
    BY <1>3 DEF Yield, GeneratorReturns
  <2>2. /\ life' \in [Generators -> {"some", "none", "released"}]
        /\ \A h \in Generators : h # g => life'[h] = life[h]
        /\ life'[g] = "released" <=> life[g] = "released"
    BY <1>3 DEF Yield, GeneratorReturns, IndInv, TypeOK
  <2>3. /\ locked' \in [Generators -> BOOLEAN] /\ ~locked'[g]
        /\ \A h \in Generators : h # g => locked'[h] = locked[h]
    BY <2>1 DEF IndInv, TypeOK
  <2>4. raising' \in [Tasks -> BOOLEAN] /\ panicked' = panicked
    BY <2>1 DEF IndInv, TypeOK
  <2>5. (panicked' = panicked /\ ~locked'[g]) \/ (panicked' = panicked \cup {g} /\ locked' = locked)
    BY <2>3, <2>4
  <2> QED  BY <1>1, <2>1, <2>2, <2>3, <2>4, <2>5, LeaveStep
<1> QED  BY <1>2, <1>3

\* abandon, called by the program's code or by a resumer that raises again.
LEMMA RaiseStep ==
    ASSUME IndInv, NEW w \in Workers, NEW t \in Tasks, on[w] = t, Raise(w, t)
    PROVE  IndInv'
<1>1. CASE RaiseInTask(w, t)
  BY <1>1, EndStep DEF RaiseInTask
<1>2. ASSUME NEW g \in Generators, RaiseInGenerator(w, t, g) PROVE IndInv'
  <2>1. /\ g = Inner(t) /\ Leave(w, t, g) /\ raising' = [raising EXCEPT ![t] = TRUE]
        /\ panicked' = panicked \cup {g}
        /\ UNCHANGED <<iterBlocks, on, task, waits, life, locked, outer, process>>
    BY <1>2 DEF RaiseInGenerator
  <2>2. raising' \in [Tasks -> BOOLEAN]
    BY <2>1 DEF IndInv, TypeOK
  <2>3. /\ life' \in [Generators -> {"some", "none", "released"}]
        /\ locked' \in [Generators -> BOOLEAN]
        /\ \A h \in Generators : h # g => life'[h] = life[h] /\ locked'[h] = locked[h]
    BY <2>1 DEF IndInv, TypeOK
  <2> QED  BY <2>1, <2>2, <2>3, LeaveStep
<1>3. CASE RaiseElsewhere(w, t)
  <2>1. process' \in {"up", "exited", "aborted", "undefined"}
        /\ UNCHANGED <<on, contexts, yielder, task, frames, waits, raising, life, locked, outer, panicked, iterBlocks>>
    BY <1>3 DEF RaiseElsewhere, generators
  <2>2. TypeOK'
    BY <2>1 DEF IndInv, TypeOK
  <2> QED  BY <2>1, <2>2, QuietStep
<1> QED  BY <1>1, <1>2, <1>3 DEF Raise

\* paco_rt_generator_next, and the release of the last handle.
LEMMA CallSteps ==
    ASSUME IndInv, NEW w \in Workers, NEW t \in Tasks, NEW g \in Generators,
           CallNext(w, t, g) \/ NextLocked(w, t, g) \/ Release(w, t, g)
    PROVE  IndInv'
<1>1. CASE CallNext(w, t, g) \/ (NextLocked(w, t, g) /\ life[g] # "some")
  <2>1. UNCHANGED <<on, contexts, yielder, task, frames, raising, life, locked, outer, panicked, iterBlocks, process>>
        /\ (waits' = [waits EXCEPT ![t] = g] \/ waits' = [waits EXCEPT ![t] = None])
    BY <1>1 DEF CallNext, NextLocked, generators
  <2>a. waits' \in [Tasks -> Generators \cup {None}]
    BY <2>1 DEF IndInv, TypeOK
  <2>2. TypeOK'
    BY <2>1, <2>a DEF IndInv, TypeOK
  <2> QED  BY <2>1, <2>2, QuietStep
<1>2. CASE NextLocked(w, t, g) /\ life[g] = "some"
  <2>1. /\ on[w] = t /\ ~locked[g] /\ Enter(w, t, g)
        /\ locked' = [locked EXCEPT ![g] = TRUE] /\ waits' = [waits EXCEPT ![t] = None]
        /\ UNCHANGED <<iterBlocks, on, task, raising, life, panicked, process>>
    BY <1>2 DEF NextLocked
  <2>2. /\ life' \in [Generators -> {"some", "none", "released"}]
        /\ locked' \in [Generators -> BOOLEAN] /\ waits' \in [Tasks -> Generators \cup {None}]
        /\ \A h \in Generators : h # g => life'[h] = life[h] /\ locked'[h] = locked[h]
        /\ locked'[g] /\ life'[g] # "released"
    BY <1>2, <2>1 DEF IndInv, TypeOK
  <2> QED  BY <1>2, <2>1, <2>2, EnterStep
<1>3. CASE Release(w, t, g)
  <2>1. /\ on[w] = t /\ ~locked[g] /\ Enter(w, t, g) /\ life[g] = "some"
        /\ life' = [life EXCEPT ![g] = "released"]
        /\ UNCHANGED <<iterBlocks, on, task, waits, raising, locked, panicked, process>>
    BY <1>3 DEF Release, Running
  <2>2. /\ life' \in [Generators -> {"some", "none", "released"}]
        /\ locked' \in [Generators -> BOOLEAN] /\ waits' \in [Tasks -> Generators \cup {None}]
        /\ \A h \in Generators : h # g => life'[h] = life[h] /\ locked'[h] = locked[h]
        /\ life'[g] = "released" /\ ~locked'[g]
    BY <2>1 DEF IndInv, TypeOK
  <2> QED  BY <2>1, <2>2, EnterStep
<1> QED  BY <1>1, <1>2, <1>3

\* The invariant is inductive.
THEOREM Invariance == Safety => []IndInv
<1>1. IndInv /\ [Next]_vars => IndInv'
  <2> SUFFICES ASSUME IndInv, [Next]_vars PROVE IndInv'
    OBVIOUS
  <2>1. ASSUME NEW w \in Workers, RuntimeStep(w) PROVE IndInv'
    BY <2>1, RaiseStep, CallSteps DEF RuntimeStep, RaiseAgain
  <2>2. ASSUME NEW w \in Workers, NEW t \in Tasks, Resume(w, t) PROVE IndInv'
    BY <2>2, ResumeStep
  <2>3. ASSUME NEW w \in Workers, NEW t \in Tasks, BodyStep(w, t) PROVE IndInv'
    <3>1. ASSUME Return(w, t) PROVE IndInv'
      BY <3>1, EndStep DEF Return, Running
    <3>2. ASSUME Panic(w, t) PROVE IndInv'
      BY <3>2, RaiseStep DEF Panic, Running
    <3> QED  BY <2>3, <3>1, <3>2, SuspendStep, CallSteps, GeneratorSteps DEF BodyStep
  <2>4. ASSUME UNCHANGED vars PROVE IndInv'
    <3>1. UNCHANGED <<on, contexts, yielder, task, frames, waits, raising, life, locked, outer,
                      panicked, iterBlocks, process>>
      BY <2>4 DEF vars, generators
    <3>2. TypeOK'
      BY <3>1 DEF IndInv, TypeOK
    <3> QED  BY <3>1, <3>2, QuietStep
  <2> QED  BY <2>1, <2>2, <2>3, <2>4 DEF Next
<1> QED  BY <1>1, InitIndInv, PTL DEF Safety

\* A panic finds the context it needs, and a yield the generator it is in.
Alive == ~iterBlocks => process = "up"

\* The two places where the process could go down are not reached.
LEMMA AliveStep ==
    ASSUME IndInv, Alive, [Next]_vars
    PROVE  Alive'
<1> SUFFICES ASSUME ~iterBlocks', process # process' PROVE FALSE
  <2>1. iterBlocks' = iterBlocks
    BY DEF Next, RuntimeStep, BodyStep, Resume, Suspend, Return, TaskEnds, Panic, RaiseAgain,
           Raise, RaiseInTask, RaiseInGenerator, RaiseElsewhere, CallNext, NextLocked, Release,
           Yield, GeneratorReturns, generators, vars
  <2> QED  BY <2>1 DEF Alive
<1>1. PICK w \in Workers, t \in Tasks :
        /\ on[w] = t /\ UNCHANGED iterBlocks
        /\ \/ Running(w, t) /\ RaiseElsewhere(w, t)
           \/ RaiseAgain(w, t) /\ RaiseElsewhere(w, t)
           \/ \E g \in Generators : Yield(w, t, g) /\ yielder[w] # g
  BY DEF Next, RuntimeStep, BodyStep, Resume, Suspend, Return, TaskEnds, Panic, RaiseAgain,
         Raise, RaiseInTask, RaiseInGenerator, RaiseElsewhere, CallNext, NextLocked, Release,
         Yield, GeneratorReturns, Running, generators, vars
<1>2. on[w] # Nobody /\ ~iterBlocks
  BY <1>1
<1>3. contexts[w] = <<t>> \o frames[t] /\ yielder[w] = InnerOf(frames[t])
  BY <1>1, <1>2 DEF IndInv, Locals, LocalsAt
<1>4. InnerOf(frames[t]) = Inner(t) /\ frames[t] \in Seq(Generators)
  BY DEF InnerOf, Inner, IndInv, TypeOK
<1>5. ~ \E g \in Generators : Yield(w, t, g) /\ yielder[w] # g
  BY <1>3, <1>4 DEF Yield
<1>6. ~ RaiseElsewhere(w, t)
  <2>1. CASE frames[t] = <<>>
    <3>1. contexts[w] = <<t>>
      BY <1>3, <2>1, EmptyNest
    <3>2. Context(w) = t
      BY <3>1 DEF Context, Last
    <3> QED  BY <3>2 DEF RaiseElsewhere
  <2>2. CASE frames[t] # <<>>
    <3>1. Last(contexts[w]) = Inner(t) /\ Inner(t) # None /\ contexts[w] # <<>>
      <4>1. Last(<<t>> \o frames[t]) = frames[t][Len(frames[t])]
        BY <1>4, <2>2, PopFrame
      <4>2. /\ InnerOf(frames[t]) = frames[t][Len(frames[t])]
            /\ Len(frames[t]) \in Nat /\ Len(frames[t]) > 0
        BY <1>4, <2>2, PopFrame
      <4>3. frames[t][Len(frames[t])] \in Generators
        BY <1>4, <4>2
      <4>4. contexts[w] # <<>>
        BY <1>3, <1>4, <2>2, EmptySeq
      <4> QED  BY <1>3, <1>4, <4>1, <4>2, <4>3, <4>4
    <3>2. Context(w) = Inner(t)
      BY <3>1 DEF Context
    <3> QED  BY <3>1, <3>2 DEF RaiseElsewhere
  <2> QED  BY <2>1, <2>2
<1> QED  BY <1>1, <1>5, <1>6

\* The thread locals name the coroutines that run, and therefore no panic and no
\* yield takes the process down, unless iter functions block.
THEOREM LocalsAlwaysMatch == Safety => []LocalsMatch
<1>1. IndInv /\ Alive => LocalsMatch
  BY DEF IndInv, Alive, Locals, LocalsAt, LocalsMatch, InnerOf, Inner, TypeOK
<1>2. Init => Alive
  BY DEF Init, Alive
<1>3. IndInv /\ Alive /\ [Next]_vars => Alive'
  BY AliveStep
<1> QED  BY <1>1, <1>2, <1>3, Invariance, PTL DEF Safety

\* A set in which all elements are equal has at most one.
LEMMA AtMostOne ==
    ASSUME NEW S, \A x, y \in S : x = y
    PROVE  Cardinality(S) <= 1
<1>1. CASE S = {}
  BY <1>1, FS_EmptySet
<1>2. ASSUME NEW x \in S PROVE Cardinality(S) <= 1
  <2>1. S = {x}
    OBVIOUS
  <2> QED  BY <2>1, FS_Singleton
<1> QED  BY <1>1, <1>2

\* No generator is driven by two calls, whether iter functions block or not, and
\* its mutex is held by the call inside it, or for good by one that panicked.
THEOREM DrivenByOne == Safety => []OneDriver
<1>1. IndInv => OneDriver
  <2> SUFFICES ASSUME IndInv PROVE OneDriver
    OBVIOUS
  <2>1. \A g \in Generators : \A p : p \in Inside(g) <=>
          \E t \in Tasks : \E i \in DOMAIN frames[t] : frames[t][i] = g /\ p = <<t, i>>
    BY DEF Inside
  <2>2. ASSUME NEW g \in Generators PROVE Cardinality(Inside(g)) <= 1
    <3>1. \A p, q \in Inside(g) : p = q
      BY <2>1 DEF IndInv, OncePerFrame
    <3> QED  BY <3>1, AtMostOne
  <2>3. ASSUME NEW g \in Generators
        PROVE  Inside(g) # {} <=> \E t \in Tasks : \E i \in DOMAIN frames[t] : frames[t][i] = g
    <3>1. ASSUME NEW t \in Tasks, NEW i \in DOMAIN frames[t], frames[t][i] = g PROVE Inside(g) # {}
      <4>1. <<t, i>> \in Inside(g)
        BY <2>1, <3>1
      <4> QED  BY <4>1
    <3>2. ASSUME NEW p \in Inside(g)
          PROVE  \E t \in Tasks : \E i \in DOMAIN frames[t] : frames[t][i] = g
      BY <2>1, <3>2
    <3> QED  BY <3>1, <3>2, Zenon
  <2>4. HeldByNext
    <3> SUFFICES ASSUME NEW g \in Generators
                 PROVE  /\ Inside(g) # {} \/ g \in panicked => locked[g] \/ life[g] = "released"
                        /\ locked[g] => /\ life[g] # "released"
                                        /\ Inside(g) # {} \/ g \in panicked \/ iterBlocks
      BY DEF HeldByNext
    <3>1. ASSUME Inside(g) # {} PROVE locked[g] \/ life[g] = "released"
      <4>a. PICK t \in Tasks : \E i \in DOMAIN frames[t] : frames[t][i] = g
        BY <2>3, <3>1
      <4>1. PICK i \in DOMAIN frames[t] : frames[t][i] = g
        BY <4>a
      <4> QED  BY <4>1, Zenon DEF IndInv, Guarded
    <3>2. /\ g \in panicked => locked[g] \/ life[g] = "released"
          /\ life[g] = "released" => ~locked[g]
      BY Zenon DEF IndInv, LocksKept
    <3>3. ASSUME locked[g], g \notin panicked, ~iterBlocks PROVE Inside(g) # {}
      BY <2>3, <3>3, Zenon DEF IndInv, LocksHeld
    <3> QED  BY <3>1, <3>2, <3>3, Zenon
  <2> QED  BY <2>2, <2>4 DEF OneDriver
<1> QED  BY <1>1, Invariance, PTL
=============================================================================
