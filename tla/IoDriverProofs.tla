--------------------------- MODULE IoDriverProofs ---------------------------
(***************************************************************************)
(* For any number of callers, descriptors and calls: the driver loses no   *)
(* wake-up and no timer, and wakes a caller once per call, never before    *)
(* the deadline it asked for or without an event of its call.              *)
(***************************************************************************)
EXTENDS IoDriver, FiniteSetTheorems, WellFoundedInduction, TLAPS

\* A key belongs to one call. An entry of `waiters` may outlive its call, but not
\* be taken for one of another.
Keys ==
    /\ \A a \in Actors :
        /\ key[a] < next_key
        /\ key[a] # NoKey <=> pc[a] \in {"add", "parkFd", "delete"}
    /\ \A a, b \in Actors : key[a] = key[b] /\ key[a] # NoKey => a = b
    /\ \A w \in waiters : w[1] < next_key /\ \A a \in Actors : key[a] = w[1] => a = w[2]

\* The poller watches a descriptor for the call between its add and its delete,
\* and only for such calls are there events; none is left when the next wait begins.
Registrations ==
    /\ \A f \in Fds : registered[f] # NoKey =>
        \E a \in Actors : /\ key[a] = registered[f] /\ fd[a] = f
                          /\ pc[a] \in {"parkFd", "delete"}
    /\ \A a \in Actors : pc[a] \in {"parkFd", "delete"} => registered[fd[a]] = key[a]
    /\ \A f \in armed : registered[f] # NoKey
    /\ \A k \in events :
        k < next_key /\ \A a \in Actors : key[a] = k => pc[a] \in {"parkFd", "delete"}
    /\ \A a \in Actors : key[a] \in events => fd[a] \notin armed
    /\ poll # "events" => events = {}
    /\ \A a \in Actors : pc[a] = "add" => <<key[a], a>> \in waiters

\* The callers whose parks have all ended with a wake-up.
Steady(a) == a \in Tasks \/ spurious = 0

\* The events, timers and wake-ups of such a caller are those of the call it is in:
\* one entry or one wake-up, and that not too early. The entries its failed calls left
\* in `waiters` have no event.
CallTokens(a) ==
    /\ \A k \in events : <<k, a>> \in waiters => k = key[a]
    /\ \A x \in timers : x[2] = a => x[1] = deadline[a] /\ pc[a] \in {"notifyPoll", "sleeping"}
    /\ woken[a] \in {0, 1}
    /\ pc[a] \in {"idle", "add", "delete"} => woken[a] = 0
    /\ pc[a] = "delete" => <<key[a], a>> \notin waiters
    /\ pc[a] = "parkFd" =>
        /\ woken[a] = 0 <=> <<key[a], a>> \in waiters
        /\ woken[a] = 1 => fd[a] \notin armed
    /\ pc[a] \in {"notifyPoll", "sleeping"} =>
        /\ woken[a] = 0 <=> <<deadline[a], a>> \in timers
        /\ woken[a] = 1 => clock >= deadline[a]

Tokens == \A a \in Actors : Steady(a) => CallTokens(a)

\* The time the poll thread read is not in the future.
NowPast == now <= clock

\* The inductive invariant.
IndInv ==
    /\ TypeOK /\ Keys /\ Registrations
    /\ NoLostFdWakeup /\ Tokens
    /\ NoMissedTimer /\ NowPast

-----------------------------------------------------------------------------

USE BoundsAssumption

\* The earliest timer exists, and peek returns it.
LEMMA EarliestTimer ==
    ASSUME timers \subseteq (0..MaxTime) \X Actors
    PROVE  NextDeadline \in 0..Never /\ \A t \in timers : NextDeadline <= t[1]
<1>1. CASE timers = {}
  BY <1>1 DEF NextDeadline, Never
<1>2. CASE timers # {}
  <2> DEFINE T == {t[1] : t \in timers}
             R == OpToRel(<, Nat)
  <2>1. T \subseteq 0..MaxTime /\ T \subseteq Nat /\ T # {}
    BY <1>2
  <2>2. \A x, y \in Nat : <<y, x>> \in R <=> y < x
    BY DEF OpToRel
  <2>3. IsWellFoundedOn(R, Nat)
    BY NatLessThanWellFounded
  <2> HIDE DEF R
  <2>4. \E x \in T : \A y \in T : ~(<<y, x>> \in R)
    BY <2>1, <2>3, WFMin
  <2> HIDE DEF T
  <2>5. PICK x \in T : \A y \in T : x <= y
    <3>1. PICK x \in T : \A y \in T : ~(<<y, x>> \in R)
      BY <2>4
    <3>2. \A y \in T : x \in Nat /\ y \in Nat /\ ~(y < x)
      BY <2>1, <2>2, <3>1
    <3>3. \A y \in T : x <= y
      BY <3>2
    <3> QED  BY <3>3
  <2> USE DEF T
  <2>6. /\ \E t \in timers : t[1] = x
        /\ \A t \in timers : x <= t[1]
        /\ x \in 0..MaxTime
    BY <2>1, <2>5
  <2>7. /\ NextDeadline \in 0..MaxTime
        /\ \A t \in timers : NextDeadline <= t[1]
    BY <1>2, <2>6 DEF NextDeadline
  <2> QED  BY <2>7 DEF Never
<1> QED  BY <1>1, <1>2

\* The invariant holds of a driver nobody has called.
LEMMA InitIndInv == Init => IndInv
<1> SUFFICES ASSUME Init PROVE IndInv
  OBVIOUS
<1> USE DEF Init
<1>1. TypeOK
  <2>1. /\ waiters \subseteq (1..MaxKeys) \X Actors /\ timers \subseteq (0..MaxTime) \X Actors
        /\ next_key \in 1..(MaxKeys + 1) /\ events \subseteq 1..MaxKeys /\ armed \subseteq Fds
    OBVIOUS
  <2>2. until \in 0..Never /\ clock \in 0..MaxTime /\ now \in 0..MaxTime
    BY DEF Never
  <2>3. registered \in [Fds -> 0..MaxKeys] /\ key \in [Actors -> 0..MaxKeys]
    BY DEF NoKey
  <2>4. deadline \in [Actors -> 0..MaxTime] /\ woken \in [Actors -> Nat]
    OBVIOUS
  <2>5. pc \in [Actors -> {"idle", "add", "parkFd", "delete", "notifyPoll", "sleeping"}]
    OBVIOUS
  <2>6. sleeps \in 0..MaxSleeps /\ spurious \in 0..MaxSpurious
    OBVIOUS
  <2> QED  BY <2>1, <2>2, <2>3, <2>4, <2>5, <2>6 DEF TypeOK
<1>2. Keys /\ Registrations
  BY DEF Keys, Registrations, NoKey
<1>3. Tokens /\ NoLostFdWakeup
  BY DEF Tokens, CallTokens, NoLostFdWakeup, Actors
<1>4. NoMissedTimer /\ NowPast
  BY DEF NoMissedTimer, NowPast
<1> QED  BY <1>1, <1>2, <1>3, <1>4 DEF IndInv

\* Steps of the poll thread, of time and of the shutdown that touch no caller.
LEMMA PollMoves ==
    ASSUME IndInv,
           \/ PollCheck \/ PollDeadline \/ PollFails \/ FireNow
           \/ Shutdown \/ ShutdownNotify \/ Tick
    PROVE  IndInv'
<1>1. UNCHANGED <<waiters, timers, next_key, registered, armed, events, pc, fd, key, deadline,
                  sleeps, woken, spurious>>
  BY DEF PollCheck, PollDeadline, PollFails, FireNow, Shutdown, ShutdownNotify, Tick,
         poller, callers
<1>2. /\ clock' \in 0..MaxTime /\ clock' >= clock
      /\ now' \in 0..MaxTime /\ now' <= clock'
      /\ poll' \in {"check", "deadline", "wait", "events", "fire", "exit"}
      /\ shutdown' \in {"off", "set", "notified"} /\ notified' \in BOOLEAN
  <2>1. \/ clock' = clock /\ (now' = now \/ now' = clock)
        \/ clock < MaxTime /\ clock' = clock + 1 /\ now' = now
    BY DEF PollCheck, PollDeadline, PollFails, FireNow, Shutdown, ShutdownNotify, Tick
  <2>2. clock \in 0..MaxTime /\ now \in 0..MaxTime /\ now <= clock
    BY DEF IndInv, TypeOK, NowPast
  <2>3. clock' \in 0..MaxTime /\ clock' >= clock /\ now' \in 0..MaxTime /\ now' <= clock'
    BY <2>1, <2>2
  <2>4. poll' \in {"check", "deadline", "wait", "events", "fire", "exit"}
    BY DEF PollCheck, PollDeadline, PollFails, FireNow, Shutdown, ShutdownNotify, Tick,
           IndInv, TypeOK
  <2>5. shutdown' \in {"off", "set", "notified"}
    BY DEF PollCheck, PollDeadline, PollFails, FireNow, Shutdown, ShutdownNotify, Tick,
           IndInv, TypeOK
  <2>6. notified' \in BOOLEAN
    BY DEF PollCheck, PollDeadline, PollFails, FireNow, Shutdown, ShutdownNotify, Tick,
           IndInv, TypeOK
  <2> QED  BY <2>3, <2>4, <2>5, <2>6
<1>3. until' \in 0..Never
  BY EarliestTimer DEF PollCheck, PollDeadline, PollFails, FireNow, Shutdown, ShutdownNotify, Tick,
         IndInv, TypeOK, Never
<1>4. TypeOK'
  BY <1>1, <1>2, <1>3 DEF IndInv, TypeOK
<1>5. Keys' /\ NoLostFdWakeup'
  BY <1>1 DEF IndInv, Keys, NoLostFdWakeup
<1>6. poll' # "events" => events = {}
  BY DEF PollCheck, PollDeadline, PollFails, FireNow, Shutdown, ShutdownNotify, Tick,
         IndInv, Registrations
<1>7. Registrations'
  BY <1>1, <1>6 DEF IndInv, Registrations
<1>8. Tokens'
  <2> SUFFICES ASSUME NEW t \in Actors, Steady(t)' PROVE CallTokens(t)'
    BY DEF Tokens
  <2>1. CallTokens(t)
    BY <1>1 DEF IndInv, Tokens, Steady
  <2>2. clock >= deadline[t] => clock' >= deadline[t]
    <3>1. clock \in Int /\ clock' \in Int /\ deadline[t] \in Int
      BY <1>2 DEF IndInv, TypeOK
    <3> QED  BY <1>2, <3>1
  <2> QED  BY <1>1, <2>1, <2>2 DEF CallTokens
<1>9. NoMissedTimer'
  <2>1. CASE PollDeadline
    <3>1. ~ \E t \in timers' : t[1] < until'
      <4>1. \A t \in timers : until' <= t[1] /\ t[1] \in Nat /\ until' \in Nat
        BY <2>1, EarliestTimer DEF PollDeadline, IndInv, TypeOK, Never
      <4> QED  BY <1>1, <4>1
    <3> QED  BY <3>1 DEF NoMissedTimer
  <2>2. CASE ~PollDeadline
    <3>1. \/ poll' # "wait"
          \/ notified'
          \/ poll' = poll /\ until' = until /\ notified' = notified
      BY <2>2 DEF PollCheck, PollFails, FireNow, Shutdown, ShutdownNotify, Tick
    <3> QED  BY <1>1, <3>1 DEF IndInv, NoMissedTimer
  <2> QED  BY <2>1, <2>2
<1>10. NowPast'
  BY <1>2 DEF NowPast
<1> QED  BY <1>4, <1>5, <1>7, <1>8, <1>9, <1>10 DEF IndInv

-----------------------------------------------------------------------------
(* The poll thread's handling of what its wait returned.                   *)

\* Events are those of armed registrations, each of which a call stands behind.
LEMMA PollReturnsInv ==
    ASSUME IndInv, NEW ready \in SUBSET armed, PollReturns(ready)
    PROVE  IndInv'
<1>1. /\ poll = "wait" /\ poll' = "events" /\ until' = Never /\ notified' = FALSE
      /\ events' = {registered[f] : f \in ready} /\ armed' = armed \ ready
      /\ UNCHANGED <<waiters, timers, next_key, shutdown, registered, now, clock,
                     pc, fd, key, deadline, sleeps, woken, spurious>>
  BY DEF PollReturns, callers
<1>2. \A f \in ready : /\ f \in Fds /\ registered[f] # NoKey /\ registered[f] \in 1..MaxKeys
                       /\ \E a \in Actors : /\ key[a] = registered[f]
                                            /\ pc[a] \in {"parkFd", "delete"}
  BY DEF IndInv, TypeOK, Registrations, NoKey
<1>3. TypeOK'
  <2>1. until' \in 0..Never /\ events' \subseteq 1..MaxKeys /\ armed' \subseteq Fds
    BY <1>1, <1>2 DEF Never, IndInv, TypeOK
  <2> QED  BY <1>1, <2>1 DEF IndInv, TypeOK
<1>4. Keys' /\ Tokens' /\ NowPast' /\ NoMissedTimer'
  <2>1. ASSUME NEW a \in Actors, Steady(a)' PROVE CallTokens(a)'
    <3>1. CallTokens(a)
      BY <1>1, <2>1 DEF IndInv, Tokens, Steady
    <3>2. \A k \in events' : <<k, a>> \in waiters => k = key[a]
      BY <1>1, <1>2 DEF IndInv, Keys
    <3>3. fd[a] \in armed' => fd[a] \in armed
      BY <1>1
    <3> QED  BY <1>1, <3>1, <3>2, <3>3 DEF CallTokens
  <2> QED  BY <1>1, <2>1 DEF IndInv, Keys, Tokens, NowPast, NoMissedTimer
<1>5. \A k \in events' :
        k < next_key /\ \A a \in Actors : key[a] = k => pc[a] \in {"parkFd", "delete"}
  BY <1>1, <1>2 DEF IndInv, Keys
<1>6. Registrations'
  <2>1. ASSUME NEW a \in Actors, key[a] \in events' PROVE fd[a] \notin armed'
    <3>1. PICK f \in ready : key[a] = registered[f]
      BY <1>1, <2>1
    <3>2. key[a] # NoKey /\ \E b \in Actors : key[b] = key[a] /\ fd[b] = f
      BY <1>2, <3>1 DEF IndInv, Registrations
    <3>3. fd[a] = f
      BY <3>2 DEF IndInv, Keys
    <3> QED  BY <1>1, <3>3
  <2> QED  BY <1>1, <1>5, <2>1 DEF IndInv, Registrations
<1>7. NoLostFdWakeup'
  <2> SUFFICES ASSUME NEW a \in Actors, pc[a] = "parkFd", woken[a] = 0
               PROVE  /\ <<key[a], a>> \in waiters /\ registered[fd[a]] = key[a]
                      /\ fd[a] \in armed' \/ key[a] \in events'
    BY <1>1 DEF NoLostFdWakeup
  <2>1. /\ <<key[a], a>> \in waiters /\ registered[fd[a]] = key[a]
        /\ fd[a] \in armed \/ key[a] \in events
    BY DEF IndInv, NoLostFdWakeup
  <2>2. events = {}
    BY <1>1 DEF IndInv, Registrations
  <2> QED  BY <1>1, <2>1, <2>2
<1> QED  BY <1>3, <1>4, <1>6, <1>7 DEF IndInv

\* Whom a step of the poll thread notifies.
LEMMA Notifies ==
    ASSUME TypeOK, NEW S, NotifyAll(S)
    PROVE  /\ woken' \in [Actors -> Nat]
           /\ \A a \in Actors \ S : woken'[a] = woken[a]
           /\ \A a \in Actors \cap S : woken'[a] > 0
           /\ \A a \in Actors \cap S : woken[a] = 0 => woken'[a] = 1
  BY DEF NotifyAll, TypeOK, Actors

\* An event takes the one entry of its key out and notifies the caller of that entry.
LEMMA PollEventInv ==
    ASSUME IndInv, NEW k \in 1..MaxKeys, PollEvent(k)
    PROVE  IndInv'
<1> DEFINE N == {w[2] : w \in waiters \ waiters'}
<1>1. /\ poll = "events" /\ k \in events /\ events' = events \ {k}
      /\ waiters' = {w \in waiters : w[1] # k}
      /\ UNCHANGED <<timers, next_key, shutdown, registered, armed, notified, poll, until, now,
                     clock, pc, fd, key, deadline, sleeps, spurious>>
  BY DEF PollEvent, poller, callers
<1>2. NotifyAll(N)
  BY DEF PollEvent
<1>3. \A w \in waiters : w \in (1..MaxKeys) \X Actors /\ (w[1] = k => w[2] \in N)
  BY <1>1 DEF IndInv, TypeOK
<1>4. \A a \in N : \E w \in waiters : w[1] = k /\ w[2] = a
  BY <1>1
<1> HIDE DEF N
<1>5. /\ woken' \in [Actors -> Nat]
      /\ \A a \in Actors \ N : woken'[a] = woken[a]
      /\ \A a \in Actors \cap N : woken'[a] > 0
      /\ \A a \in Actors \cap N : woken[a] = 0 => woken'[a] = 1
  BY <1>2, Notifies DEF IndInv
<1>6. TypeOK'
  BY <1>1, <1>5 DEF IndInv, TypeOK
<1>7. Keys' /\ Registrations'
  <2>1. Keys'
    BY <1>1 DEF IndInv, Keys
  <2>2. \A a \in Actors : pc[a] = "add" => <<key[a], a>> \in waiters'
    <3> SUFFICES ASSUME NEW a \in Actors, pc[a] = "add" PROVE <<key[a], a>> \in waiters'
      OBVIOUS
    <3>1. <<key[a], a>> \in waiters /\ key[a] # k
      BY <1>1 DEF IndInv, Registrations
    <3> QED  BY <1>1, <3>1
  <2>3. Registrations'
    BY <1>1, <2>2 DEF IndInv, Registrations
  <2> QED  BY <2>1, <2>3
<1>8. NoLostFdWakeup'
  <2> SUFFICES ASSUME NEW a \in Actors, pc[a] = "parkFd", woken'[a] = 0
               PROVE  /\ <<key[a], a>> \in waiters' /\ registered[fd[a]] = key[a]
                      /\ fd[a] \in armed \/ key[a] \in events'
    BY <1>1 DEF NoLostFdWakeup
  <2>1. a \notin N /\ woken[a] = 0
    BY <1>5
  <2>2. /\ <<key[a], a>> \in waiters /\ registered[fd[a]] = key[a]
        /\ fd[a] \in armed \/ key[a] \in events
    BY <2>1 DEF IndInv, NoLostFdWakeup
  <2>3. key[a] # k
    BY <1>3, <2>1, <2>2
  <2> QED  BY <1>1, <2>2, <2>3
<1>9. Tokens'
  <2> SUFFICES ASSUME NEW t \in Actors, Steady(t)' PROVE CallTokens(t)'
    BY DEF Tokens
  <2>0. t \in Actors /\ Steady(t)
    BY <1>1 DEF Steady
  <2>1. CallTokens(t)
    BY <2>0 DEF IndInv, Tokens
  <2>2. CASE t \in N
    <3>1. PICK w \in waiters : w[1] = k /\ w[2] = t
      BY <1>4, <2>2
    <3>2. w = <<k, t>> /\ key[t] = k
      BY <1>1, <1>3, <2>1, <3>1 DEF CallTokens
    <3>3. pc[t] = "parkFd"
      BY <1>1, <2>0, <2>1, <3>2 DEF IndInv, Registrations, CallTokens
    <3>4. <<key[t], t>> \in waiters
      BY <3>2
    <3>5. woken[t] = 0 /\ woken'[t] = 1
      BY <1>5, <2>0, <2>1, <2>2, <3>3, <3>4 DEF CallTokens
    <3>6. waiters' \subseteq waiters /\ events' \subseteq events
      BY <1>1
    <3>7. <<key[t], t>> \notin waiters'
      BY <1>1, <3>2
    <3>8. fd[t] \notin armed
      BY <1>1, <2>0, <3>2 DEF IndInv, Registrations
    <3> QED  BY <1>1, <2>1, <3>3, <3>5, <3>6, <3>7, <3>8 DEF CallTokens
  <2>3. CASE t \notin N
    <3>1. \A w \in waiters : w[2] = t => w[1] # k
      BY <1>3, <2>3
    <3>2. <<key[t], t>> \in waiters <=> <<key[t], t>> \in waiters'
      BY <1>1, <3>1
    <3>3. woken'[t] = woken[t]
      BY <1>5, <2>0, <2>3
    <3>4. waiters' \subseteq waiters /\ events' \subseteq events
      BY <1>1
    <3> QED  BY <1>1, <2>1, <3>2, <3>3, <3>4 DEF CallTokens
  <2> QED  BY <2>2, <2>3
<1>10. NoMissedTimer' /\ NowPast'
  BY <1>1 DEF IndInv, NoMissedTimer, NowPast
<1> QED  BY <1>6, <1>7, <1>8, <1>9, <1>10 DEF IndInv

\* The timers that fire are due: the time they are compared with has passed.
LEMMA FireInv ==
    ASSUME IndInv, FireExpiredTimers
    PROVE  IndInv'
<1> DEFINE N == {t[2] : t \in timers \ timers'}
<1>1. /\ poll = "fire" /\ poll' = "check" /\ now' = 0
      /\ timers' = {t \in timers : t[1] > now}
      /\ UNCHANGED <<waiters, next_key, shutdown, registered, armed, notified, until, events,
                     clock, pc, fd, key, deadline, sleeps, spurious>>
  BY DEF FireExpiredTimers, poller, callers
<1>2. NotifyAll(N)
  BY DEF FireExpiredTimers
<1>3. \A x \in timers : x \in (0..MaxTime) \X Actors /\ (x \notin timers' => x[2] \in N)
  BY DEF IndInv, TypeOK
<1>4. \A a \in N : \E x \in timers : x[2] = a /\ x \notin timers' /\ x[1] <= clock
  <2>1. \A x \in timers : ~(x[1] > now) => x[1] <= clock
    <3>1. now \in Int /\ clock \in Int /\ now <= clock /\ \A x \in timers : x[1] \in Int
      BY DEF IndInv, TypeOK, NowPast
    <3> QED  BY <3>1
  <2> QED  BY <1>1, <2>1
<1> HIDE DEF N
<1>5. /\ woken' \in [Actors -> Nat]
      /\ \A a \in Actors \ N : woken'[a] = woken[a]
      /\ \A a \in Actors \cap N : woken'[a] > 0
      /\ \A a \in Actors \cap N : woken[a] = 0 => woken'[a] = 1
  BY <1>2, Notifies DEF IndInv
<1>6. TypeOK'
  BY <1>1, <1>5 DEF IndInv, TypeOK
<1>7. Keys' /\ Registrations'
  <2>1. events = {}
    BY <1>1 DEF IndInv, Registrations
  <2> QED  BY <1>1, <2>1 DEF IndInv, Keys, Registrations
<1>8. NoLostFdWakeup'
  <2> SUFFICES ASSUME NEW a \in Actors, pc[a] = "parkFd", woken'[a] = 0
               PROVE  woken[a] = 0
    BY <1>1 DEF IndInv, NoLostFdWakeup
  <2> QED  BY <1>5
<1>9. Tokens'
  <2> SUFFICES ASSUME NEW t \in Actors, Steady(t)' PROVE CallTokens(t)'
    BY DEF Tokens
  <2>0. t \in Actors /\ Steady(t)
    BY <1>1 DEF Steady
  <2>1. CallTokens(t)
    BY <2>0 DEF IndInv, Tokens
  <2>2. CASE t \in N
    <3>1. PICK x \in timers : x[2] = t /\ x \notin timers' /\ x[1] <= clock
      BY <1>4, <2>2
    <3>2. x[1] = deadline[t] /\ pc[t] \in {"notifyPoll", "sleeping"}
      BY <2>1, <3>1 DEF CallTokens
    <3>3. x = <<deadline[t], t>>
      BY <1>3, <3>1, <3>2
    <3>4. woken[t] = 0 /\ woken'[t] = 1
      BY <1>5, <2>0, <2>1, <2>2, <3>1, <3>2, <3>3 DEF CallTokens
    <3>5. clock >= deadline[t]
      <4>1. clock \in Int /\ deadline[t] \in Int
        BY <2>0 DEF IndInv, TypeOK
      <4> QED  BY <3>1, <3>2, <4>1
    <3>6. <<deadline[t], t>> \notin timers' /\ timers' \subseteq timers
      BY <1>1, <3>1, <3>3
    <3> QED  BY <1>1, <2>1, <3>2, <3>4, <3>5, <3>6 DEF CallTokens
  <2>3. CASE t \notin N
    <3>1. <<deadline[t], t>> \in timers <=> <<deadline[t], t>> \in timers'
      BY <1>1, <1>3, <2>3
    <3>2. woken'[t] = woken[t] /\ timers' \subseteq timers
      BY <1>1, <1>5, <2>0, <2>3
    <3> QED  BY <1>1, <2>1, <3>1, <3>2 DEF CallTokens
  <2> QED  BY <2>2, <2>3
<1>10. NoMissedTimer' /\ NowPast'
  BY <1>1 DEF IndInv, TypeOK, NoMissedTimer, NowPast
<1> QED  BY <1>6, <1>7, <1>8, <1>9, <1>10 DEF IndInv

-----------------------------------------------------------------------------
(* The callers.                                                            *)

\* An update at one caller leaves the others alone.
LEMMA GotoMoves ==
    ASSUME TypeOK, NEW a \in Actors, NEW from,
           NEW to \in {"idle", "add", "parkFd", "delete", "notifyPoll", "sleeping"},
           Goto(a, from, to)
    PROVE  /\ pc[a] = from /\ pc'[a] = to
           /\ \A b \in Actors : b # a => pc'[b] = pc[b]
           /\ pc' \in [Actors -> {"idle", "add", "parkFd", "delete", "notifyPoll", "sleeping"}]
  BY DEF Goto, TypeOK

\* Only a thread returns from its park without a wake-up, and that is counted.
LEMMA Unparks ==
    ASSUME TypeOK, NEW a \in Actors, Unparked(a)
    PROVE  /\ woken' \in [Actors -> Nat] /\ spurious' \in 0..MaxSpurious
           /\ \A b \in Actors : b # a => woken'[b] = woken[b]
           /\ a \in Tasks \/ spurious' = 0 => woken[a] > 0 /\ woken'[a] = woken[a] - 1
           /\ spurious' = 0 => spurious = 0
<1>1. CASE woken[a] > 0 /\ woken' = [woken EXCEPT ![a] = @ - 1] /\ spurious' = spurious
  <2>1. woken[a] - 1 \in Nat
    BY <1>1 DEF TypeOK
  <2> QED  BY <1>1, <2>1 DEF TypeOK
<1>2. CASE a \in Threads /\ spurious < MaxSpurious /\ spurious' = spurious + 1 /\ woken' = woken
  BY <1>2 DEF TypeOK
<1> QED  BY <1>1, <1>2 DEF Unparked

\* The key of a new call is in no entry and no registration.
LEMMA WaitInsertInv ==
    ASSUME IndInv, NEW a \in Actors, NEW f \in Fds, WaitInsert(a, f)
    PROVE  IndInv'
<1>0. TypeOK
  BY DEF IndInv
<1>1. /\ next_key <= MaxKeys /\ next_key' = next_key + 1
      /\ key' = [key EXCEPT ![a] = next_key] /\ fd' = [fd EXCEPT ![a] = f]
      /\ waiters' = waiters \cup {<<next_key, a>>}
      /\ UNCHANGED <<timers, shutdown, registered, armed, notified, poll, until, events, now,
                     clock, deadline, sleeps, woken, spurious>>
  BY DEF WaitInsert, poller
<1>2. /\ pc[a] = "idle" /\ pc'[a] = "add"
      /\ \A b \in Actors : b # a => pc'[b] = pc[b]
      /\ pc' \in [Actors -> {"idle", "add", "parkFd", "delete", "notifyPoll", "sleeping"}]
  BY <1>0, GotoMoves DEF WaitInsert
<1>3. next_key \in 1..MaxKeys /\ next_key' \in 1..(MaxKeys + 1)
  BY <1>0, <1>1 DEF TypeOK
<1>4. /\ key' \in [Actors -> 0..MaxKeys] /\ key'[a] = next_key
      /\ fd' \in [Actors -> Fds] /\ fd'[a] = f
      /\ \A b \in Actors : b # a => key'[b] = key[b] /\ fd'[b] = fd[b]
  BY <1>0, <1>1, <1>3 DEF TypeOK
<1>5. TypeOK'
  <2>1. waiters' \subseteq (1..MaxKeys) \X Actors
    BY <1>0, <1>1, <1>3 DEF TypeOK
  <2> QED  BY <1>0, <1>1, <1>2, <1>3, <1>4, <2>1 DEF TypeOK
<1>6. /\ \A b \in Actors : key[b] < next_key /\ key[b] \in Nat
      /\ \A w \in waiters : w[1] < next_key /\ w[1] \in Nat
  BY <1>0 DEF IndInv, Keys, TypeOK
<1>7. Keys'
  <2>1. \A b \in Actors : key'[b] < next_key'
    BY <1>1, <1>3, <1>4, <1>6
  <2>2. \A b \in Actors : key'[b] # NoKey <=> pc'[b] \in {"add", "parkFd", "delete"}
    BY <1>2, <1>3, <1>4 DEF IndInv, Keys, NoKey
  <2>3. \A b, c \in Actors : key'[b] = key'[c] /\ key'[b] # NoKey => b = c
    BY <1>3, <1>4, <1>6 DEF IndInv, Keys
  <2>4. \A w \in waiters : w[1] < next_key' /\ \A b \in Actors : key'[b] = w[1] => b = w[2]
    BY <1>1, <1>3, <1>4, <1>6 DEF IndInv, Keys
  <2>5. next_key < next_key' /\ \A b \in Actors : key'[b] = next_key => b = a
    BY <1>1, <1>3, <1>4, <1>6
  <2>6. \A w \in waiters' : w[1] < next_key' /\ \A b \in Actors : key'[b] = w[1] => b = w[2]
    BY <1>1, <2>4, <2>5
  <2> QED  BY <2>1, <2>2, <2>3, <2>6 DEF Keys
<1>8. Registrations'
  <2>1. \A g \in Fds : registered'[g] # NoKey =>
          \E b \in Actors : /\ key'[b] = registered'[g] /\ fd'[b] = g
                            /\ pc'[b] \in {"parkFd", "delete"}
    <3> SUFFICES ASSUME NEW g \in Fds, registered[g] # NoKey
                 PROVE  \E b \in Actors : /\ key'[b] = registered[g] /\ fd'[b] = g
                                          /\ pc'[b] \in {"parkFd", "delete"}
      BY <1>1
    <3>1. PICK b \in Actors : /\ key[b] = registered[g] /\ fd[b] = g
                              /\ pc[b] \in {"parkFd", "delete"}
      BY DEF IndInv, Registrations
    <3> QED  BY <1>2, <1>4, <3>1
  <2>2. \A b \in Actors : pc'[b] \in {"parkFd", "delete"} => registered'[fd'[b]] = key'[b]
    BY <1>1, <1>2, <1>4 DEF IndInv, Registrations
  <2>3. \A g \in armed' : registered'[g] # NoKey
    BY <1>1 DEF IndInv, Registrations
  <2>4. \A k \in events' : k < next_key'
            /\ \A b \in Actors : key'[b] = k => pc'[b] \in {"parkFd", "delete"}
    <3> SUFFICES ASSUME NEW k \in events
                 PROVE  /\ k < next_key'
                        /\ \A b \in Actors : key'[b] = k => pc'[b] \in {"parkFd", "delete"}
      BY <1>1
    <3>1. /\ k \in Int /\ k < next_key
          /\ \A b \in Actors : key[b] = k => pc[b] \in {"parkFd", "delete"}
      BY <1>0 DEF IndInv, Registrations, TypeOK
    <3>2. k < next_key' /\ k # next_key
      BY <1>1, <1>3, <3>1
    <3> QED  BY <1>2, <1>4, <3>1, <3>2
  <2>5. poll' # "events" => events' = {}
    BY <1>1 DEF IndInv, Registrations
  <2>6. \A b \in Actors : pc'[b] = "add" => <<key'[b], b>> \in waiters'
    BY <1>1, <1>2, <1>4 DEF IndInv, Registrations
  <2>7. \A b \in Actors : key'[b] \in events' => fd'[b] \notin armed'
    <3>1. next_key \notin events
      BY <1>0 DEF IndInv, Registrations, TypeOK
    <3> QED  BY <1>1, <1>4, <3>1 DEF IndInv, Registrations
  <2> QED  BY <2>1, <2>2, <2>3, <2>4, <2>5, <2>6, <2>7 DEF Registrations
<1>9. NoLostFdWakeup'
  BY <1>1, <1>2, <1>4 DEF IndInv, NoLostFdWakeup
<1>10. Tokens'
  <2> SUFFICES ASSUME NEW t \in Actors, Steady(t)' PROVE CallTokens(t)'
    BY DEF Tokens
  <2>0. t \in Actors /\ Steady(t)
    BY <1>1 DEF Steady
  <2>1. CallTokens(t)
    BY <2>0 DEF IndInv, Tokens
  <2>2. CASE t = a
    <3>1. /\ \A x \in timers : x[2] # t
          /\ woken[t] = 0
      BY <1>2, <2>1, <2>2 DEF CallTokens
    <3>2. \A k \in events : <<k, t>> \notin waiters /\ k # next_key
      <4>1. key[t] = NoKey /\ \A k \in events : k # NoKey /\ k # next_key
        BY <1>0, <1>2, <2>0, <2>2 DEF IndInv, Keys, Registrations, TypeOK, NoKey
      <4> QED  BY <2>1, <4>1 DEF CallTokens
    <3> QED  BY <1>1, <1>2, <1>4, <2>2, <3>1, <3>2 DEF CallTokens
  <2>3. CASE t # a
    <3>1. <<key[t], t>> \in waiters <=> <<key[t], t>> \in waiters'
      BY <1>1, <2>3
    <3>2. \A k : <<k, t>> \in waiters' => <<k, t>> \in waiters
      BY <1>1, <2>3
    <3> QED  BY <1>1, <1>2, <1>4, <2>0, <2>1, <2>3, <3>1, <3>2 DEF CallTokens
  <2> QED  BY <2>2, <2>3
<1>11. NoMissedTimer' /\ NowPast'
  BY <1>1, <1>2 DEF IndInv, NoMissedTimer, NowPast
<1> QED  BY <1>5, <1>7, <1>8, <1>9, <1>10, <1>11 DEF IndInv

\* The entry is in `waiters` when the descriptor is armed.
LEMMA WaitAddInv ==
    ASSUME IndInv, NEW a \in Actors, WaitAdd(a)
    PROVE  IndInv'
<1>0. TypeOK
  BY DEF IndInv
<1>1. UNCHANGED <<waiters, timers, next_key, shutdown, notified, poll, until, events, now,
                  clock, fd, key, deadline, sleeps, woken, spurious>>
  BY DEF WaitAdd, callers
<1>2. /\ registered[fd[a]] = NoKey /\ Goto(a, "add", "parkFd")
      /\ registered' = [registered EXCEPT ![fd[a]] = key[a]]
      /\ armed' = armed \cup {fd[a]}
  BY DEF WaitAdd
<1>3. /\ pc[a] = "add" /\ pc'[a] = "parkFd"
      /\ \A b \in Actors : b # a => pc'[b] = pc[b]
      /\ pc' \in [Actors -> {"idle", "add", "parkFd", "delete", "notifyPoll", "sleeping"}]
  BY <1>0, <1>2, GotoMoves
<1>4. /\ fd[a] \in Fds /\ key[a] \in 0..MaxKeys /\ key[a] # NoKey
      /\ <<key[a], a>> \in waiters /\ key[a] \notin events
  BY <1>0, <1>3 DEF TypeOK, IndInv, Keys, Registrations
<1>5. TypeOK'
  <2>1. registered' \in [Fds -> 0..MaxKeys] /\ armed' \subseteq Fds
    BY <1>0, <1>2, <1>4 DEF TypeOK
  <2> QED  BY <1>0, <1>1, <1>3, <2>1 DEF TypeOK
<1>6. Keys'
  BY <1>1, <1>3 DEF IndInv, Keys
<1>7. Tokens'
  <2> SUFFICES ASSUME NEW t \in Actors, Steady(t)' PROVE CallTokens(t)'
    BY DEF Tokens
  <2>0. t \in Actors /\ Steady(t)
    BY <1>1 DEF Steady
  <2>1. CallTokens(t)
    BY <2>0 DEF IndInv, Tokens
  <2>2. CASE t = a
    <3>1. \A x \in timers : x[2] # t
      BY <1>3, <2>1, <2>2 DEF CallTokens
    <3> QED  BY <1>1, <1>3, <1>4, <2>1, <2>2, <3>1 DEF CallTokens
  <2>3. CASE t # a
    <3>1. pc[t] = "parkFd" /\ fd[t] \in armed' => fd[t] \in armed
      <4>1. pc[t] = "parkFd" => registered[fd[t]] # NoKey
        BY <2>0 DEF IndInv, Registrations, Keys
      <4> QED  BY <1>2, <4>1
    <3> QED  BY <1>1, <1>3, <2>0, <2>1, <2>3, <3>1 DEF CallTokens
  <2> QED  BY <2>2, <2>3
<1>8. NoMissedTimer' /\ NowPast'
  BY <1>1, <1>3 DEF IndInv, NoMissedTimer, NowPast
<1>9. \A b \in Actors : pc[b] \in {"parkFd", "delete"} => b # a /\ fd[b] # fd[a]
  BY <1>2, <1>3 DEF IndInv, Registrations, Keys
<1>10. registered'[fd[a]] = key[a] /\ \A f \in Fds : f # fd[a] => registered'[f] = registered[f]
  BY <1>0, <1>2, <1>4 DEF TypeOK
<1>11. \A b \in Actors : fd[b] \in Fds
  BY <1>0 DEF TypeOK
<1>12. Registrations'
  <2>1. \A g \in Fds : registered'[g] # NoKey =>
          \E b \in Actors : key[b] = registered'[g] /\ fd[b] = g /\ pc'[b] \in {"parkFd", "delete"}
    BY <1>3, <1>10 DEF IndInv, Registrations
  <2>2. \A b \in Actors : pc'[b] \in {"parkFd", "delete"} => registered'[fd[b]] = key[b]
    BY <1>3, <1>9, <1>10, <1>11 DEF IndInv, Registrations
  <2>3. \A g \in armed' : registered'[g] # NoKey
    BY <1>0, <1>2, <1>4, <1>10 DEF IndInv, Registrations, TypeOK
  <2>4. \A b \in Actors : key[b] \in events => fd[b] \notin armed'
    BY <1>2, <1>9 DEF IndInv, Registrations
  <2> QED  BY <1>1, <1>3, <1>4, <2>1, <2>2, <2>3, <2>4 DEF IndInv, Registrations
<1>13. NoLostFdWakeup'
  <2> SUFFICES ASSUME NEW b \in Actors, pc'[b] = "parkFd", woken[b] = 0
               PROVE  /\ <<key[b], b>> \in waiters /\ registered'[fd[b]] = key[b]
                      /\ fd[b] \in armed' \/ key[b] \in events
    BY <1>1 DEF NoLostFdWakeup
  <2>1. CASE b = a
    BY <1>2, <1>4, <1>10, <2>1
  <2>2. CASE b # a
    BY <1>2, <1>3, <1>9, <1>10, <1>11, <2>2 DEF IndInv, NoLostFdWakeup
  <2> QED  BY <2>1, <2>2
<1> QED  BY <1>5, <1>6, <1>7, <1>8, <1>12, <1>13 DEF IndInv

\* A failed call leaves an entry that no event will find: its key was never registered.
LEMMA WaitAddFailsInv ==
    ASSUME IndInv, NEW a \in Actors, WaitAddFails(a)
    PROVE  IndInv'
<1>0. TypeOK
  BY DEF IndInv
<1>1. /\ key' = [key EXCEPT ![a] = NoKey]
      /\ UNCHANGED <<waiters, timers, next_key, shutdown, registered, armed, notified, poll, until,
                     events, now, clock, fd, deadline, sleeps, woken, spurious>>
  BY DEF WaitAddFails, poller
<1>2. /\ pc[a] = "add" /\ pc'[a] = "idle"
      /\ \A b \in Actors : b # a => pc'[b] = pc[b]
      /\ pc' \in [Actors -> {"idle", "add", "parkFd", "delete", "notifyPoll", "sleeping"}]
  BY <1>0, GotoMoves DEF WaitAddFails
<1>3. /\ key'[a] = NoKey /\ key' \in [Actors -> 0..MaxKeys]
      /\ \A b \in Actors : b # a => key'[b] = key[b]
  BY <1>0, <1>1 DEF TypeOK, NoKey
<1>4. TypeOK'
  BY <1>0, <1>1, <1>2, <1>3 DEF TypeOK
<1>5. /\ \A w \in waiters : w[1] # NoKey
      /\ \A k \in events : k # NoKey /\ k # key[a]
      /\ NoKey < next_key
  BY <1>0, <1>2 DEF IndInv, Registrations, TypeOK, NoKey
<1>6. Keys'
  BY <1>1, <1>2, <1>3, <1>5 DEF IndInv, Keys
<1>7. Registrations'
  <2>1. \A g \in Fds : registered[g] # NoKey =>
          \E b \in Actors : key'[b] = registered[g] /\ fd[b] = g /\ pc'[b] \in {"parkFd", "delete"}
    <3> SUFFICES ASSUME NEW g \in Fds, registered[g] # NoKey
                 PROVE  \E b \in Actors : /\ key'[b] = registered[g] /\ fd[b] = g
                                          /\ pc'[b] \in {"parkFd", "delete"}
      OBVIOUS
    <3>1. PICK b \in Actors : /\ key[b] = registered[g] /\ fd[b] = g
                              /\ pc[b] \in {"parkFd", "delete"}
      BY DEF IndInv, Registrations
    <3> QED  BY <1>2, <1>3, <3>1
  <2> QED  BY <1>1, <1>2, <1>3, <1>5, <2>1 DEF IndInv, Registrations
<1>8. NoLostFdWakeup'
  BY <1>1, <1>2, <1>3 DEF IndInv, NoLostFdWakeup
<1>9. Tokens'
  <2> SUFFICES ASSUME NEW t \in Actors, Steady(t)' PROVE CallTokens(t)'
    BY DEF Tokens
  <2>0. t \in Actors /\ Steady(t)
    BY <1>1 DEF Steady
  <2>1. CallTokens(t)
    BY <2>0 DEF IndInv, Tokens
  <2>2. CASE t = a
    <3>1. /\ \A x \in timers : x[2] # t
          /\ woken[t] = 0
          /\ \A k \in events : <<k, t>> \notin waiters
      BY <1>2, <1>5, <2>1, <2>2 DEF CallTokens
    <3> QED  BY <1>1, <1>2, <2>2, <3>1 DEF CallTokens
  <2>3. CASE t # a
    BY <1>1, <1>2, <1>3, <2>0, <2>1, <2>3 DEF CallTokens
  <2> QED  BY <2>2, <2>3
<1>10. NoMissedTimer' /\ NowPast'
  BY <1>1, <1>2 DEF IndInv, NoMissedTimer, NowPast
<1> QED  BY <1>4, <1>6, <1>7, <1>8, <1>9, <1>10 DEF IndInv

\* A task that returns from its park has used its wake-up, and no entry of it is left.
LEMMA WaitUnparkedInv ==
    ASSUME IndInv, NEW a \in Actors, WaitUnparked(a)
    PROVE  IndInv'
<1>0. TypeOK
  BY DEF IndInv
<1>1. UNCHANGED <<waiters, timers, next_key, shutdown, registered, armed, notified, poll, until,
                  events, now, clock, fd, key, deadline, sleeps>>
  BY DEF WaitUnparked, poller, callers
<1>2. /\ pc[a] = "parkFd" /\ pc'[a] = "delete"
      /\ \A b \in Actors : b # a => pc'[b] = pc[b]
      /\ pc' \in [Actors -> {"idle", "add", "parkFd", "delete", "notifyPoll", "sleeping"}]
  BY <1>0, GotoMoves DEF WaitUnparked
<1>3. /\ woken' \in [Actors -> Nat] /\ spurious' \in 0..MaxSpurious
      /\ \A b \in Actors : b # a => woken'[b] = woken[b]
      /\ a \in Tasks \/ spurious' = 0 => woken[a] > 0 /\ woken'[a] = woken[a] - 1
      /\ spurious' = 0 => spurious = 0
  BY <1>0, Unparks DEF WaitUnparked
<1>4. TypeOK'
  BY <1>0, <1>1, <1>2, <1>3 DEF TypeOK
<1>5. Keys' /\ Registrations'
  <2>1. Keys'
    BY <1>1, <1>2 DEF IndInv, Keys
  <2>2. Registrations'
    BY <1>1, <1>2 DEF IndInv, Registrations
  <2> QED  BY <2>1, <2>2
<1>6. NoLostFdWakeup'
  BY <1>1, <1>2, <1>3 DEF IndInv, NoLostFdWakeup
<1>7. Tokens'
  <2> SUFFICES ASSUME NEW t \in Actors, Steady(t)' PROVE CallTokens(t)'
    BY DEF Tokens
  <2>0. t \in Actors /\ Steady(t)
    BY <1>3 DEF Steady
  <2>1. CallTokens(t)
    BY <2>0 DEF IndInv, Tokens
  <2>2. CASE t = a
    <3>1. /\ woken[t] = 1 /\ woken'[t] = 0
          /\ <<key[t], t>> \notin waiters
          /\ \A x \in timers : x[2] # t
      BY <1>2, <1>3, <2>1, <2>2 DEF CallTokens, Steady
    <3> QED  BY <1>1, <1>2, <2>2, <2>1, <3>1 DEF CallTokens
  <2>3. CASE t # a
    BY <1>1, <1>2, <1>3, <2>0, <2>1, <2>3 DEF CallTokens
  <2> QED  BY <2>2, <2>3
<1>8. NoMissedTimer' /\ NowPast'
  BY <1>1, <1>2 DEF IndInv, NoMissedTimer, NowPast
<1> QED  BY <1>4, <1>5, <1>6, <1>7, <1>8 DEF IndInv

\* The registration that is deleted is the caller's own.
LEMMA WaitDeleteInv ==
    ASSUME IndInv, NEW a \in Actors, WaitDelete(a)
    PROVE  IndInv'
<1>0. TypeOK
  BY DEF IndInv
<1>1. /\ registered' = [registered EXCEPT ![fd[a]] = NoKey] /\ armed' = armed \ {fd[a]}
      /\ key' = [key EXCEPT ![a] = NoKey]
      /\ UNCHANGED <<waiters, timers, next_key, shutdown, notified, poll, until, events, now,
                     clock, fd, deadline, sleeps, woken, spurious>>
  BY DEF WaitDelete
<1>2. /\ pc[a] = "delete" /\ pc'[a] = "idle"
      /\ \A b \in Actors : b # a => pc'[b] = pc[b]
      /\ pc' \in [Actors -> {"idle", "add", "parkFd", "delete", "notifyPoll", "sleeping"}]
  BY <1>0, GotoMoves DEF WaitDelete
<1>3. /\ key'[a] = NoKey /\ key' \in [Actors -> 0..MaxKeys]
      /\ \A b \in Actors : b # a => key'[b] = key[b]
      /\ registered'[fd[a]] = NoKey /\ registered' \in [Fds -> 0..MaxKeys]
      /\ \A f \in Fds : f # fd[a] => registered'[f] = registered[f]
      /\ \A b \in Actors : fd[b] \in Fds
  BY <1>0, <1>1 DEF TypeOK, NoKey
<1>4. TypeOK'
  BY <1>0, <1>1, <1>2, <1>3 DEF TypeOK
<1>5. \A b \in Actors : b # a /\ pc[b] \in {"parkFd", "delete"} => fd[b] # fd[a]
  BY <1>2 DEF IndInv, Registrations, Keys
<1>6. Keys'
  <2>1. \A w \in waiters : w[1] # NoKey
    BY <1>0 DEF TypeOK, NoKey
  <2>2. NoKey < next_key
    BY <1>0 DEF TypeOK, NoKey
  <2> QED  BY <1>1, <1>2, <1>3, <2>1, <2>2 DEF IndInv, Keys
<1>7. Registrations'
  <2>1. \A g \in Fds : registered'[g] # NoKey =>
          \E b \in Actors : key'[b] = registered'[g] /\ fd[b] = g /\ pc'[b] \in {"parkFd", "delete"}
    <3> SUFFICES ASSUME NEW g \in Fds, registered'[g] # NoKey
                 PROVE  \E b \in Actors : /\ key'[b] = registered'[g] /\ fd[b] = g
                                          /\ pc'[b] \in {"parkFd", "delete"}
      OBVIOUS
    <3>1. g # fd[a] /\ registered'[g] = registered[g]
      BY <1>3
    <3>2. PICK b \in Actors : /\ key[b] = registered[g] /\ fd[b] = g
                              /\ pc[b] \in {"parkFd", "delete"}
      BY <3>1 DEF IndInv, Registrations
    <3> QED  BY <1>2, <1>3, <3>1, <3>2
  <2>2. \A b \in Actors : pc'[b] \in {"parkFd", "delete"} => registered'[fd[b]] = key'[b]
    BY <1>2, <1>3, <1>5 DEF IndInv, Registrations
  <2>3. \A g \in armed' : registered'[g] # NoKey
    BY <1>0, <1>1, <1>3 DEF IndInv, Registrations, TypeOK
  <2>4. \A k \in events :
          k < next_key /\ \A b \in Actors : key'[b] = k => pc'[b] \in {"parkFd", "delete"}
    <3>1. \A k \in events : k # NoKey
      BY <1>0 DEF TypeOK, NoKey
    <3> QED  BY <1>2, <1>3, <3>1 DEF IndInv, Registrations
  <2>5. poll # "events" => events = {}
    BY DEF IndInv, Registrations
  <2>6. \A b \in Actors : pc'[b] = "add" => <<key'[b], b>> \in waiters
    BY <1>2, <1>3 DEF IndInv, Registrations
  <2>7. \A b \in Actors : key'[b] \in events => fd[b] \notin armed'
    <3>1. NoKey \notin events
      BY <1>0 DEF TypeOK, NoKey
    <3> QED  BY <1>1, <1>3, <3>1 DEF IndInv, Registrations
  <2> QED  BY <1>1, <2>1, <2>2, <2>3, <2>4, <2>5, <2>6, <2>7 DEF Registrations
<1>8. NoLostFdWakeup'
  <2> SUFFICES ASSUME NEW b \in Actors, pc'[b] = "parkFd", woken[b] = 0
               PROVE  /\ <<key'[b], b>> \in waiters /\ registered'[fd[b]] = key'[b]
                      /\ fd[b] \in armed' \/ key'[b] \in events
    BY <1>1 DEF NoLostFdWakeup
  <2>1. b # a /\ pc[b] = "parkFd"
    BY <1>2
  <2> QED  BY <1>1, <1>3, <1>5, <2>1 DEF IndInv, NoLostFdWakeup
<1>9. Tokens'
  <2> SUFFICES ASSUME NEW t \in Actors, Steady(t)' PROVE CallTokens(t)'
    BY DEF Tokens
  <2>0. t \in Actors /\ Steady(t)
    BY <1>1 DEF Steady
  <2>1. CallTokens(t)
    BY <2>0 DEF IndInv, Tokens
  <2>2. CASE t = a
    <3>1. /\ \A k \in events : <<k, t>> \notin waiters
          /\ \A x \in timers : x[2] # t
          /\ woken[t] = 0
      BY <1>2, <2>1, <2>2 DEF CallTokens
    <3> QED  BY <1>1, <1>2, <2>2, <3>1 DEF CallTokens
  <2>3. CASE t # a
    BY <1>1, <1>2, <1>3, <2>0, <2>1, <2>3 DEF CallTokens
  <2> QED  BY <2>2, <2>3
<1>10. NoMissedTimer' /\ NowPast'
  BY <1>1, <1>2 DEF IndInv, NoMissedTimer, NowPast
<1> QED  BY <1>4, <1>6, <1>7, <1>8, <1>9, <1>10 DEF IndInv

\* A new timer comes with a caller that is about to notify the poll thread.
LEMMA SleepPushInv ==
    ASSUME IndInv, NEW a \in Actors, NEW d \in clock..MaxTime, SleepPush(a, d)
    PROVE  IndInv'
<1>0. TypeOK
  BY DEF IndInv
<1>1. /\ sleeps < MaxSleeps /\ sleeps' = sleeps + 1
      /\ deadline' = [deadline EXCEPT ![a] = d] /\ timers' = timers \cup {<<d, a>>}
      /\ UNCHANGED <<waiters, next_key, shutdown, registered, armed, notified, poll, until,
                     events, now, clock, fd, key, woken, spurious>>
  BY DEF SleepPush, poller
<1>2. /\ pc[a] = "idle" /\ pc'[a] = "notifyPoll"
      /\ \A b \in Actors : b # a => pc'[b] = pc[b]
      /\ pc' \in [Actors -> {"idle", "add", "parkFd", "delete", "notifyPoll", "sleeping"}]
  BY <1>0, GotoMoves DEF SleepPush
<1>3. d \in 0..MaxTime
  BY <1>0 DEF TypeOK
<1>4. /\ deadline' \in [Actors -> 0..MaxTime] /\ deadline'[a] = d
      /\ \A b \in Actors : b # a => deadline'[b] = deadline[b]
      /\ timers' \subseteq (0..MaxTime) \X Actors /\ sleeps' \in 0..MaxSleeps
  BY <1>0, <1>1, <1>3 DEF TypeOK
<1>5. TypeOK'
  BY <1>0, <1>1, <1>2, <1>4 DEF TypeOK
<1>6. Keys' /\ Registrations' /\ NoLostFdWakeup'
  <2>1. Keys'
    BY <1>1, <1>2 DEF IndInv, Keys
  <2>2. Registrations'
    BY <1>1, <1>2 DEF IndInv, Registrations
  <2>3. NoLostFdWakeup'
    BY <1>1, <1>2 DEF IndInv, NoLostFdWakeup
  <2> QED  BY <2>1, <2>2, <2>3
<1>7. Tokens'
  <2> SUFFICES ASSUME NEW t \in Actors, Steady(t)' PROVE CallTokens(t)'
    BY DEF Tokens
  <2>0. t \in Actors /\ Steady(t)
    BY <1>1 DEF Steady
  <2>1. CallTokens(t)
    BY <2>0 DEF IndInv, Tokens
  <2>2. CASE t = a
    <3>1. /\ \A x \in timers : x[2] # t
          /\ woken[t] = 0
      BY <1>2, <2>1, <2>2 DEF CallTokens
    <3> QED  BY <1>1, <1>2, <1>4, <2>1, <2>2, <3>1 DEF CallTokens
  <2>3. CASE t # a
    <3>1. <<deadline[t], t>> \in timers <=> <<deadline[t], t>> \in timers'
      BY <1>1, <2>3
    <3>2. \A x \in timers' : x[2] = t => x \in timers
      BY <1>1, <2>3
    <3> QED  BY <1>1, <1>2, <1>4, <2>0, <2>1, <2>3, <3>1, <3>2 DEF CallTokens
  <2> QED  BY <2>2, <2>3
<1>8. NoMissedTimer' /\ NowPast'
  BY <1>1, <1>2 DEF IndInv, NoMissedTimer, NowPast
<1> QED  BY <1>5, <1>6, <1>7, <1>8 DEF IndInv

\* The notification is sent before the caller parks.
LEMMA SleepNotifyPollInv ==
    ASSUME IndInv, NEW a \in Actors, SleepNotifyPoll(a)
    PROVE  IndInv'
<1>0. TypeOK
  BY DEF IndInv
<1>1. /\ notified' = TRUE
      /\ UNCHANGED <<waiters, timers, next_key, shutdown, registered, armed, poll, until, events,
                     now, clock, fd, key, deadline, sleeps, woken, spurious>>
  BY DEF SleepNotifyPoll, poller, callers
<1>2. /\ pc[a] = "notifyPoll" /\ pc'[a] = "sleeping"
      /\ \A b \in Actors : b # a => pc'[b] = pc[b]
      /\ pc' \in [Actors -> {"idle", "add", "parkFd", "delete", "notifyPoll", "sleeping"}]
  BY <1>0, GotoMoves DEF SleepNotifyPoll
<1>3. TypeOK'
  BY <1>0, <1>1, <1>2 DEF TypeOK
<1>4. Keys' /\ Registrations' /\ NoLostFdWakeup'
  <2>1. Keys'
    BY <1>1, <1>2 DEF IndInv, Keys
  <2>2. Registrations'
    BY <1>1, <1>2 DEF IndInv, Registrations
  <2>3. NoLostFdWakeup'
    BY <1>1, <1>2 DEF IndInv, NoLostFdWakeup
  <2> QED  BY <2>1, <2>2, <2>3
<1>5. Tokens'
  <2> SUFFICES ASSUME NEW t \in Actors, Steady(t)' PROVE CallTokens(t)'
    BY DEF Tokens
  <2>1. CallTokens(t)
    BY <1>1 DEF IndInv, Tokens, Steady
  <2> QED  BY <1>1, <1>2, <2>1 DEF CallTokens
<1>6. NoMissedTimer' /\ NowPast'
  BY <1>1 DEF IndInv, NoMissedTimer, NowPast
<1> QED  BY <1>3, <1>4, <1>5, <1>6 DEF IndInv

\* A task that returns from its sleep has used its wake-up, and its timer has fired.
LEMMA SleepUnparkedInv ==
    ASSUME IndInv, NEW a \in Actors, SleepUnparked(a)
    PROVE  IndInv'
<1>0. TypeOK
  BY DEF IndInv
<1>1. UNCHANGED <<waiters, timers, next_key, shutdown, registered, armed, notified, poll, until,
                  events, now, clock, fd, key, deadline, sleeps>>
  BY DEF SleepUnparked, poller, callers
<1>2. /\ pc[a] = "sleeping" /\ pc'[a] = "idle"
      /\ \A b \in Actors : b # a => pc'[b] = pc[b]
      /\ pc' \in [Actors -> {"idle", "add", "parkFd", "delete", "notifyPoll", "sleeping"}]
  BY <1>0, GotoMoves DEF SleepUnparked
<1>3. /\ woken' \in [Actors -> Nat] /\ spurious' \in 0..MaxSpurious
      /\ \A b \in Actors : b # a => woken'[b] = woken[b]
      /\ a \in Tasks \/ spurious' = 0 => woken[a] > 0 /\ woken'[a] = woken[a] - 1
      /\ spurious' = 0 => spurious = 0
  BY <1>0, Unparks DEF SleepUnparked
<1>4. TypeOK'
  BY <1>0, <1>1, <1>2, <1>3 DEF TypeOK
<1>5. Keys' /\ Registrations'
  <2>1. Keys'
    BY <1>1, <1>2 DEF IndInv, Keys
  <2>2. Registrations'
    BY <1>1, <1>2 DEF IndInv, Registrations
  <2> QED  BY <2>1, <2>2
<1>6. NoLostFdWakeup'
  BY <1>1, <1>2, <1>3 DEF IndInv, NoLostFdWakeup
<1>7. Tokens'
  <2> SUFFICES ASSUME NEW t \in Actors, Steady(t)' PROVE CallTokens(t)'
    BY DEF Tokens
  <2>0. t \in Actors /\ Steady(t)
    BY <1>3 DEF Steady
  <2>1. CallTokens(t)
    BY <2>0 DEF IndInv, Tokens
  <2>2. CASE t = a
    <3>1. /\ woken[t] = 1 /\ woken'[t] = 0
          /\ <<deadline[t], t>> \notin timers
      BY <1>2, <1>3, <2>1, <2>2 DEF CallTokens, Steady
    <3>2. \A x \in timers : x[2] # t
      <4> SUFFICES ASSUME NEW x \in timers, x[2] = t PROVE FALSE
        OBVIOUS
      <4>1. x = <<deadline[t], t>>
        BY <1>0, <2>1 DEF CallTokens, TypeOK
      <4> QED  BY <3>1, <4>1
    <3> QED  BY <1>1, <1>2, <2>1, <2>2, <3>1, <3>2 DEF CallTokens
  <2>3. CASE t # a
    BY <1>1, <1>2, <1>3, <2>0, <2>1, <2>3 DEF CallTokens
  <2> QED  BY <2>2, <2>3
<1>8. NoMissedTimer' /\ NowPast'
  BY <1>1, <1>2 DEF IndInv, NoMissedTimer, NowPast
<1> QED  BY <1>4, <1>5, <1>6, <1>7, <1>8 DEF IndInv

-----------------------------------------------------------------------------

\* IndInv is an invariant of the driver, for every number of callers and calls.
THEOREM Invariance == Safety => []IndInv
<1>1. ASSUME IndInv, [Next]_vars PROVE IndInv'
  <2>1. CASE UNCHANGED vars
    <3>1. UNCHANGED <<waiters, timers, next_key, shutdown, registered, armed, notified, poll,
                      until, now, events, clock, pc, fd, key, deadline, sleeps, woken, spurious>>
      BY <2>1 DEF vars, poller, callers
    <3> QED  BY <1>1, <3>1 DEF IndInv, TypeOK, Keys, Registrations, NoLostFdWakeup, Tokens,
                               Steady, CallTokens, NoMissedTimer, NowPast
  <2>2. CASE \/ PollCheck \/ PollDeadline \/ PollFails \/ FireNow
             \/ Shutdown \/ ShutdownNotify \/ Tick
    BY <1>1, <2>2, PollMoves
  <2>3. CASE FireExpiredTimers
    BY <1>1, <2>3, FireInv
  <2>4. CASE \E ready \in SUBSET armed : PollReturns(ready)
    BY <1>1, <2>4, PollReturnsInv
  <2>5. CASE \E k \in 1..MaxKeys : PollEvent(k)
    BY <1>1, <2>5, PollEventInv
  <2>6. ASSUME NEW a \in Actors, CallerStep(a) PROVE IndInv'
    BY <1>1, <2>6, WaitAddInv, WaitAddFailsInv, WaitUnparkedInv, WaitDeleteInv,
       SleepNotifyPollInv, SleepUnparkedInv DEF CallerStep
  <2>7. ASSUME NEW a \in Actors, NEW f \in Fds, WaitInsert(a, f) PROVE IndInv'
    BY <1>1, <2>7, WaitInsertInv
  <2>8. ASSUME NEW a \in Actors, NEW d \in clock..MaxTime, SleepPush(a, d) PROVE IndInv'
    BY <1>1, <2>8, SleepPushInv
  <2> QED  BY <1>1, <2>1, <2>2, <2>3, <2>4, <2>5, <2>6, <2>7, <2>8 DEF Next, PollStep
<1> QED  BY InitIndInv, <1>1, PTL DEF Safety

\* A sleeping task has its timer or its wake-up, never both and never neither.
LEMMA OneTimerPerSleep == IndInv => SleeperHasTimer
<1> SUFFICES ASSUME IndInv, NEW t \in Tasks, pc[t] \in {"notifyPoll", "sleeping"}
             PROVE  Cardinality({x \in timers : x[2] = t}) + woken[t] = 1
  BY DEF SleeperHasTimer
<1> DEFINE S == {x \in timers : x[2] = t}
<1>1. CallTokens(t)
  BY DEF IndInv, Tokens, Steady, Actors
<1>2. \A x \in S : x = <<deadline[t], t>>
  BY <1>1 DEF CallTokens, IndInv, TypeOK
<1>3. CASE woken[t] = 0
  <2>1. S = {<<deadline[t], t>>}
    BY <1>1, <1>2, <1>3 DEF CallTokens
  <2>2. Cardinality(S) = 1
    BY <2>1, FS_Singleton
  <2> QED  BY <1>3, <2>2
<1>4. CASE woken[t] = 1
  <2>1. S = {}
    BY <1>1, <1>2, <1>4 DEF CallTokens
  <2>2. Cardinality(S) = 0
    BY <2>1, FS_EmptySet
  <2> QED  BY <1>4, <2>2
<1> QED  BY <1>1, <1>3, <1>4 DEF CallTokens

\* Neither kind of wait can lose its wake-up, and the poll thread no timer.
THEOREM NoWakeupLost == Safety => []NoLostWakeup
<1>1. IndInv => NoLostWakeup
  BY OneTimerPerSleep DEF IndInv, NoLostWakeup
<1> QED  BY Invariance, <1>1, PTL

\* A caller that sleeps wakes at or after its deadline, since the timers that fire are
\* due, and one that waits for a descriptor wakes for an event of its own call, also
\* after calls that failed; a thread, as long as its park has not returned spuriously.
THEOREM WokenForCause == Safety => NoEarlyReturn
<1> DEFINE Due == \A a \in Actors :
                    a \in Tasks \/ spurious' = 0 =>
                        /\ (pc[a] = "sleeping" /\ pc'[a] = "idle") => clock >= deadline[a]
                        /\ (pc[a] = "parkFd" /\ pc'[a] = "delete") => fd[a] \notin armed
<1>1. ASSUME IndInv, [Next]_vars PROVE [Due]_vars
  <2> SUFFICES ASSUME Next, NEW t \in Actors, t \in Tasks \/ spurious' = 0,
                      \/ pc[t] = "sleeping" /\ pc'[t] = "idle"
                      \/ pc[t] = "parkFd" /\ pc'[t] = "delete"
               PROVE  /\ pc[t] = "sleeping" => clock >= deadline[t]
                      /\ pc[t] = "parkFd" => fd[t] \notin armed
    BY <1>1
  <2>1. TypeOK
    BY <1>1 DEF IndInv
  <2>2. PICK a \in Actors : \/ CallerStep(a)
                            \/ \E f \in Fds : WaitInsert(a, f)
                            \/ \E d \in clock..MaxTime : SleepPush(a, d)
    BY <2>1 DEF Next, PollStep, PollCheck, PollDeadline, FireNow, FireExpiredTimers, PollReturns,
                PollEvent, PollFails, Shutdown, ShutdownNotify, Tick
  <2>3. SleepUnparked(t) \/ WaitUnparked(t)
    <3>1. a = t
      BY <2>1, <2>2 DEF CallerStep, WaitAdd, WaitAddFails, WaitUnparked, WaitDelete,
                        SleepNotifyPoll, SleepUnparked, WaitInsert, SleepPush, Goto, TypeOK
    <3> QED  BY <2>1, <2>2, <3>1 DEF CallerStep, WaitAdd, WaitAddFails, WaitUnparked, WaitDelete,
                        SleepNotifyPoll, SleepUnparked, WaitInsert, SleepPush, Goto, TypeOK
  <2>4. woken[t] > 0 /\ Steady(t)
    BY <2>1, <2>3, Unparks DEF SleepUnparked, WaitUnparked, Steady
  <2>5. CallTokens(t)
    BY <1>1, <2>4 DEF IndInv, Tokens
  <2>6. woken[t] = 1
    BY <2>4, <2>5 DEF CallTokens
  <2> QED  BY <2>5, <2>6 DEF CallTokens
<1>2. Safety => [][Due]_vars
  BY Invariance, <1>1, PTL DEF Safety
<1> QED  BY <1>2 DEF NoEarlyReturn
=============================================================================
