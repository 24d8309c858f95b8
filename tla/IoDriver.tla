------------------------------ MODULE IoDriver ------------------------------
(***************************************************************************)
(* The I/O driver (paco-runtime/src/io.rs): one thread that waits in the   *)
(* operating system's poller for descriptors and for the next timer, and   *)
(* the calls that wait for it: wait_readable, wait_writable, wait_fd and   *)
(* sleep_until.                                                            *)
(*                                                                         *)
(* The poller is a library: `add` fails for a descriptor that is           *)
(* registered already and may fail for any other, an event disarms its     *)
(* registration, and `notify` makes the current or the next wait return.   *)
(***************************************************************************)
EXTENDS Integers, FiniteSets

CONSTANTS
    Tasks,          \* callers that are tasks
    Threads,        \* callers that are threads
    Fds,            \* descriptors
    MaxTime,        \* bound: the clock
    MaxKeys,        \* bound: calls that wait for a descriptor
    MaxSleeps,      \* bound: calls that sleep
    MaxSpurious     \* bound: spurious returns of std::thread::park

Actors == Tasks \cup Threads
NoKey == 0          \* keys count from 1 here, from 0 in the code
Never == MaxTime + 1

ASSUME BoundsAssumption ==
    /\ Tasks \cap Threads = {}
    /\ MaxTime \in Nat /\ MaxKeys \in Nat /\ MaxSleeps \in Nat /\ MaxSpurious \in Nat

VARIABLES
    waiters,        \* IoDriver.waiters, as a set of <<key, actor>>
    timers,         \* IoDriver.timers, as a set of <<deadline, actor>>
    next_key,       \* IoDriver.next_key
    shutdown,       \* IoDriver.shutdown: off, set, or set and notified
    registered,     \* registered[f]: the key the poller watches f for, or NoKey
    armed,          \* descriptors whose registration has not fired yet
    notified,       \* Poller::notify was called since the last wait returned
    poll,           \* where the poll thread is
    until,          \* the deadline it waits for
    now,            \* the time fire_expired_timers read
    events,         \* keys of the events its wait returned
    clock,
    pc, fd, key, deadline,   \* of each caller
    woken,          \* woken[a]: run-queue entries or the unpark token
    sleeps, spurious

callers == <<fd, key, deadline, sleeps>>
poller == <<registered, armed>>
vars == <<waiters, timers, next_key, shutdown, poller, notified, poll,
          until, now, events, clock, pc, callers, woken, spurious>>

Init ==
    /\ waiters = {} /\ timers = {} /\ next_key = 1 /\ shutdown = "off"
    /\ registered = [f \in Fds |-> NoKey] /\ armed = {}
    /\ notified = FALSE /\ poll = "check" /\ until = Never /\ now = 0 /\ events = {}
    /\ clock = 0
    /\ pc = [a \in Actors |-> "idle"]
    /\ fd \in [Actors -> Fds]
    /\ key = [a \in Actors |-> NoKey]
    /\ deadline = [a \in Actors |-> 0]
    /\ woken = [a \in Actors |-> 0]
    /\ sleeps = 0 /\ spurious = 0

Goto(a, from, to) ==
    /\ pc[a] = from
    /\ pc' = [pc EXCEPT ![a] = to]

\* Faulty: the waiters are dropped without being notified.
NotifyAll_nobody(actors) ==
    UNCHANGED woken

\* Notify::notify for each actor of a set.
NotifyAll(actors) ==
    woken' = [a \in Actors |->
                IF a \notin actors THEN woken[a]
                ELSE IF a \in Tasks THEN woken[a] + 1 ELSE 1]

Unparked(a) ==
    \/ /\ woken[a] > 0
       /\ woken' = [woken EXCEPT ![a] = @ - 1]
       /\ UNCHANGED spurious
    \/ /\ a \in Threads
       /\ woken[a] = 0
       /\ spurious < MaxSpurious
       /\ spurious' = spurious + 1
       /\ UNCHANGED woken

-----------------------------------------------------------------------------
(* wait_for and wait_fd.                                                   *)

WaitInsert(a, f) ==
    /\ next_key <= MaxKeys
    /\ Goto(a, "idle", "add")
    /\ next_key' = next_key + 1
    /\ key' = [key EXCEPT ![a] = next_key]
    /\ fd' = [fd EXCEPT ![a] = f]
    /\ waiters' = waiters \cup {<<next_key, a>>}
    /\ UNCHANGED <<timers, shutdown, poller, notified, poll, until,
                   events, now, clock, deadline, sleeps, woken, spurious>>

\* `poller.add(..)?`.
WaitAdd(a) ==
    /\ registered[fd[a]] = NoKey
    /\ Goto(a, "add", "parkFd")
    /\ registered' = [registered EXCEPT ![fd[a]] = key[a]]
    /\ armed' = armed \cup {fd[a]}
    /\ UNCHANGED <<waiters, timers, next_key, shutdown, notified, poll,
                   until, events, now, clock, callers, woken, spurious>>

\* The `?`: the call returns the error, the caller goes on, and may wait or sleep
\* again; the entry of this call stays in `waiters`.
WaitAddFails(a) ==
    /\ Goto(a, "add", "idle")
    /\ key' = [key EXCEPT ![a] = NoKey]
    /\ UNCHANGED <<waiters, timers, next_key, shutdown, poller, notified, poll, until,
                   events, now, clock, fd, deadline, sleeps, woken, spurious>>

WaitUnparked(a) ==
    /\ Goto(a, "parkFd", "delete")
    /\ Unparked(a)
    /\ UNCHANGED <<waiters, timers, next_key, shutdown, poller, notified,
                   poll, until, events, now, clock, callers>>

WaitDelete(a) ==
    /\ Goto(a, "delete", "idle")
    /\ registered' = [registered EXCEPT ![fd[a]] = NoKey]
    /\ armed' = armed \ {fd[a]}
    /\ key' = [key EXCEPT ![a] = NoKey]
    /\ UNCHANGED <<waiters, timers, next_key, shutdown, notified, poll, until,
                   events, now, clock, fd, deadline, sleeps, woken, spurious>>

-----------------------------------------------------------------------------
(* sleep_until.                                                            *)

SleepPush(a, d) ==
    /\ sleeps < MaxSleeps
    /\ Goto(a, "idle", "notifyPoll")
    /\ sleeps' = sleeps + 1
    /\ deadline' = [deadline EXCEPT ![a] = d]
    /\ timers' = timers \cup {<<d, a>>}
    /\ UNCHANGED <<waiters, next_key, shutdown, poller, notified, poll,
                   until, events, now, clock, fd, key, woken, spurious>>

\* Faulty: the poll thread is not told of the new timer.
SleepNotifyPoll_silent(a) ==
    /\ Goto(a, "notifyPoll", "sleeping")
    /\ UNCHANGED <<waiters, timers, next_key, shutdown, poller, notified, poll,
                   until, events, now, clock, callers, woken, spurious>>

SleepNotifyPoll(a) ==
    /\ Goto(a, "notifyPoll", "sleeping")
    /\ notified' = TRUE
    /\ UNCHANGED <<waiters, timers, next_key, shutdown, poller, poll,
                   until, events, now, clock, callers, woken, spurious>>

SleepUnparked(a) ==
    /\ Goto(a, "sleeping", "idle")
    /\ Unparked(a)
    /\ UNCHANGED <<waiters, timers, next_key, shutdown, poller, notified,
                   poll, until, events, now, clock, callers>>

-----------------------------------------------------------------------------
(* poll_loop, and shutdown, which the Runtime's drop calls.                *)

PollCheck ==
    /\ poll = "check"
    /\ poll' = IF shutdown # "off" THEN "exit" ELSE "deadline"
    /\ UNCHANGED <<waiters, timers, next_key, shutdown, poller, notified,
                   until, events, now, clock, pc, callers, woken, spurious>>

NextDeadline ==
    IF timers = {} THEN Never
    ELSE CHOOSE d \in 0..MaxTime :
            /\ \E t \in timers : t[1] = d
            /\ \A t \in timers : d <= t[1]

PollDeadline ==
    /\ poll = "deadline"
    /\ poll' = "wait"
    /\ until' = NextDeadline
    /\ UNCHANGED <<waiters, timers, next_key, shutdown, poller, notified,
                   events, now, clock, pc, callers, woken, spurious>>

\* Poller::wait returns the armed descriptors that are ready, and disarms them.
PollReturns(ready) ==
    /\ poll = "wait"
    /\ notified \/ clock >= until \/ ready # {}
    /\ poll' = "events"
    /\ until' = Never
    /\ notified' = FALSE
    /\ events' = {registered[f] : f \in ready}
    /\ armed' = armed \ ready
    /\ UNCHANGED <<waiters, timers, next_key, shutdown, registered,
                   now, clock, pc, callers, woken, spurious>>

\* The system call fails: the loop goes round, having consumed nothing.
PollFails ==
    /\ poll = "wait"
    /\ poll' = "check"
    /\ until' = Never
    /\ UNCHANGED <<waiters, timers, next_key, shutdown, poller, notified,
                   events, now, clock, pc, callers, woken, spurious>>

PollEvent(k) ==
    /\ poll = "events"
    /\ k \in events
    /\ events' = events \ {k}
    /\ waiters' = {w \in waiters : w[1] # k}
    /\ NotifyAll({w[2] : w \in waiters \ waiters'})
    /\ UNCHANGED <<timers, next_key, shutdown, poller, notified, poll,
                   until, now, clock, pc, callers, spurious>>

\* Instant::now, read before the lock of `timers` is taken.
FireNow ==
    /\ poll = "events"
    /\ events = {}
    /\ poll' = "fire"
    /\ now' = clock
    /\ UNCHANGED <<waiters, timers, next_key, shutdown, poller, notified, until,
                   events, clock, pc, callers, woken, spurious>>

\* Faulty: fires timers that are due at the next tick.
FireExpiredTimers_early ==
    /\ poll = "fire"
    /\ poll' = "check"
    /\ now' = 0
    /\ timers' = {t \in timers : t[1] > now + 1}
    /\ NotifyAll({t[2] : t \in timers \ timers'})
    /\ UNCHANGED <<waiters, next_key, shutdown, poller, notified, until, events,
                   clock, pc, callers, spurious>>

FireExpiredTimers ==
    /\ poll = "fire"
    /\ poll' = "check"
    /\ now' = 0
    /\ timers' = {t \in timers : t[1] > now}
    /\ NotifyAll({t[2] : t \in timers \ timers'})
    /\ UNCHANGED <<waiters, next_key, shutdown, poller, notified, until, events,
                   clock, pc, callers, spurious>>

Shutdown ==
    /\ shutdown = "off"
    /\ shutdown' = "set"
    /\ UNCHANGED <<waiters, timers, next_key, poller, notified, poll, until, now,
                   events, clock, pc, callers, woken, spurious>>

ShutdownNotify ==
    /\ shutdown = "set"
    /\ shutdown' = "notified"
    /\ notified' = TRUE
    /\ UNCHANGED <<waiters, timers, next_key, poller, poll, until, now, events,
                   clock, pc, callers, woken, spurious>>

-----------------------------------------------------------------------------
(* Time passes.                                                            *)

Tick ==
    /\ clock < MaxTime
    /\ clock' = clock + 1
    /\ UNCHANGED <<now, waiters, timers, next_key, shutdown, poller, notified,
                   poll, until, events, pc, callers, woken, spurious>>

-----------------------------------------------------------------------------

PollStep ==
    \/ PollCheck \/ PollDeadline \/ FireNow \/ FireExpiredTimers
    \/ \E ready \in SUBSET armed : PollReturns(ready)
    \/ \E k \in 1..MaxKeys : PollEvent(k)

CallerStep(a) ==
    \/ WaitAdd(a) \/ WaitAddFails(a) \/ WaitUnparked(a) \/ WaitDelete(a)
    \/ SleepNotifyPoll(a) \/ SleepUnparked(a)

Next ==
    \/ PollStep \/ PollFails \/ Shutdown \/ ShutdownNotify \/ Tick
    \/ \E a \in Actors :
        \/ CallerStep(a)
        \/ \E f \in Fds : WaitInsert(a, f)
        \/ \E d \in clock..MaxTime : SleepPush(a, d)

Safety == Init /\ [][Next]_vars

\* The poll thread and the callers run, and time passes. The wait is strongly
\* fair: a system call that fails from some time on is not considered.
Spec ==
    /\ Safety
    /\ WF_vars(PollStep) /\ WF_vars(ShutdownNotify) /\ WF_vars(Tick)
    /\ SF_vars(\E ready \in SUBSET armed : PollReturns(ready))
    /\ \A a \in Actors : WF_vars(CallerStep(a))

-----------------------------------------------------------------------------

TypeOK ==
    /\ waiters \subseteq (1..MaxKeys) \X Actors
    /\ timers \subseteq (0..MaxTime) \X Actors
    /\ next_key \in 1..(MaxKeys + 1)
    /\ shutdown \in {"off", "set", "notified"} /\ notified \in BOOLEAN
    /\ registered \in [Fds -> 0..MaxKeys]
    /\ armed \subseteq Fds
    /\ poll \in {"check", "deadline", "wait", "events", "fire", "exit"}
    /\ until \in 0..Never /\ clock \in 0..MaxTime /\ now \in 0..MaxTime
    /\ events \subseteq 1..MaxKeys
    /\ pc \in [Actors -> {"idle", "add", "parkFd", "delete", "notifyPoll", "sleeping"}]
    /\ fd \in [Actors -> Fds] /\ key \in [Actors -> 0..MaxKeys]
    /\ deadline \in [Actors -> 0..MaxTime]
    /\ woken \in [Actors -> Nat]
    /\ sleeps \in 0..MaxSleeps /\ spurious \in 0..MaxSpurious

\* The poll thread never sleeps past a timer it has not seen: a timer earlier
\* than the deadline it waits for comes with a notification, sent or about to
\* be sent by the caller that pushed the timer.
NoMissedTimer ==
    (poll = "wait" /\ \E t \in timers : t[1] < until)
        => notified \/ \E a \in Actors : pc[a] = "notifyPoll"

\* A caller parked for a descriptor without a wake-up is still known to the
\* driver, and its event is still to come or is being handled: registering in
\* `waiters` before `poller.add` leaves no window for a lost event.
NoLostFdWakeup ==
    \A a \in Actors :
        (pc[a] = "parkFd" /\ woken[a] = 0) =>
            /\ <<key[a], a>> \in waiters
            /\ registered[fd[a]] = key[a]
            /\ fd[a] \in armed \/ key[a] \in events

\* A sleeping task without a wake-up still has its timer; it cannot be forgotten
\* nor be woken twice.
SleeperHasTimer ==
    \A t \in Tasks :
        pc[t] \in {"notifyPoll", "sleeping"} =>
            Cardinality({x \in timers : x[2] = t}) + woken[t] = 1

\* Neither kind of wait can lose its wake-up, and the poll thread no timer.
NoLostWakeup == NoLostFdWakeup /\ SleeperHasTimer /\ NoMissedTimer

\* A caller comes back from the driver only for what it asked for: from a sleep at or
\* after its deadline, from a descriptor once the poller has reported it for this
\* very call. The entry that a call leaves in `waiters` when `poller.add` fails ends
\* no later wait of its caller. A thread has this promise until its park returns
\* spuriously: what the call that was cut short leaves behind ends the next one.
NoEarlyReturn ==
    [][\A a \in Actors :
        a \in Tasks \/ spurious' = 0 =>
            /\ (pc[a] = "sleeping" /\ pc'[a] = "idle") => clock >= deadline[a]
            /\ (pc[a] = "parkFd" /\ pc'[a] = "delete") => fd[a] \notin armed]_vars

\* Every sleep ends, whatever else the driver is doing, unless it is shut down.
SleepEnds ==
    \A a \in Actors : (pc[a] = "sleeping") ~> (pc[a] = "idle" \/ shutdown # "off")

=============================================================================
