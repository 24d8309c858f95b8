------------------------------ MODULE Channel ------------------------------
(***************************************************************************)
(* One channel of the paco runtime (paco-runtime/src/channel.rs and        *)
(* sync.rs), at the granularity of its locks: what runs under the `queue`  *)
(* mutex is one step, `wake_all` (which drains a waiter list under that    *)
(* list's own mutex) is another, and any other actor may run in between.   *)
(*                                                                         *)
(* An actor is a task (it parks by suspending its coroutine and is woken   *)
(* by being enqueued) or a plain thread (std::thread::park and unpark).    *)
(***************************************************************************)
EXTENDS Integers, Sequences, FiniteSets

CONSTANTS
    Tasks,          \* actors for which Notify::current is a Waker
    Threads,        \* actors for which it is a std::thread::Thread
    Capacity,       \* the capacity the program asks for
    MaxValues,      \* bound: values the program sends
    Handles,        \* bound: identities for live Sender values
    Nobody,         \* the owner of a Sender that does not exist
    MaxSpurious     \* bound: spurious returns of std::thread::park

Actors == Tasks \cup Threads

ASSUME ActorsAssumption == Tasks \cap Threads = {}
ASSUME CapacityAssumption == Capacity \in Nat
ASSUME BoundsAssumption == MaxValues \in Nat /\ MaxSpurious \in Nat
ASSUME HandlesAssumption == IsFiniteSet(Handles) /\ Nobody \notin Actors

VARIABLES
    queue,          \* Inner.queue
    closed,         \* Inner.closed
    sender_count,   \* Inner.sender_count
    send_waiters,   \* send_waiters[a]: entries of actor a in Inner.send_waiters
    recv_waiters,   \* recv_waiters[a]: entries of actor a in Inner.recv_waiters
    woken,          \* woken[a]: run-queue entries (task) or unpark token (thread)
    owner,          \* owner[h]: the actor that owns the Sender h, or Nobody
    pc,             \* where actor a is in channel.rs
    val,            \* val[a]: the argument of a's send, 0 when it has none
    offered,        \* values given to send so far
    spurious,       \* spurious wake-ups so far
    ended           \* some recv has returned RecvError

vars == <<queue, closed, sender_count, send_waiters, recv_waiters, woken,
          owner, pc, val, offered, spurious, ended>>

\* The constructor's `capacity.max(1)`.
capacity == IF Capacity > 1 THEN Capacity ELSE 1

Locations ==
    { "idle",
      "send", "sendLock", "sendPark", "wakeRecv",      \* Sender::send
      "recv", "recvPark", "wakeSend",                  \* Receiver::recv
      "close", "closeWakeSend", "closeWakeRecv" }      \* Inner::close

-----------------------------------------------------------------------------

Init ==
    /\ queue = <<>>
    /\ closed = FALSE
    /\ sender_count = 1
    /\ send_waiters = [a \in Actors |-> 0]
    /\ recv_waiters = [a \in Actors |-> 0]
    /\ woken = [a \in Actors |-> 0]
    /\ \E h \in Handles, a \in Actors :
            owner = [i \in Handles |-> IF i = h THEN a ELSE Nobody]
    /\ pc = [a \in Actors |-> "idle"]
    /\ val = [a \in Actors |-> 0]
    /\ offered = 0
    /\ spurious = 0
    /\ ended = FALSE

Live == {h \in Handles : owner[h] # Nobody}
Owns(a) == \E h \in Handles : owner[h] = a

Goto(a, from, to) ==
    /\ pc[a] = from
    /\ pc' = [pc EXCEPT ![a] = to]

NoEntry == [a \in Actors |-> 0]

\* Notify::notify on every entry of a drained list: a task's waker is fresh for
\* each registration, so each entry enqueues the task once; an unpark leaves at
\* most one token.
Notified(waiters) ==
    [a \in Actors |->
        IF a \in Tasks THEN woken[a] + waiters[a]
        ELSE IF waiters[a] > 0 THEN 1 ELSE woken[a]]

\* Faulty: the list is not drained.
wake_all_send_keep ==
    woken' = Notified(send_waiters) /\ UNCHANGED <<send_waiters, recv_waiters>>

wake_all_send ==
    /\ woken' = Notified(send_waiters)
    /\ send_waiters' = NoEntry
    /\ UNCHANGED recv_waiters

\* Faulty: the waiting receivers are not woken.
wake_all_recv_nop ==
    UNCHANGED <<woken, send_waiters, recv_waiters>>

wake_all_recv ==
    /\ woken' = Notified(recv_waiters)
    /\ recv_waiters' = NoEntry
    /\ UNCHANGED send_waiters

\* Notify::park returns: the task was enqueued and a worker resumes it, or the
\* thread has its token, or park returned for no reason, as it may.
Unparked(a) ==
    \/ /\ woken[a] > 0
       /\ woken' = [woken EXCEPT ![a] = @ - 1]
       /\ UNCHANGED spurious
    \/ /\ a \in Threads
       /\ woken[a] = 0
       /\ spurious < MaxSpurious
       /\ spurious' = spurious + 1
       /\ UNCHANGED woken

-----------------------------------------------------------------------------
(* Sender::send.                                                           *)

CallSend(a) ==
    /\ Owns(a)
    /\ offered < MaxValues
    /\ Goto(a, "idle", "send")
    /\ offered' = offered + 1
    /\ val' = [val EXCEPT ![a] = offered + 1]
    /\ UNCHANGED <<queue, closed, sender_count, send_waiters, recv_waiters,
                   woken, owner, spurious, ended>>

\* The test of `closed` before the lock is taken.
SendCheck(a) ==
    /\ IF closed
       THEN Goto(a, "send", "idle") /\ val' = [val EXCEPT ![a] = 0]
       ELSE Goto(a, "send", "sendLock") /\ UNCHANGED val
    /\ UNCHANGED <<queue, closed, sender_count, send_waiters, recv_waiters,
                   woken, owner, offered, spurious, ended>>

SendRefused(a) ==
    /\ closed
    /\ Goto(a, "sendLock", "idle")
    /\ val' = [val EXCEPT ![a] = 0]
    /\ UNCHANGED <<queue, closed, sender_count, send_waiters, recv_waiters,
                   woken, owner, offered, spurious, ended>>

\* Faulty: relies on the test of `closed` before the lock.
SendPush_unchecked(a) ==
    /\ Len(queue) < capacity
    /\ Goto(a, "sendLock", "wakeRecv")
    /\ queue' = Append(queue, val[a])
    /\ val' = [val EXCEPT ![a] = 0]
    /\ UNCHANGED <<closed, sender_count, send_waiters, recv_waiters,
                   woken, owner, offered, spurious, ended>>

SendPush(a) ==
    /\ ~closed
    /\ Len(queue) < capacity
    /\ Goto(a, "sendLock", "wakeRecv")
    /\ queue' = Append(queue, val[a])
    /\ val' = [val EXCEPT ![a] = 0]
    /\ UNCHANGED <<closed, sender_count, send_waiters, recv_waiters,
                   woken, owner, offered, spurious, ended>>

SendRegister(a) ==
    /\ ~closed
    /\ Len(queue) >= capacity
    /\ Goto(a, "sendLock", "sendPark")
    /\ send_waiters' = [send_waiters EXCEPT ![a] = @ + 1]
    /\ UNCHANGED <<queue, closed, sender_count, recv_waiters,
                   woken, owner, val, offered, spurious, ended>>

SendUnparked(a) ==
    /\ Goto(a, "sendPark", "send")
    /\ Unparked(a)
    /\ UNCHANGED <<queue, closed, sender_count, send_waiters, recv_waiters,
                   owner, val, offered, ended>>

SendWake(a) ==
    /\ Goto(a, "wakeRecv", "idle")
    /\ wake_all_recv
    /\ UNCHANGED <<queue, closed, sender_count, owner, val, offered,
                   spurious, ended>>

-----------------------------------------------------------------------------
(* Receiver::recv. Receivers are shared by reference: any actor may call.  *)

CallRecv(a) ==
    /\ Goto(a, "idle", "recv")
    /\ UNCHANGED <<queue, closed, sender_count, send_waiters, recv_waiters,
                   woken, owner, val, offered, spurious, ended>>

RecvPop(a) ==
    /\ queue # <<>>
    /\ Goto(a, "recv", "wakeSend")
    /\ queue' = Tail(queue)
    /\ UNCHANGED <<closed, sender_count, send_waiters, recv_waiters,
                   woken, owner, val, offered, spurious, ended>>

RecvEnded(a) ==
    /\ queue = <<>>
    /\ closed
    /\ Goto(a, "recv", "idle")
    /\ ended' = TRUE
    /\ UNCHANGED <<queue, closed, sender_count, send_waiters, recv_waiters,
                   woken, owner, val, offered, spurious>>

RecvRegister(a) ==
    /\ queue = <<>>
    /\ ~closed
    /\ Goto(a, "recv", "recvPark")
    /\ recv_waiters' = [recv_waiters EXCEPT ![a] = @ + 1]
    /\ UNCHANGED <<queue, closed, sender_count, send_waiters,
                   woken, owner, val, offered, spurious, ended>>

RecvUnparked(a) ==
    /\ Goto(a, "recvPark", "recv")
    /\ Unparked(a)
    /\ UNCHANGED <<queue, closed, sender_count, send_waiters, recv_waiters,
                   owner, val, offered, ended>>

RecvWake(a) ==
    /\ Goto(a, "wakeSend", "idle")
    /\ wake_all_send
    /\ UNCHANGED <<queue, closed, sender_count, owner, val, offered,
                   spurious, ended>>

-----------------------------------------------------------------------------
(* Sender::clone, Drop for Sender, Sender::close, Receiver::close and the  *)
(* Inner::close they share.                                                *)

\* Faulty: the clone is not counted.
Clone_uncounted(a, b) ==
    /\ pc[a] = "idle"
    /\ Owns(a)
    /\ \E h \in Handles \ Live : owner' = [owner EXCEPT ![h] = b]
    /\ UNCHANGED <<queue, closed, sender_count, send_waiters, recv_waiters,
                   woken, pc, val, offered, spurious, ended>>

\* The clone may be moved into another actor, as spawn does with captures.
Clone(a, b) ==
    /\ pc[a] = "idle"
    /\ Owns(a)
    /\ \E h \in Handles \ Live : owner' = [owner EXCEPT ![h] = b]
    /\ sender_count' = sender_count + 1
    /\ UNCHANGED <<queue, closed, send_waiters, recv_waiters, woken, pc, val,
                   offered, spurious, ended>>

DropSender(a) ==
    /\ Goto(a, "idle", IF sender_count = 1 THEN "close" ELSE "idle")
    /\ \E h \in Live : owner[h] = a /\ owner' = [owner EXCEPT ![h] = Nobody]
    /\ sender_count' = sender_count - 1
    /\ UNCHANGED <<queue, closed, send_waiters, recv_waiters, woken, val,
                   offered, spurious, ended>>

\* Either end may close: Sender::close and Receiver::close are the same call.
CallClose(a) ==
    /\ Goto(a, "idle", "close")
    /\ UNCHANGED <<queue, closed, sender_count, send_waiters, recv_waiters,
                   woken, owner, val, offered, spurious, ended>>

CloseLocked(a) ==
    /\ Goto(a, "close", "closeWakeSend")
    /\ closed' = TRUE
    /\ UNCHANGED <<queue, sender_count, send_waiters, recv_waiters, woken,
                   owner, val, offered, spurious, ended>>

CloseWakeSend(a) ==
    /\ Goto(a, "closeWakeSend", "closeWakeRecv")
    /\ wake_all_send
    /\ UNCHANGED <<queue, closed, sender_count, owner, val, offered,
                   spurious, ended>>

CloseWakeRecv(a) ==
    /\ Goto(a, "closeWakeRecv", "idle")
    /\ wake_all_recv
    /\ UNCHANGED <<queue, closed, sender_count, owner, val, offered,
                   spurious, ended>>

-----------------------------------------------------------------------------

\* The steps an actor takes inside a call it has made.
Step(a) ==
    \/ SendCheck(a) \/ SendRefused(a) \/ SendPush(a) \/ SendRegister(a)
    \/ SendUnparked(a) \/ SendWake(a)
    \/ RecvPop(a) \/ RecvEnded(a) \/ RecvRegister(a)
    \/ RecvUnparked(a) \/ RecvWake(a)
    \/ CloseLocked(a) \/ CloseWakeSend(a) \/ CloseWakeRecv(a)

\* The calls the program may or may not make.
CallOp(a) ==
    \/ CallSend(a) \/ CallRecv(a) \/ CallClose(a) \/ DropSender(a)
    \/ \E b \in Actors : Clone(a, b)

Next == \E a \in Actors : CallOp(a) \/ Step(a)

Safety == Init /\ [][Next]_vars

\* The operating system runs threads, and the scheduler runs every task that
\* is in a run queue; nothing obliges the program to make another call.
Spec == Safety /\ \A a \in Actors : WF_vars(Step(a))

-----------------------------------------------------------------------------
(* Properties.                                                             *)

TypeOK ==
    /\ queue \in Seq(1..MaxValues)
    /\ closed \in BOOLEAN
    /\ sender_count \in Nat
    /\ send_waiters \in [Actors -> Nat]
    /\ recv_waiters \in [Actors -> Nat]
    /\ woken \in [Actors -> Nat]
    /\ owner \in [Handles -> Actors \cup {Nobody}]
    /\ pc \in [Actors -> Locations]
    /\ val \in [Actors -> 0..MaxValues]
    /\ offered \in 0..MaxValues
    /\ spurious \in 0..MaxSpurious
    /\ ended \in BOOLEAN

\* The queue never holds more than the capacity it was created with (at least
\* one, whatever was asked), however many senders raced through the lock.
Bounded == Len(queue) <= capacity

\* A receiver that is parked and has not been woken, while a value waits or the
\* channel is closed, is about to be woken: some actor stands between its
\* change of the channel and its wake_all on recv_waiters.
NoLostRecvWakeup ==
    \A a \in Actors :
        (pc[a] = "recvPark" /\ woken[a] = 0 /\ (queue # <<>> \/ closed))
            => \E b \in Actors : pc[b] \in {"wakeRecv", "closeWakeSend", "closeWakeRecv"}

\* The same for a sender parked on a full channel, once there is room or the
\* channel is closed.
NoLostSendWakeup ==
    \A a \in Actors :
        (pc[a] = "sendPark" /\ woken[a] = 0 /\ (Len(queue) < capacity \/ closed))
            => \E b \in Actors : pc[b] \in {"wakeSend", "closeWakeSend"}

\* No wake-up is lost, on either side: whoever changed what a parked actor waits
\* for still has its wake_all ahead.
NoLostWakeup == NoLostRecvWakeup /\ NoLostSendWakeup

\* A task is in the scheduler's run queues at most once, and only while it is
\* parked: a task enqueued twice would be resumed again later, in the middle of
\* an unrelated wait or after it finished ("resumed a finished task", task.rs).
EnqueuedOnce ==
    \A t \in Tasks :
        woken[t] + send_waiters[t] + recv_waiters[t]
            <= (IF pc[t] \in {"sendPark", "recvPark"} THEN 1 ELSE 0)

\* sender_count counts exactly the Senders that exist, through any number of
\* clones and drops: the channel is closed by the drop of the last one, and by
\* no earlier drop.
SendersCounted == sender_count = Cardinality(Live)

\* Once a receiver has been told that the stream ended, nothing is ever in the
\* queue again: no accepted value is stranded behind a RecvError.
EndIsFinal == ended => closed /\ queue = <<>>

\* The call an actor is inside of, as the specification of a bounded FIFO queue
\* sees it: a call is over once it has had its effect, before its wake_all.
OpAt(loc) ==
    IF loc \in {"send", "sendLock", "sendPark"} THEN "send"
    ELSE IF loc \in {"recv", "recvPark"} THEN "recv"
    ELSE IF loc = "close" THEN "close"
    ELSE "idle"

Op == [a \in Actors |-> OpAt(pc[a])]

Fifo == INSTANCE BoundedFifo WITH
    Values <- 1..MaxValues, None <- 0, Bound <- capacity,
    senders <- sender_count, op <- Op, arg <- val

\* The channel is a bounded FIFO queue: each send and recv takes effect at one
\* instant, in order, within the capacity; an error is reported only when it is
\* due; and a call that can go on from some point on does return.
ImplementsFifo == Fifo!Spec
=============================================================================
