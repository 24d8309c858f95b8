---------------------------- MODULE BoundedFifo ----------------------------
(***************************************************************************)
(* What a paco channel promises its users, with the locks, waiter lists    *)
(* and wake-ups of channel.rs left out: a first-in first-out queue of      *)
(* bounded size, whose operations take effect at one instant between their *)
(* call and their return, and which loses nothing that was accepted.       *)
(* Channel.tla is shown to implement this specification.                   *)
(***************************************************************************)
EXTENDS Integers, Sequences

CONSTANTS
    Actors,     \* tasks and threads that hold ends of the channel
    Values,     \* what can be sent
    None,       \* stands for no value
    Bound       \* how many accepted values may wait

VARIABLES
    queue,      \* values accepted and not yet received
    closed,     \* no further value will be accepted
    senders,    \* live sending ends
    op,         \* op[a]: the call actor a is inside of
    arg         \* arg[a]: the value a is sending

vars == <<queue, closed, senders, op, arg>>

Init ==
    /\ queue = <<>>
    /\ closed = FALSE
    /\ senders = 1
    /\ op = [a \in Actors |-> "idle"]
    /\ arg = [a \in Actors |-> None]

Begin(a, o) ==
    /\ op[a] = "idle"
    /\ op' = [op EXCEPT ![a] = o]

Return(a) ==
    /\ op' = [op EXCEPT ![a] = "idle"]
    /\ arg' = [arg EXCEPT ![a] = None]

CallSend(a, v) ==
    /\ Begin(a, "send")
    /\ arg' = [arg EXCEPT ![a] = v]
    /\ UNCHANGED <<queue, closed, senders>>

Call(a, o) ==
    /\ Begin(a, o)
    /\ UNCHANGED <<queue, closed, senders, arg>>

\* A value is accepted only while the channel is open and has room.
SendOk(a) ==
    /\ op[a] = "send"
    /\ ~closed
    /\ Len(queue) < Bound
    /\ queue' = Append(queue, arg[a])
    /\ Return(a)
    /\ UNCHANGED <<closed, senders>>

SendErr(a) ==
    /\ op[a] = "send"
    /\ closed
    /\ Return(a)
    /\ UNCHANGED <<queue, closed, senders>>

RecvOk(a) ==
    /\ op[a] = "recv"
    /\ queue # <<>>
    /\ queue' = Tail(queue)
    /\ Return(a)
    /\ UNCHANGED <<closed, senders>>

\* The end of the stream is reported only when nothing accepted is left.
RecvErr(a) ==
    /\ op[a] = "recv"
    /\ queue = <<>>
    /\ closed
    /\ Return(a)
    /\ UNCHANGED <<queue, closed, senders>>

DoClose(a) ==
    /\ op[a] = "close"
    /\ closed' = TRUE
    /\ Return(a)
    /\ UNCHANGED <<queue, senders>>

Clone ==
    /\ senders > 0
    /\ senders' = senders + 1
    /\ UNCHANGED <<queue, closed, op, arg>>

\* Dropping the last sending end closes the channel.
Drop(a) ==
    /\ senders > 0
    /\ senders' = senders - 1
    /\ IF senders = 1 THEN Begin(a, "close") ELSE op[a] = "idle" /\ UNCHANGED op
    /\ UNCHANGED <<queue, closed, arg>>

Send(a) == SendOk(a) \/ SendErr(a)
Recv(a) == RecvOk(a) \/ RecvErr(a)

Next ==
    \/ Clone
    \/ \E a \in Actors :
        \/ \E v \in Values : CallSend(a, v)
        \/ \E o \in {"recv", "close"} : Call(a, o)
        \/ Send(a) \/ Recv(a) \/ DoClose(a) \/ Drop(a)

Safety == Init /\ [][Next]_vars

\* A call that can take effect from some point on takes effect: a sender
\* facing room, a receiver facing values, anyone facing a closed channel.
Fairness ==
    \A a \in Actors :
        /\ WF_vars(Send(a))
        /\ WF_vars(Recv(a))
        /\ WF_vars(DoClose(a))

Spec == Safety /\ Fairness
=============================================================================
