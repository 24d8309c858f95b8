------------------------------- MODULE Select -------------------------------
(***************************************************************************)
(* What the compiler makes of `select { v = rx.recv() => ..., default =>   *)
(* ... }` (lower_select of paco-mir/src/lower.rs): for each arm in turn a  *)
(* call of Receiver::is_ready, then, if it says yes, Receiver::recv, whose *)
(* status nobody looks at; `default` if no arm is ready.                   *)
(*                                                                         *)
(* A channel is what Channel.tla is shown to implement: a bounded queue    *)
(* whose operations happen at one instant. Other tasks send, close and, on *)
(* the receivers the program shares, receive.                              *)
(***************************************************************************)
EXTENDS Integers, Sequences, FiniteSets

CONSTANTS
    Arms,           \* the number of arms; arm i receives from channel i
    Shared,         \* channels other tasks receive from as well
    Capacity,       \* of every channel, at least 1
    MaxValues       \* bound: values sent

ASSUME SelectAssumption ==
    /\ Arms \in Nat \ {0}
    /\ Shared \subseteq 1..Arms
    /\ Capacity \in Nat \ {0}
    /\ MaxValues \in Nat

Nothing == 0        \* an uninitialised binding

VARIABLES
    queue, closed,  \* of each channel
    sent,           \* values sent so far, over all channels
    consumed,       \* values received by other tasks
    pc,             \* idle, check, recv, arm, default
    arm,            \* the arm the selecting task is at
    bound,          \* the arm's binding
    delivered       \* values bound by arms so far

vars == <<queue, closed, sent, consumed, pc, arm, bound, delivered>>

Init ==
    /\ queue = [c \in 1..Arms |-> <<>>]
    /\ closed = [c \in 1..Arms |-> FALSE]
    /\ sent = 0
    /\ consumed = {}
    /\ pc = "idle"
    /\ arm = 1
    /\ bound = Nothing
    /\ delivered = {}

-----------------------------------------------------------------------------
(* The selecting task.                                                     *)

\* Faulty: asks whether there is room, as a sender would.
is_ready_room(c) == Len(queue[c]) < Capacity \/ closed[c]

\* Receiver::is_ready.
is_ready(c) == queue[c] # <<>> \/ closed[c]

Begin ==
    /\ pc = "idle"
    /\ pc' = "check"
    /\ arm' = 1
    /\ UNCHANGED <<queue, closed, sent, consumed, bound, delivered>>

\* One readiness check and the branch on its answer.
Check ==
    /\ pc = "check"
    /\ \/ is_ready(arm) /\ pc' = "recv" /\ UNCHANGED arm
       \/ ~is_ready(arm) /\ arm < Arms /\ arm' = arm + 1 /\ UNCHANGED pc
       \/ ~is_ready(arm) /\ arm = Arms /\ pc' = "default" /\ UNCHANGED arm
    /\ UNCHANGED <<queue, closed, sent, consumed, bound, delivered>>

\* Faulty: the value stays in the channel.
RecvValue_peek ==
    /\ pc = "recv"
    /\ queue[arm] # <<>>
    /\ pc' = "arm"
    /\ bound' = Head(queue[arm])
    /\ delivered' = delivered \cup {bound'}
    /\ UNCHANGED <<queue, closed, sent, consumed, arm>>

\* paco_rt_recv fills the binding and returns 0.
RecvValue ==
    /\ pc = "recv"
    /\ queue[arm] # <<>>
    /\ pc' = "arm"
    /\ bound' = Head(queue[arm])
    /\ delivered' = delivered \cup {bound'}
    /\ queue' = [queue EXCEPT ![arm] = Tail(@)]
    /\ UNCHANGED <<closed, sent, consumed, arm>>

\* Faulty: a closed channel is waited on.
RecvEnded_never ==
    pc = "recv" /\ FALSE

\* paco_rt_recv leaves the binding alone and returns 1: the arm runs all the same.
RecvEnded ==
    /\ pc = "recv"
    /\ queue[arm] = <<>>
    /\ closed[arm]
    /\ pc' = "arm"
    /\ UNCHANGED <<queue, closed, sent, consumed, arm, bound, delivered>>

ArmEnds ==
    /\ pc \in {"arm", "default"}
    /\ pc' = "idle"
    /\ bound' = Nothing
    /\ UNCHANGED <<queue, closed, sent, consumed, arm, delivered>>

-----------------------------------------------------------------------------
(* The other tasks.                                                        *)

Send(c) ==
    /\ sent < MaxValues
    /\ ~closed[c]
    /\ Len(queue[c]) < Capacity
    /\ sent' = sent + 1
    /\ queue' = [queue EXCEPT ![c] = Append(@, sent + 1)]
    /\ UNCHANGED <<closed, consumed, pc, arm, bound, delivered>>

Close(c) ==
    /\ ~closed[c]
    /\ closed' = [closed EXCEPT ![c] = TRUE]
    /\ UNCHANGED <<queue, sent, consumed, pc, arm, bound, delivered>>

OtherRecv(c) ==
    /\ c \in Shared
    /\ queue[c] # <<>>
    /\ consumed' = consumed \cup {Head(queue[c])}
    /\ queue' = [queue EXCEPT ![c] = Tail(@)]
    /\ UNCHANGED <<closed, sent, pc, arm, bound, delivered>>

-----------------------------------------------------------------------------

SelectStep == Check \/ RecvValue \/ RecvEnded \/ ArmEnds

Next ==
    \/ SelectStep \/ Begin
    \/ \E c \in 1..Arms : Send(c) \/ Close(c) \/ OtherRecv(c)

Safety == Init /\ [][Next]_vars

\* The selecting task is run whenever it can go on; nobody has to send, close or
\* receive, and it need not select again.
Spec == Safety /\ WF_vars(SelectStep)

-----------------------------------------------------------------------------

TypeOK ==
    /\ queue \in [1..Arms -> Seq(1..MaxValues)]
    /\ closed \in [1..Arms -> BOOLEAN]
    /\ sent \in 0..MaxValues
    /\ consumed \subseteq 1..MaxValues
    /\ pc \in {"idle", "check", "recv", "arm", "default"}
    /\ arm \in 1..Arms
    /\ bound \in 0..MaxValues
    /\ delivered \subseteq 1..MaxValues

Waiting == UNION {{queue[c][i] : i \in 1..Len(queue[c])} : c \in 1..Arms}

\* Every value sent is in exactly one place: still queued, bound by an arm, or
\* received by another task. The gap between is_ready and recv loses none.
ValueOnce ==
    /\ Waiting \cup consumed \cup delivered = 1..sent
    /\ Waiting \cap consumed = {}
    /\ Waiting \cap delivered = {}
    /\ consumed \cap delivered = {}

\* On a receiver that is not shared, the answer of is_ready is still true when
\* recv is called: the call does not block.
UnsharedNeverBlocks ==
    (pc = "recv" /\ arm \notin Shared) => queue[arm] # <<>> \/ closed[arm]

\* A select comes to an end, unless it blocks in recv on a receiver it shares;
\* and that ends, too, once the channel is closed.
SelectEnds ==
    /\ (pc = "check") ~> (pc = "idle" \/ (pc = "recv" /\ arm \in Shared))
    /\ \A c \in 1..Arms : (pc = "recv" /\ arm = c /\ closed[c]) ~> (pc = "idle")
=============================================================================
