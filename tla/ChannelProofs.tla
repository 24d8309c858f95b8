--------------------------- MODULE ChannelProofs ---------------------------
(***************************************************************************)
(* Channel's safety properties for any number of tasks, threads, handles   *)
(* and values, and any capacity; and that every step of Channel is a step  *)
(* of the BoundedFifo specification or leaves it unchanged.                *)
(***************************************************************************)
EXTENDS Channel, FiniteSetTheorems, TLAPS

\* An actor waits with its entry still in the list, or has been woken: between
\* the registration and the wake_all nobody removes an entry.
Registered ==
    \A a \in Actors :
        /\ (pc[a] = "recvPark" /\ woken[a] = 0) => recv_waiters[a] > 0
        /\ (pc[a] = "sendPark" /\ woken[a] = 0) => send_waiters[a] > 0

\* The value of a send stays with the sender until the push or the refusal.
ValueHeld ==
    \A a \in Actors :
        IF pc[a] \in {"send", "sendLock", "sendPark"}
        THEN val[a] \in 1..MaxValues
        ELSE val[a] = 0

\* The inductive invariant.
IndInv ==
    /\ TypeOK
    /\ Bounded
    /\ SendersCounted
    /\ ValueHeld
    /\ Registered
    /\ NoLostRecvWakeup
    /\ NoLostSendWakeup
    /\ EnqueuedOnce
    /\ EndIsFinal

-----------------------------------------------------------------------------

USE ActorsAssumption, CapacityAssumption, BoundsAssumption, HandlesAssumption
    DEF Actors, Locations

\* The constructor's capacity.max(1): even a channel asked for with capacity 0
\* can hold a value.
LEMMA CapacityPositive == capacity \in Nat /\ capacity >= 1
  BY DEF capacity

\* The Senders that exist are finitely many, so their number is a number.
LEMMA LiveFinite == IsFiniteSet(Live) /\ Cardinality(Live) \in Nat
<1>1. Live \subseteq Handles
  BY DEF Live
<1> QED  BY <1>1, FS_Subset, FS_CardinalityType

\* A clone adds one Sender to those that exist.
LEMMA LiveAfterClone ==
    ASSUME TypeOK, NEW h \in Handles \ Live, NEW b \in Actors,
           owner' = [owner EXCEPT ![h] = b]
    PROVE  Cardinality(Live') = Cardinality(Live) + 1
<1>1. Live' = Live \cup {h}
  BY DEF TypeOK, Live
<1> QED  BY <1>1, LiveFinite, FS_AddElement

\* A drop removes one, so there was at least one.
LEMMA LiveAfterDrop ==
    ASSUME TypeOK, NEW h \in Live, owner' = [owner EXCEPT ![h] = Nobody]
    PROVE  /\ Cardinality(Live') = Cardinality(Live) - 1
           /\ Cardinality(Live) > 0
<1>1. Live' = Live \ {h}
  BY DEF TypeOK, Live
<1>2. Cardinality(Live') = Cardinality(Live) - 1
  BY <1>1, LiveFinite, FS_RemoveElement
<1>3. Cardinality(Live) # 0
  BY LiveFinite, FS_EmptySet
<1> QED  BY <1>2, <1>3, LiveFinite

\* Notifying a list never takes a wake-up away and wakes every actor in it.
LEMMA NotifiedWakes ==
    ASSUME TypeOK
    PROVE  /\ Notified(send_waiters) \in [Actors -> Nat]
           /\ Notified(recv_waiters) \in [Actors -> Nat]
           /\ \A b \in Actors : Notified(send_waiters)[b] = 0
                                  => woken[b] = 0 /\ send_waiters[b] = 0
           /\ \A b \in Actors : Notified(recv_waiters)[b] = 0
                                  => woken[b] = 0 /\ recv_waiters[b] = 0
  BY DEF TypeOK, Notified

\* Returning from park consumes a wake-up or one of the spurious returns.
LEMMA UnparkedType ==
    ASSUME TypeOK, NEW a \in Actors, Unparked(a)
    PROVE  woken' \in [Actors -> Nat] /\ spurious' \in 0..MaxSpurious
<1>1. CASE woken[a] > 0
  <2>1. woken' = [woken EXCEPT ![a] = woken[a] - 1] /\ spurious' = spurious
    BY <1>1 DEF Unparked
  <2>2. woken[a] - 1 \in Nat
    BY <1>1 DEF TypeOK
  <2> QED  BY <2>1, <2>2 DEF TypeOK
<1>2. CASE woken[a] = 0
  BY <1>2 DEF TypeOK, Unparked
<1> QED  BY <1>1, <1>2 DEF TypeOK

\* A task returns from park only by consuming its run-queue entry.
LEMMA UnparkedTask ==
    ASSUME TypeOK, NEW a \in Actors, Unparked(a)
    PROVE  \A t \in Tasks : woken'[t] = IF t = a THEN woken[t] - 1 ELSE woken[t]
<1>1. CASE woken[a] > 0
  BY <1>1 DEF TypeOK, Unparked
<1>2. CASE woken[a] = 0
  BY <1>2 DEF TypeOK, Unparked
<1> QED  BY <1>1, <1>2 DEF TypeOK

-----------------------------------------------------------------------------
(* Each conjunct of the invariant, kept by each action.                    *)

\* Every action keeps the variables in their types; that sender_count stays a
\* natural number needs SendersCounted.
LEMMA TypeStep ==
    ASSUME TypeOK, ValueHeld, SendersCounted,
           NEW a \in Actors, CallOp(a) \/ Step(a)
    PROVE  TypeOK'
<1>1. CASE CallSend(a)
  BY <1>1 DEF TypeOK, CallSend, Goto, Owns
<1>2. CASE CallRecv(a)
  BY <1>2 DEF TypeOK, CallRecv, Goto
<1>3. CASE CallClose(a)
  BY <1>3 DEF TypeOK, CallClose, Goto
<1>4. CASE DropSender(a)
  <2>1. PICK h \in Live : owner' = [owner EXCEPT ![h] = Nobody]
    BY <1>4 DEF DropSender
  <2>2. Cardinality(Live) > 0 /\ Cardinality(Live) \in Nat
    BY <2>1, LiveAfterDrop, LiveFinite
  <2>3. sender_count - 1 \in Nat
    BY <2>2 DEF SendersCounted
  <2>4. owner' \in [Handles -> Actors \cup {Nobody}]
    BY <2>1 DEF TypeOK
  <2> QED  BY <1>4, <2>3, <2>4 DEF TypeOK, DropSender, Goto
<1>5. CASE \E b \in Actors : Clone(a, b)
  <2>1. owner' \in [Handles -> Actors \cup {Nobody}]
    BY <1>5 DEF TypeOK, Clone, Live
  <2> QED  BY <1>5, <2>1 DEF TypeOK, Clone
<1>6. CASE SendCheck(a)
  <2>1. pc' \in [Actors -> Locations] /\ val' \in [Actors -> 0..MaxValues]
    <3>1. CASE closed
      <4>1. val' = [val EXCEPT ![a] = 0] /\ pc' = [pc EXCEPT ![a] = "idle"]
        BY <1>6, <3>1 DEF SendCheck, Goto
      <4> QED  BY <4>1 DEF TypeOK
    <3>2. CASE ~closed
      BY <1>6, <3>2 DEF TypeOK, SendCheck, Goto
    <3> QED  BY <3>1, <3>2
  <2> QED  BY <1>6, <2>1 DEF TypeOK, SendCheck
<1>7. CASE SendRefused(a)
  BY <1>7 DEF TypeOK, SendRefused, Goto
<1>8. CASE SendPush(a)
  BY <1>8 DEF TypeOK, ValueHeld, SendPush, Goto
<1>9. CASE SendRegister(a)
  BY <1>9 DEF TypeOK, SendRegister, Goto
<1>10. CASE SendUnparked(a)
  BY <1>10, UnparkedType DEF TypeOK, SendUnparked, Goto
<1>11. CASE SendWake(a)
  BY <1>11, NotifiedWakes DEF TypeOK, SendWake, Goto, wake_all_recv, NoEntry
<1>12. CASE RecvPop(a)
  BY <1>12 DEF TypeOK, RecvPop, Goto
<1>13. CASE RecvEnded(a)
  BY <1>13 DEF TypeOK, RecvEnded, Goto
<1>14. CASE RecvRegister(a)
  BY <1>14 DEF TypeOK, RecvRegister, Goto
<1>15. CASE RecvUnparked(a)
  BY <1>15, UnparkedType DEF TypeOK, RecvUnparked, Goto
<1>16. CASE RecvWake(a)
  BY <1>16, NotifiedWakes DEF TypeOK, RecvWake, Goto, wake_all_send, NoEntry
<1>17. CASE CloseLocked(a)
  BY <1>17 DEF TypeOK, CloseLocked, Goto
<1>18. CASE CloseWakeSend(a)
  BY <1>18, NotifiedWakes DEF TypeOK, CloseWakeSend, Goto, wake_all_send,
        NoEntry
<1>19. CASE CloseWakeRecv(a)
  BY <1>19, NotifiedWakes DEF TypeOK, CloseWakeRecv, Goto, wake_all_recv,
        NoEntry
<1> QED  BY <1>1, <1>2, <1>3, <1>4, <1>5, <1>6, <1>7, <1>8, <1>9, <1>10, <1>11,
          <1>12, <1>13, <1>14, <1>15, <1>16, <1>17, <1>18, <1>19
        DEF CallOp, Step

\* Only Clone and DropSender change the Senders or their count.
LEMMA SendersStep ==
    ASSUME TypeOK, SendersCounted,
           NEW a \in Actors, CallOp(a) \/ Step(a)
    PROVE  SendersCounted'
<1>1. CASE DropSender(a)
  <2>1. PICK h \in Live : owner' = [owner EXCEPT ![h] = Nobody]
    BY <1>1 DEF DropSender
  <2> QED  BY <1>1, <2>1, LiveAfterDrop DEF SendersCounted, DropSender
<1>2. CASE \E b \in Actors : Clone(a, b)
  <2>1. PICK b \in Actors, h \in Handles \ Live :
            owner' = [owner EXCEPT ![h] = b]
    BY <1>2 DEF Clone
  <2> QED  BY <1>2, <2>1, LiveAfterClone DEF SendersCounted, Clone
<1>3. CASE CallSend(a) \/ CallRecv(a) \/ CallClose(a) \/ SendCheck(a)
            \/ SendRefused(a) \/ SendPush(a) \/ SendRegister(a)
            \/ SendUnparked(a) \/ SendWake(a) \/ RecvPop(a) \/ RecvEnded(a)
            \/ RecvRegister(a) \/ RecvUnparked(a) \/ RecvWake(a)
            \/ CloseLocked(a) \/ CloseWakeSend(a) \/ CloseWakeRecv(a)
  BY <1>3, NotifiedWakes DEF SendersCounted, Live, CallSend, CallRecv,
        CallClose, SendCheck, SendRefused, SendPush, SendRegister,
        SendUnparked, SendWake, RecvPop, RecvEnded, RecvRegister, RecvUnparked,
        RecvWake, CloseLocked, CloseWakeSend, CloseWakeRecv, Goto, Owns,
        Unparked, wake_all_recv, NoEntry, wake_all_send
<1> QED  BY <1>1, <1>2, <1>3 DEF CallOp, Step

\* Only SendPush lengthens the queue, after testing its length.
LEMMA BoundedStep ==
    ASSUME TypeOK, Bounded, ValueHeld,
           NEW a \in Actors, CallOp(a) \/ Step(a)
    PROVE  Bounded'
<1>1. CASE SendPush(a)
  BY <1>1, CapacityPositive DEF TypeOK, ValueHeld, Bounded, SendPush, Goto
<1>2. CASE RecvPop(a)
  BY <1>2, CapacityPositive DEF TypeOK, Bounded, RecvPop, Goto
<1>3. CASE CallSend(a) \/ CallRecv(a) \/ CallClose(a) \/ DropSender(a)
            \/ (\E b \in Actors : Clone(a, b)) \/ SendCheck(a)
            \/ SendRefused(a) \/ SendRegister(a) \/ SendUnparked(a)
            \/ SendWake(a) \/ RecvEnded(a) \/ RecvRegister(a)
            \/ RecvUnparked(a) \/ RecvWake(a) \/ CloseLocked(a)
            \/ CloseWakeSend(a) \/ CloseWakeRecv(a)
  BY <1>3, CapacityPositive, NotifiedWakes DEF TypeOK, Bounded, CallSend,
        CallRecv, CallClose, DropSender, Clone, SendCheck, SendRefused,
        SendRegister, SendUnparked, SendWake, RecvEnded, RecvRegister,
        RecvUnparked, RecvWake, CloseLocked, CloseWakeSend, CloseWakeRecv,
        Goto, Owns, Live, Unparked, wake_all_recv, NoEntry, wake_all_send
<1> QED  BY <1>1, <1>2, <1>3 DEF CallOp, Step

\* A send keeps its value until it is pushed or refused.
LEMMA ValueStep ==
    ASSUME TypeOK, ValueHeld,
           NEW a \in Actors, CallOp(a) \/ Step(a)
    PROVE  ValueHeld'
<1>1. CASE CallSend(a)
  BY <1>1 DEF TypeOK, ValueHeld, CallSend, Goto, Owns
<1>2. CASE SendCheck(a)
  BY <1>2 DEF TypeOK, ValueHeld, SendCheck, Goto
<1>3. CASE SendRefused(a)
  BY <1>3 DEF TypeOK, ValueHeld, SendRefused, Goto
<1>4. CASE SendPush(a)
  BY <1>4 DEF TypeOK, ValueHeld, SendPush, Goto
<1>5. CASE DropSender(a) \/ (\E b \in Actors : Clone(a, b))
  BY <1>5 DEF TypeOK, ValueHeld, DropSender, Clone, Goto, Live
<1>6. CASE CallRecv(a) \/ CallClose(a) \/ SendRegister(a) \/ SendUnparked(a)
            \/ RecvPop(a) \/ RecvEnded(a) \/ RecvRegister(a) \/ RecvUnparked(a)
            \/ CloseLocked(a)
  BY <1>6 DEF TypeOK, ValueHeld, CallRecv, CallClose, SendRegister,
        SendUnparked, RecvPop, RecvEnded, RecvRegister, RecvUnparked,
        CloseLocked, Goto, Unparked
<1>7. CASE SendWake(a) \/ RecvWake(a) \/ CloseWakeSend(a) \/ CloseWakeRecv(a)
  BY <1>7, NotifiedWakes DEF TypeOK, ValueHeld, SendWake, RecvWake,
        CloseWakeSend, CloseWakeRecv, Goto, wake_all_recv, NoEntry,
        wake_all_send
<1> QED  BY <1>1, <1>2, <1>3, <1>4, <1>5, <1>6, <1>7 DEF CallOp, Step

\* An entry leaves a waiter list only by a wake_all, which sets woken.
LEMMA RegisteredStep ==
    ASSUME TypeOK, Registered,
           NEW a \in Actors, CallOp(a) \/ Step(a)
    PROVE  Registered'
<1>1. CASE SendRegister(a)
  BY <1>1 DEF TypeOK, Registered, SendRegister, Goto
<1>2. CASE SendUnparked(a)
  BY <1>2 DEF TypeOK, Registered, SendUnparked, Goto, Unparked
<1>3. CASE RecvRegister(a)
  BY <1>3 DEF TypeOK, Registered, RecvRegister, Goto
<1>4. CASE RecvUnparked(a)
  BY <1>4 DEF TypeOK, Registered, RecvUnparked, Goto, Unparked
<1>5. CASE CallSend(a) \/ CallRecv(a) \/ CallClose(a) \/ DropSender(a)
            \/ (\E b \in Actors : Clone(a, b)) \/ SendCheck(a)
            \/ SendRefused(a) \/ SendPush(a) \/ RecvPop(a) \/ RecvEnded(a)
            \/ CloseLocked(a)
  BY <1>5 DEF TypeOK, Registered, CallSend, CallRecv, CallClose, DropSender,
        Clone, SendCheck, SendRefused, SendPush, RecvPop, RecvEnded,
        CloseLocked, Goto, Owns, Live
<1>6. CASE SendWake(a) \/ CloseWakeRecv(a)
  BY <1>6, NotifiedWakes DEF TypeOK, Registered, SendWake, CloseWakeRecv, Goto,
        wake_all_recv, NoEntry
<1>7. CASE RecvWake(a) \/ CloseWakeSend(a)
  BY <1>7, NotifiedWakes DEF TypeOK, Registered, RecvWake, CloseWakeSend, Goto,
        wake_all_send, NoEntry
<1> QED  BY <1>1, <1>2, <1>3, <1>4, <1>5, <1>6, <1>7 DEF CallOp, Step

\* A push or a close puts its actor in front of the wake_all that clears the
\* obligation; only that wake_all takes the actor away.
LEMMA RecvWakeupStep ==
    ASSUME TypeOK, Registered, NoLostRecvWakeup,
           NEW a \in Actors, CallOp(a) \/ Step(a)
    PROVE  NoLostRecvWakeup'
<1>1. CASE SendPush(a)
  BY <1>1 DEF TypeOK, Registered, NoLostRecvWakeup, SendPush, Goto
<1>2. CASE SendUnparked(a)
  BY <1>2 DEF TypeOK, Registered, NoLostRecvWakeup, SendUnparked, Goto,
        Unparked
<1>3. CASE SendWake(a)
  <2>1. \A b \in Actors : pc'[b] = "recvPark" => woken'[b] # 0
    BY <1>3, NotifiedWakes DEF TypeOK, Registered, SendWake, Goto, wake_all_recv
  <2> QED  BY <1>3, <2>1 DEF NoLostRecvWakeup, SendWake
<1>4. CASE RecvRegister(a)
  BY <1>4 DEF TypeOK, Registered, NoLostRecvWakeup, RecvRegister, Goto
<1>5. CASE RecvUnparked(a)
  BY <1>5 DEF TypeOK, Registered, NoLostRecvWakeup, RecvUnparked, Goto,
        Unparked
<1>6. CASE RecvWake(a)
  BY <1>6, NotifiedWakes DEF TypeOK, Registered, NoLostRecvWakeup, RecvWake,
        Goto, wake_all_send, NoEntry
<1>7. CASE CloseLocked(a)
  BY <1>7 DEF TypeOK, Registered, NoLostRecvWakeup, CloseLocked, Goto
<1>8. CASE CloseWakeSend(a)
  BY <1>8, NotifiedWakes DEF TypeOK, Registered, NoLostRecvWakeup,
        CloseWakeSend, Goto, wake_all_send, NoEntry
<1>9. CASE CloseWakeRecv(a)
  <2>1. \A b \in Actors : pc'[b] = "recvPark" => woken'[b] # 0
    BY <1>9, NotifiedWakes
          DEF TypeOK, Registered, CloseWakeRecv, Goto, wake_all_recv
  <2> QED  BY <1>9, <2>1 DEF NoLostRecvWakeup, CloseWakeRecv
<1>10. CASE CallSend(a) \/ CallRecv(a) \/ CallClose(a) \/ DropSender(a)
            \/ (\E b \in Actors : Clone(a, b)) \/ SendCheck(a)
            \/ SendRefused(a)
  BY <1>10 DEF TypeOK, Registered, NoLostRecvWakeup, CallSend, CallRecv,
        CallClose, DropSender, Clone, SendCheck, SendRefused, Goto, Owns, Live
<1>11. CASE SendRegister(a) \/ RecvPop(a) \/ RecvEnded(a)
  BY <1>11 DEF TypeOK, Registered, NoLostRecvWakeup, SendRegister, RecvPop,
        RecvEnded, Goto
<1> QED  BY <1>1, <1>2, <1>3, <1>4, <1>5, <1>6, <1>7, <1>8, <1>9, <1>10, <1>11
        DEF CallOp, Step

\* The same on the sending side, where a pop makes room.
LEMMA SendWakeupStep ==
    ASSUME TypeOK, Bounded, Registered, NoLostSendWakeup,
           NEW a \in Actors, CallOp(a) \/ Step(a)
    PROVE  NoLostSendWakeup'
<1>1. CASE SendPush(a)
  BY <1>1, CapacityPositive DEF TypeOK, Bounded, Registered, NoLostSendWakeup,
        SendPush, Goto
<1>2. CASE SendRegister(a)
  BY <1>2, CapacityPositive DEF TypeOK, Bounded, Registered, NoLostSendWakeup,
        SendRegister, Goto
<1>3. CASE SendUnparked(a)
  BY <1>3, CapacityPositive DEF TypeOK, Bounded, Registered, NoLostSendWakeup,
        SendUnparked, Goto, Unparked
<1>4. CASE SendWake(a)
  BY <1>4, CapacityPositive, NotifiedWakes DEF TypeOK, Bounded, Registered,
        NoLostSendWakeup, SendWake, Goto, wake_all_recv, NoEntry
<1>5. CASE RecvPop(a)
  BY <1>5, CapacityPositive DEF TypeOK, Bounded, Registered, NoLostSendWakeup,
        RecvPop, Goto
<1>6. CASE RecvUnparked(a)
  BY <1>6, CapacityPositive DEF TypeOK, Bounded, Registered, NoLostSendWakeup,
        RecvUnparked, Goto, Unparked
<1>7. CASE RecvWake(a)
  <2>1. \A b \in Actors : pc'[b] = "sendPark" => woken'[b] # 0
    BY <1>7, NotifiedWakes DEF TypeOK, Registered, RecvWake, Goto, wake_all_send
  <2> QED  BY <1>7, <2>1 DEF NoLostSendWakeup, RecvWake
<1>8. CASE CloseLocked(a)
  BY <1>8, CapacityPositive DEF TypeOK, Bounded, Registered, NoLostSendWakeup,
        CloseLocked, Goto
<1>9. CASE CloseWakeSend(a)
  <2>1. \A b \in Actors : pc'[b] = "sendPark" => woken'[b] # 0
    BY <1>9, NotifiedWakes
          DEF TypeOK, Registered, CloseWakeSend, Goto, wake_all_send
  <2> QED  BY <1>9, <2>1 DEF NoLostSendWakeup, CloseWakeSend
<1>10. CASE CloseWakeRecv(a)
  BY <1>10, CapacityPositive, NotifiedWakes DEF TypeOK, Bounded, Registered,
        NoLostSendWakeup, CloseWakeRecv, Goto, wake_all_recv, NoEntry
<1>11. CASE CallSend(a) \/ CallRecv(a) \/ CallClose(a) \/ DropSender(a)
            \/ (\E b \in Actors : Clone(a, b)) \/ SendCheck(a)
            \/ SendRefused(a)
  BY <1>11, CapacityPositive DEF TypeOK, Bounded, Registered, NoLostSendWakeup,
        CallSend, CallRecv, CallClose, DropSender, Clone, SendCheck,
        SendRefused, Goto, Owns, Live
<1>12. CASE RecvEnded(a) \/ RecvRegister(a)
  BY <1>12, CapacityPositive DEF TypeOK, Bounded, Registered, NoLostSendWakeup,
        RecvEnded, RecvRegister, Goto
<1> QED  BY <1>1, <1>2, <1>3, <1>4, <1>5, <1>6, <1>7, <1>8, <1>9, <1>10, <1>11,
          <1>12 DEF CallOp, Step

\* A registration adds the one entry, wake_all turns it into the one run-queue
\* entry, and the resumption consumes that.
LEMMA EnqueuedStep ==
    ASSUME TypeOK, EnqueuedOnce,
           NEW a \in Actors, CallOp(a) \/ Step(a)
    PROVE  EnqueuedOnce'
<1>1. CASE SendRegister(a)
  BY <1>1 DEF TypeOK, EnqueuedOnce, SendRegister, Goto
<1>2. CASE SendUnparked(a)
  BY <1>2, UnparkedTask DEF TypeOK, EnqueuedOnce, SendUnparked, Goto
<1>3. CASE SendWake(a)
  BY <1>3 DEF TypeOK, EnqueuedOnce, SendWake, Goto, wake_all_recv, Notified,
        NoEntry
<1>4. CASE RecvRegister(a)
  BY <1>4 DEF TypeOK, EnqueuedOnce, RecvRegister, Goto
<1>5. CASE RecvUnparked(a)
  BY <1>5, UnparkedTask DEF TypeOK, EnqueuedOnce, RecvUnparked, Goto
<1>6. CASE RecvWake(a)
  BY <1>6 DEF TypeOK, EnqueuedOnce, RecvWake, Goto, wake_all_send, Notified,
        NoEntry
<1>7. CASE CloseWakeSend(a)
  BY <1>7 DEF TypeOK, EnqueuedOnce, CloseWakeSend, Goto, wake_all_send,
        Notified, NoEntry
<1>8. CASE CloseWakeRecv(a)
  BY <1>8 DEF TypeOK, EnqueuedOnce, CloseWakeRecv, Goto, wake_all_recv,
        Notified, NoEntry
<1>9. CASE CallSend(a) \/ CallRecv(a) \/ CallClose(a) \/ DropSender(a)
            \/ (\E b \in Actors : Clone(a, b)) \/ SendCheck(a)
            \/ SendRefused(a) \/ SendPush(a) \/ RecvPop(a) \/ RecvEnded(a)
            \/ CloseLocked(a)
  BY <1>9 DEF TypeOK, EnqueuedOnce, CallSend, CallRecv, CallClose, DropSender,
        Clone, SendCheck, SendRefused, SendPush, RecvPop, RecvEnded,
        CloseLocked, Goto, Owns, Live
<1> QED  BY <1>1, <1>2, <1>3, <1>4, <1>5, <1>6, <1>7, <1>8, <1>9
        DEF CallOp, Step

\* After an ended recv the channel is closed, and a closed channel accepts
\* nothing: SendPush tests closed under the lock that close takes.
LEMMA EndStep ==
    ASSUME TypeOK, EndIsFinal,
           NEW a \in Actors, CallOp(a) \/ Step(a)
    PROVE  EndIsFinal'
<1>1. CASE SendPush(a)
  BY <1>1 DEF TypeOK, EndIsFinal, SendPush, Goto
<1>2. CASE RecvPop(a)
  BY <1>2 DEF TypeOK, EndIsFinal, RecvPop, Goto
<1>3. CASE RecvEnded(a)
  BY <1>3 DEF TypeOK, EndIsFinal, RecvEnded, Goto
<1>4. CASE CallSend(a) \/ CallRecv(a) \/ CallClose(a) \/ DropSender(a)
            \/ (\E b \in Actors : Clone(a, b)) \/ SendCheck(a)
            \/ SendRefused(a) \/ SendRegister(a) \/ SendUnparked(a)
            \/ SendWake(a) \/ RecvRegister(a) \/ RecvUnparked(a) \/ RecvWake(a)
            \/ CloseLocked(a) \/ CloseWakeSend(a) \/ CloseWakeRecv(a)
  BY <1>4, NotifiedWakes DEF TypeOK, EndIsFinal, CallSend, CallRecv, CallClose,
        DropSender, Clone, SendCheck, SendRefused, SendRegister, SendUnparked,
        SendWake, RecvRegister, RecvUnparked, RecvWake, CloseLocked,
        CloseWakeSend, CloseWakeRecv, Goto, Owns, Live, Unparked,
        wake_all_recv, NoEntry, wake_all_send
<1> QED  BY <1>1, <1>2, <1>3, <1>4 DEF CallOp, Step

-----------------------------------------------------------------------------

\* A new channel satisfies the invariant.
LEMMA InitInv == Init => IndInv
<1> SUFFICES ASSUME Init PROVE IndInv
  OBVIOUS
<1>1. SendersCounted
  <2>1. PICK h \in Handles, a \in Actors :
            owner = [i \in Handles |-> IF i = h THEN a ELSE Nobody]
    BY DEF Init
  <2>2. Live = {h}
    BY <2>1 DEF Live
  <2> QED  BY <2>2, FS_Singleton DEF Init, SendersCounted
<1>2. TypeOK
  <2>1. owner \in [Handles -> Actors \cup {Nobody}]
    BY DEF Init
  <2>2. queue \in Seq(1..MaxValues)
    BY DEF Init
  <2>3. /\ send_waiters \in [Actors -> Nat] /\ recv_waiters \in [Actors -> Nat]
        /\ woken \in [Actors -> Nat] /\ pc \in [Actors -> Locations]
        /\ val \in [Actors -> 0..MaxValues]
    BY DEF Init
  <2>4. sender_count \in Nat /\ offered \in 0..MaxValues /\ spurious \in 0..MaxSpurious
    BY DEF Init
  <2>5. closed \in BOOLEAN /\ ended \in BOOLEAN
    BY DEF Init
  <2> QED  BY <2>1, <2>2, <2>3, <2>4, <2>5 DEF TypeOK
<1>3. Bounded /\ ValueHeld /\ Registered /\ EnqueuedOnce /\ EndIsFinal
  BY CapacityPositive DEF Init, Bounded, ValueHeld, Registered, EnqueuedOnce,
        EndIsFinal
<1>4. NoLostRecvWakeup /\ NoLostSendWakeup
  BY DEF Init, NoLostRecvWakeup, NoLostSendWakeup
<1> QED  BY <1>1, <1>2, <1>3, <1>4 DEF IndInv

\* Every step keeps the invariant.
LEMMA NextInv == IndInv /\ [Next]_vars => IndInv'
<1> SUFFICES ASSUME IndInv, [Next]_vars PROVE IndInv'
  OBVIOUS
<1>1. CASE UNCHANGED vars
  BY <1>1 DEF vars, IndInv, TypeOK, Bounded, SendersCounted, Live, ValueHeld,
        Registered, NoLostRecvWakeup, NoLostSendWakeup, EnqueuedOnce, EndIsFinal
<1>2. CASE Next
  <2>1. PICK a \in Actors : CallOp(a) \/ Step(a)
    BY <1>2 DEF Next
  <2>2. TypeOK' /\ SendersCounted' /\ Bounded' /\ ValueHeld'
    BY <2>1, TypeStep, SendersStep, BoundedStep, ValueStep DEF IndInv
  <2>3. Registered' /\ NoLostRecvWakeup' /\ NoLostSendWakeup'
    BY <2>1, RegisteredStep, RecvWakeupStep, SendWakeupStep DEF IndInv
  <2>4. EnqueuedOnce' /\ EndIsFinal'
    BY <2>1, EnqueuedStep, EndStep DEF IndInv
  <2> QED  BY <2>2, <2>3, <2>4 DEF IndInv
<1> QED  BY <1>1, <1>2

\* The invariant holds in every reachable state.
LEMMA Invariance == Safety => []IndInv
  BY InitInv, NextInv, PTL DEF Safety

\* The variables of channel.rs keep their types for every instance.
THEOREM TypeCorrect == Safety => []TypeOK
  BY Invariance, PTL DEF IndInv

\* The queue stays within the capacity, for every capacity asked for.
THEOREM QueueBounded == Safety => []Bounded
  BY Invariance, PTL DEF IndInv

\* No wake-up of a parked receiver or sender is lost, for any number of them:
\* the comment at Inner::close, "every registered waiter sees the wakeup".
THEOREM NoLostWakeups == Safety => []NoLostWakeup
  BY Invariance, PTL DEF IndInv, NoLostWakeup

\* No task is ever in the run queues twice because of a channel.
THEOREM TaskEnqueuedOnce == Safety => []EnqueuedOnce
  BY Invariance, PTL DEF IndInv

\* A RecvError is final: nothing that send accepted is left behind it.
THEOREM EndOfStreamFinal == Safety => []EndIsFinal
  BY Invariance, PTL DEF IndInv

\* The channel is closed by the drop of its last Sender and by no earlier drop.
THEOREM SenderCountExact == Safety => []SendersCounted
  BY Invariance, PTL DEF IndInv

-----------------------------------------------------------------------------
(* Channel implements BoundedFifo.                                         *)

\* Moving an actor moves its call.
LEMMA OpMoves ==
    ASSUME TypeOK, NEW a \in Actors, NEW loc \in Locations,
           pc' = [pc EXCEPT ![a] = loc]
    PROVE  Op' = [Op EXCEPT ![a] = OpAt(loc)]
  BY DEF TypeOK, Op

\* What each location stands for, for a leaf that must not expand OpAt.
LEMMA OpLocations ==
    /\ \A l \in {"send", "sendLock", "sendPark"} : OpAt(l) = "send"
    /\ \A l \in {"recv", "recvPark"} : OpAt(l) = "recv"
    /\ OpAt("close") = "close"
    /\ \A l \in {"idle", "wakeRecv", "wakeSend", "closeWakeSend", "closeWakeRecv"} :
            OpAt(l) = "idle"
  BY DEF OpAt

\* A new channel is an empty open queue with one sending end.
LEMMA InitFifo == Init => Fifo!Init
  BY OpLocations DEF Init, Fifo!Init, Op

\* Calling send begins a send of the next value.
LEMMA CallSendFifo ==
    ASSUME IndInv, NEW a \in Actors, CallSend(a)
    PROVE  Fifo!CallSend(a, offered + 1)
<1>1. TypeOK /\ ValueHeld
  BY DEF IndInv
<1>2. Op[a] = OpAt(pc[a]) /\ Op' = [Op EXCEPT ![a] = OpAt(pc'[a])]
  BY <1>1, OpMoves DEF CallSend, Goto, TypeOK, Op
<1> QED  BY <1>1, <1>2, OpLocations DEF CallSend, Goto, TypeOK,
        Fifo!CallSend, Fifo!Begin

\* A refusal under the lock is a send that fails because of the close.
LEMMA SendRefusedFifo ==
    ASSUME IndInv, NEW a \in Actors, SendRefused(a)
    PROVE  Fifo!SendErr(a)
<1>1. TypeOK /\ ValueHeld
  BY DEF IndInv
<1>2. Op[a] = OpAt(pc[a]) /\ Op' = [Op EXCEPT ![a] = OpAt(pc'[a])]
  BY <1>1, OpMoves DEF SendRefused, Goto, TypeOK, Op
<1> QED  BY <1>1, <1>2, OpLocations DEF SendRefused, Goto, TypeOK,
        Fifo!SendErr, Fifo!Return

\* The push is the instant a send takes effect.
LEMMA SendPushFifo ==
    ASSUME IndInv, NEW a \in Actors, SendPush(a)
    PROVE  Fifo!SendOk(a)
<1>1. TypeOK /\ ValueHeld
  BY DEF IndInv
<1>2. Op[a] = OpAt(pc[a]) /\ Op' = [Op EXCEPT ![a] = OpAt(pc'[a])]
  BY <1>1, OpMoves DEF SendPush, Goto, TypeOK, Op
<1> QED  BY <1>1, <1>2, OpLocations DEF SendPush, Goto, TypeOK,
        Fifo!SendOk, Fifo!Return

\* Calling recv begins a receive.
LEMMA CallRecvFifo ==
    ASSUME IndInv, NEW a \in Actors, CallRecv(a)
    PROVE  Fifo!Call(a, "recv")
<1>1. TypeOK /\ ValueHeld
  BY DEF IndInv
<1>2. Op[a] = OpAt(pc[a]) /\ Op' = [Op EXCEPT ![a] = OpAt(pc'[a])]
  BY <1>1, OpMoves DEF CallRecv, Goto, TypeOK, Op
<1> QED  BY <1>1, <1>2, OpLocations DEF CallRecv, Goto, TypeOK,
        Fifo!Call, Fifo!Begin

\* The pop is the instant a receive takes effect.
LEMMA RecvPopFifo ==
    ASSUME IndInv, NEW a \in Actors, RecvPop(a)
    PROVE  Fifo!RecvOk(a)
<1>1. TypeOK /\ ValueHeld
  BY DEF IndInv
<1>2. Op[a] = OpAt(pc[a]) /\ Op' = [Op EXCEPT ![a] = OpAt(pc'[a])]
  BY <1>1, OpMoves DEF RecvPop, Goto, TypeOK, Op
<1>3. val' = [val EXCEPT ![a] = 0]
  BY <1>1 DEF TypeOK, ValueHeld, RecvPop, Goto
<1> QED  BY <1>1, <1>2, <1>3, OpLocations DEF RecvPop, Goto, TypeOK,
        Fifo!RecvOk, Fifo!Return

\* A RecvError is reported at an instant when nothing accepted is left.
LEMMA RecvEndedFifo ==
    ASSUME IndInv, NEW a \in Actors, RecvEnded(a)
    PROVE  Fifo!RecvErr(a)
<1>1. TypeOK /\ ValueHeld
  BY DEF IndInv
<1>2. Op[a] = OpAt(pc[a]) /\ Op' = [Op EXCEPT ![a] = OpAt(pc'[a])]
  BY <1>1, OpMoves DEF RecvEnded, Goto, TypeOK, Op
<1>3. val' = [val EXCEPT ![a] = 0]
  BY <1>1 DEF TypeOK, ValueHeld, RecvEnded, Goto
<1> QED  BY <1>1, <1>2, <1>3, OpLocations DEF RecvEnded, Goto, TypeOK,
        Fifo!RecvErr, Fifo!Return

\* Calling close, from either end, begins a close.
LEMMA CallCloseFifo ==
    ASSUME IndInv, NEW a \in Actors, CallClose(a)
    PROVE  Fifo!Call(a, "close")
<1>1. TypeOK /\ ValueHeld
  BY DEF IndInv
<1>2. Op[a] = OpAt(pc[a]) /\ Op' = [Op EXCEPT ![a] = OpAt(pc'[a])]
  BY <1>1, OpMoves DEF CallClose, Goto, TypeOK, Op
<1> QED  BY <1>1, <1>2, OpLocations DEF CallClose, Goto, TypeOK,
        Fifo!Call, Fifo!Begin

\* The store to closed under the lock is the instant of the close.
LEMMA CloseLockedFifo ==
    ASSUME IndInv, NEW a \in Actors, CloseLocked(a)
    PROVE  Fifo!DoClose(a)
<1>1. TypeOK /\ ValueHeld
  BY DEF IndInv
<1>2. Op[a] = OpAt(pc[a]) /\ Op' = [Op EXCEPT ![a] = OpAt(pc'[a])]
  BY <1>1, OpMoves DEF CloseLocked, Goto, TypeOK, Op
<1>3. val' = [val EXCEPT ![a] = 0]
  BY <1>1 DEF TypeOK, ValueHeld, CloseLocked, Goto
<1> QED  BY <1>1, <1>2, <1>3, OpLocations DEF CloseLocked, Goto, TypeOK,
        Fifo!DoClose, Fifo!Return


\* A clone adds a sending end; that one exists to be cloned is SendersCounted.
LEMMA CloneFifo ==
    ASSUME IndInv, NEW a \in Actors, NEW b \in Actors, Clone(a, b)
    PROVE  Fifo!Clone
<1>1. PICK h \in Handles : owner[h] = a
  BY DEF Clone, Owns
<1>2. h \in Live
  BY <1>1 DEF Live
<1>3. sender_count > 0
  BY <1>2, LiveFinite, FS_EmptySet DEF IndInv, SendersCounted
<1> QED  BY <1>3 DEF Clone, Fifo!Clone, Op

\* A drop removes a sending end, and begins a close when it was the last.
LEMMA DropSenderFifo ==
    ASSUME IndInv, NEW a \in Actors, DropSender(a)
    PROVE  Fifo!Drop(a)
<1>1. TypeOK
  BY DEF IndInv
<1>2. PICK h \in Live : owner' = [owner EXCEPT ![h] = Nobody]
  BY DEF DropSender
<1>3. sender_count > 0
  BY <1>1, <1>2, LiveAfterDrop DEF IndInv, SendersCounted
<1>4. Op[a] = "idle"
  BY OpLocations DEF DropSender, Goto, Op
<1>5. CASE sender_count = 1
  <2>1. Op' = [Op EXCEPT ![a] = "close"]
    BY <1>1, <1>5, OpMoves, OpLocations DEF DropSender, Goto
  <2> QED  BY <1>3, <1>4, <1>5, <2>1 DEF DropSender, Fifo!Drop, Fifo!Begin
<1>6. CASE sender_count # 1
  <2>1. pc' = pc
    BY <1>1, <1>6 DEF DropSender, Goto, TypeOK
  <2>2. Op' = Op
    BY <2>1 DEF Op
  <2> QED  BY <1>3, <1>4, <1>6, <2>2 DEF DropSender, Fifo!Drop
<1> QED  BY <1>5, <1>6

\* The unlocked test of closed either fails the send or is invisible.
LEMMA SendCheckFifo ==
    ASSUME IndInv, NEW a \in Actors, SendCheck(a)
    PROVE  Fifo!SendErr(a) \/ UNCHANGED Fifo!vars
<1>1. TypeOK
  BY DEF IndInv
<1>2. Op[a] = "send"
  BY OpLocations DEF SendCheck, Goto, Op
<1>3. CASE closed
  <2>1. Op' = [Op EXCEPT ![a] = "idle"]
    BY <1>1, <1>3, OpMoves, OpLocations DEF SendCheck, Goto
  <2> QED  BY <1>2, <1>3, <2>1 DEF SendCheck, Goto, Fifo!SendErr, Fifo!Return
<1>4. CASE ~closed
  <2>1. Op' = [Op EXCEPT ![a] = "send"]
    BY <1>1, <1>4, OpMoves, OpLocations DEF SendCheck, Goto
  <2>2. Op' = Op
    BY <1>2, <2>1 DEF Op
  <2> QED  BY <1>4, <2>2 DEF SendCheck, Fifo!vars
<1> QED  BY <1>3, <1>4

\* Registering, returning from park and waking others are invisible.
LEMMA InvisibleSteps ==
    ASSUME IndInv, NEW a \in Actors,
           \/ SendRegister(a) \/ SendUnparked(a) \/ SendWake(a)
           \/ RecvRegister(a) \/ RecvUnparked(a) \/ RecvWake(a)
           \/ CloseWakeSend(a) \/ CloseWakeRecv(a)
    PROVE  UNCHANGED Fifo!vars
<1>1. TypeOK
  BY DEF IndInv
<1>2. PICK loc \in Locations :
            pc' = [pc EXCEPT ![a] = loc] /\ OpAt(loc) = OpAt(pc[a])
  BY <1>1, OpLocations DEF SendRegister, SendUnparked, SendWake, RecvRegister,
        RecvUnparked, RecvWake, CloseWakeSend, CloseWakeRecv, Goto
<1>3. Op' = [Op EXCEPT ![a] = Op[a]]
  BY <1>1, <1>2, OpMoves DEF Op
<1>4. Op' = Op
  BY <1>3 DEF Op
<1>5. UNCHANGED <<queue, closed, sender_count, val>>
  BY DEF SendRegister, SendUnparked, SendWake, RecvRegister, RecvUnparked,
        RecvWake, CloseWakeSend, CloseWakeRecv
<1> QED  BY <1>4, <1>5 DEF Fifo!vars

\* Every step of the channel is a step of the queue or invisible.
LEMMA NextFifo == IndInv /\ [Next]_vars => [Fifo!Next]_(Fifo!vars)
<1> SUFFICES ASSUME IndInv, [Next]_vars PROVE [Fifo!Next]_(Fifo!vars)
  OBVIOUS
<1>1. CASE UNCHANGED vars
  BY <1>1 DEF vars, Fifo!vars, Op
<1>2. ASSUME NEW a \in Actors, CallOp(a)
      PROVE  Fifo!Next
  <2>1. CASE CallSend(a)
    <3>1. offered + 1 \in 1..MaxValues
      BY <2>1 DEF CallSend, IndInv, TypeOK
    <3> QED  BY <2>1, <3>1, CallSendFifo DEF Fifo!Next
  <2>2. CASE CallRecv(a) \/ CallClose(a)
    BY <2>2, CallRecvFifo, CallCloseFifo DEF Fifo!Next
  <2>3. CASE DropSender(a) \/ \E b \in Actors : Clone(a, b)
    BY <2>3, DropSenderFifo, CloneFifo DEF Fifo!Next
  <2> QED  BY <1>2, <2>1, <2>2, <2>3 DEF CallOp
<1>3. ASSUME NEW a \in Actors, Step(a)
      PROVE  [Fifo!Next]_(Fifo!vars)
  <2>1. CASE SendCheck(a)
    BY <2>1, SendCheckFifo DEF Fifo!Next, Fifo!Send
  <2>2. CASE SendRefused(a) \/ SendPush(a)
    BY <2>2, SendRefusedFifo, SendPushFifo DEF Fifo!Next, Fifo!Send
  <2>3. CASE RecvPop(a) \/ RecvEnded(a)
    BY <2>3, RecvPopFifo, RecvEndedFifo DEF Fifo!Next, Fifo!Recv
  <2>4. CASE CloseLocked(a)
    BY <2>4, CloseLockedFifo DEF Fifo!Next
  <2>5. CASE \/ SendRegister(a) \/ SendUnparked(a) \/ SendWake(a)
             \/ RecvRegister(a) \/ RecvUnparked(a) \/ RecvWake(a)
             \/ CloseWakeSend(a) \/ CloseWakeRecv(a)
    BY <2>5, InvisibleSteps
  <2> QED  BY <1>3, <2>1, <2>2, <2>3, <2>4, <2>5 DEF Step
<1> QED  BY <1>1, <1>2, <1>3 DEF Next

\* channel.rs, with its locks, waiter lists and wake-ups, implements the bounded
\* FIFO queue, for any number of actors and any capacity: the safety part of
\* ImplementsFifo.
THEOREM ChannelImplementsFifo == Safety => Fifo!Safety
  BY InitFifo, NextFifo, Invariance, PTL DEF Safety, Fifo!Safety
=============================================================================
