----------------------------- MODULE JoinProofs -----------------------------
(***************************************************************************)
(* Join's safety properties, for any number of joiners: the result of a    *)
(* task is delivered once, no joiner sleeps through it, and the slot       *)
(* implements OneShot.                                                     *)
(***************************************************************************)
EXTENDS Join, FiniteSetTheorems, TLAPS

\* The slot is filled by the one complete(), and emptied by the one join that
\* returns with what it held.
Winners == {j \in Joiners : pc[j] = "returned"}
Delivery ==
    /\ task = "running" => outcome = "none" /\ value = "none"
    /\ task # "running" => outcome # "none"
    /\ value # "none" => value = outcome
    /\ IF outcome # "none" /\ value = "none"
       THEN \E j \in Joiners : Winners = {j}
       ELSE Winners = {}
    /\ \A j \in Winners : got[j] = outcome

\* Until the task completes, a joiner that sleeps has its entry in the slot;
\* complete() takes every entry there is.
Registered ==
    \A j \in Joiners :
        (task = "running" /\ pc[j] = "park" /\ woken[j] = 0) => waiters[j] > 0

\* The inductive invariant.
IndInv == TypeOK /\ Delivery /\ Registered /\ NoLostJoinWakeup

-----------------------------------------------------------------------------

USE JoinersAssumption DEF Joiners, Outcomes

\* The invariant holds of a slot nobody has used yet.
LEMMA InitIndInv == Init => IndInv
  BY DEF Init, IndInv, TypeOK, Delivery, Winners, Registered, NoLostJoinWakeup

\* Every action keeps the variables in their types.
LEMMA TypeStep ==
    ASSUME TypeOK, [Next]_vars
    PROVE  TypeOK'
<1>1. ASSUME NEW j \in Joiners, CallJoin(j) PROVE TypeOK'
  BY <1>1 DEF TypeOK, CallJoin, Goto
<1>2. ASSUME NEW j \in Joiners, JoinTake(j) PROVE TypeOK'
  BY <1>2 DEF TypeOK, JoinTake, Goto
<1>3. ASSUME NEW j \in Joiners, JoinRegister(j) PROVE TypeOK'
  BY <1>3 DEF TypeOK, JoinRegister, Goto
<1>4. ASSUME NEW j \in Joiners, JoinUnparked(j) PROVE TypeOK'
  <2>1. woken' \in [Joiners -> Nat] /\ spurious' \in 0..MaxSpurious
    BY <1>4 DEF TypeOK, JoinUnparked
  <2> QED  BY <1>4, <2>1 DEF TypeOK, JoinUnparked, Goto
<1>5. ASSUME NEW r \in Outcomes, Complete(r) PROVE TypeOK'
  BY <1>5 DEF TypeOK, Complete
<1>6. ASSUME NEW j \in Joiners, NotifyWaiter(j) PROVE TypeOK'
  BY <1>6 DEF TypeOK, NotifyWaiter
<1>7. CASE NotifiedAll
  BY <1>7 DEF TypeOK, NotifiedAll
<1>8. CASE UNCHANGED vars
  BY <1>8 DEF TypeOK, vars
<1> QED
  BY <1>1, <1>2, <1>3, <1>4, <1>5, <1>6, <1>7, <1>8 DEF Next, TaskStep, JoinStep

\* The result is in one place: nowhere yet, in the slot, or with one joiner.
LEMMA DeliveryStep ==
    ASSUME TypeOK, Delivery, [Next]_vars
    PROVE  Delivery'
<1>1. ASSUME NEW j \in Joiners, CallJoin(j) PROVE Delivery'
  <2>1. Winners' = Winners
    BY <1>1 DEF TypeOK, CallJoin, Goto, Winners
  <2> QED  BY <1>1, <2>1 DEF Delivery, CallJoin
<1>2. ASSUME NEW j \in Joiners, JoinTake(j) PROVE Delivery'
  <2>1. Winners = {}
    BY <1>2 DEF Delivery, JoinTake
  <2>2. Winners' = {j}
    BY <1>2, <2>1 DEF TypeOK, JoinTake, Goto, Winners
  <2> QED  BY <1>2, <2>2 DEF TypeOK, Delivery, JoinTake
<1>3. ASSUME NEW j \in Joiners, JoinRegister(j) PROVE Delivery'
  <2>1. Winners' = Winners
    BY <1>3 DEF TypeOK, JoinRegister, Goto, Winners
  <2> QED  BY <1>3, <2>1 DEF Delivery, JoinRegister
<1>4. ASSUME NEW j \in Joiners, JoinUnparked(j) PROVE Delivery'
  <2>1. Winners' = Winners
    BY <1>4 DEF TypeOK, JoinUnparked, Goto, Winners
  <2> QED  BY <1>4, <2>1 DEF Delivery, JoinUnparked
<1>5. ASSUME NEW r \in Outcomes, Complete(r) PROVE Delivery'
  <2>1. Winners' = Winners /\ Winners = {}
    BY <1>5 DEF Delivery, Complete, Winners
  <2> QED  BY <1>5, <2>1 DEF Delivery, Complete
<1>6. ASSUME NEW j \in Joiners, NotifyWaiter(j) PROVE Delivery'
  BY <1>6 DEF Delivery, Winners, NotifyWaiter
<1>7. CASE NotifiedAll
  BY <1>7 DEF Delivery, Winners, NotifiedAll
<1>8. CASE UNCHANGED vars
  BY <1>8 DEF Delivery, Winners, vars
<1> QED
  BY <1>1, <1>2, <1>3, <1>4, <1>5, <1>6, <1>7, <1>8 DEF Next, TaskStep, JoinStep

\* Registering needs an empty slot and completing takes every entry, so a
\* joiner either is in the list complete() takes or finds the result.
LEMMA WakeupStep ==
    ASSUME TypeOK, Delivery, Registered, NoLostJoinWakeup, [Next]_vars
    PROVE  Registered' /\ NoLostJoinWakeup'
<1> USE DEF TypeOK, Registered, NoLostJoinWakeup
<1>1. ASSUME NEW j \in Joiners, CallJoin(j) PROVE Registered' /\ NoLostJoinWakeup'
  BY <1>1 DEF CallJoin, Goto
<1>2. ASSUME NEW j \in Joiners, JoinTake(j) PROVE Registered' /\ NoLostJoinWakeup'
  BY <1>2 DEF JoinTake, Goto
<1>3. ASSUME NEW j \in Joiners, JoinRegister(j) PROVE Registered' /\ NoLostJoinWakeup'
  BY <1>3 DEF JoinRegister, Goto
<1>4. ASSUME NEW j \in Joiners, JoinUnparked(j) PROVE Registered' /\ NoLostJoinWakeup'
  BY <1>4 DEF JoinUnparked, Goto
<1>5. ASSUME NEW r \in Outcomes, Complete(r) PROVE Registered' /\ NoLostJoinWakeup'
  BY <1>5 DEF Complete
<1>6. ASSUME NEW j \in Joiners, NotifyWaiter(j) PROVE Registered' /\ NoLostJoinWakeup'
  BY <1>6 DEF NotifyWaiter
<1>7. CASE NotifiedAll
  BY <1>7 DEF NotifiedAll
<1>8. CASE UNCHANGED vars
  BY <1>8 DEF vars
<1> QED
  BY <1>1, <1>2, <1>3, <1>4, <1>5, <1>6, <1>7, <1>8 DEF Next, TaskStep, JoinStep

\* The invariant holds of every state the joiners and complete() can reach.
THEOREM Invariance == Safety => []IndInv
<1>1. IndInv /\ [Next]_vars => IndInv'
  BY TypeStep, DeliveryStep, WakeupStep DEF IndInv
<1> QED  BY InitIndInv, <1>1, PTL DEF Safety

-----------------------------------------------------------------------------

\* No joiner sleeps while the result is in the slot and complete() has already
\* notified everyone it is going to (JoinHandle::join, complete).
THEOREM NoJoinerForgotten == Safety => []NoLostJoinWakeup
  BY Invariance, PTL DEF IndInv

\* The result of a task leaves its slot once, to one joiner, unchanged, however
\* many join the handle (Slot.value.take()).
THEOREM ResultDeliveredOnce == Safety => []DeliveredOnce
<1>1. IndInv => DeliveredOnce
  <2> SUFFICES ASSUME IndInv PROVE DeliveredOnce
    OBVIOUS
  <2>1. Cardinality(Winners) = IF outcome # "none" /\ value = "none" THEN 1 ELSE 0
    BY FS_EmptySet, FS_Singleton DEF IndInv, Delivery
  <2> QED  BY <2>1 DEF IndInv, Delivery, DeliveredOnce, Winners
<1> QED  BY Invariance, <1>1, PTL

-----------------------------------------------------------------------------
(* The slot implements OneShot.                                            *)

\* A slot nobody has used yet.
LEMMA InitHandle == Init => Handle!Init
  BY DEF Init, Handle!Init, Op

\* Storing the outcome under the lock and taking it away are the steps of OneShot;
\* registering, sleeping and being notified are not seen there.
LEMMA NextHandle == IndInv /\ [Next]_vars => [Handle!Next]_(Handle!vars)
<1> SUFFICES ASSUME IndInv, [Next]_vars PROVE [Handle!Next]_(Handle!vars)
  OBVIOUS
<1> USE DEF IndInv, TypeOK
<1>1. ASSUME NEW j \in Joiners, CallJoin(j) PROVE Handle!Call(j)
  <2>1. Op[j] = "idle" /\ Op' = [Op EXCEPT ![j] = "join"]
    BY <1>1 DEF CallJoin, Goto, Op
  <2> QED  BY <1>1, <2>1 DEF CallJoin, Handle!Call
<1>2. ASSUME NEW j \in Joiners, JoinTake(j) PROVE Handle!Take(j)
  <2>1. Op[j] = "join" /\ Op' = [Op EXCEPT ![j] = "returned"]
    BY <1>2 DEF JoinTake, Goto, Op
  <2> QED  BY <1>2, <2>1 DEF JoinTake, Handle!Take
<1>3. ASSUME NEW j \in Joiners, JoinRegister(j) \/ JoinUnparked(j) PROVE UNCHANGED Handle!vars
  <2>1. Op' = Op
    BY <1>3 DEF JoinRegister, JoinUnparked, Goto, Op
  <2> QED  BY <1>3, <2>1 DEF JoinRegister, JoinUnparked, Handle!vars
<1>4. ASSUME NEW r \in Outcomes, Complete(r) PROVE Handle!Complete(r)
  <2>1. outcome = "none" /\ Op' = Op
    BY <1>4 DEF Complete, Delivery, Op
  <2> QED  BY <1>4, <2>1 DEF Complete, Handle!Complete
<1>5. CASE NotifiedAll \/ \E j \in Joiners : NotifyWaiter(j)
  <2>1. Op' = Op
    BY <1>5 DEF NotifiedAll, NotifyWaiter, Op
  <2> QED  BY <1>5, <2>1 DEF NotifiedAll, NotifyWaiter, Handle!vars
<1>6. CASE UNCHANGED vars
  BY <1>6 DEF vars, Handle!vars, Op
<1> QED
  BY <1>1, <1>2, <1>3, <1>4, <1>5, <1>6
  DEF Next, TaskStep, JoinStep, Handle!Next, Handle!SomeTake, Handle!SomeComplete

\* JoinHandle::join and complete(): the outcome is stored once and handed to one
\* joiner: the safety part of ImplementsOneShot, for any number of joiners.
THEOREM JoinImplementsOneShot == Safety => Handle!Safety
  BY InitHandle, NextHandle, Invariance, PTL DEF Safety, Handle!Safety
=============================================================================
