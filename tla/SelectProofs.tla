---------------------------- MODULE SelectProofs ----------------------------
(***************************************************************************)
(* For any number of arms, any sharing, capacity and number of values: the *)
(* gap between is_ready and recv loses or doubles no value, and only a     *)
(* shared receiver can block in it.                                        *)
(***************************************************************************)
EXTENDS Select, SequenceTheorems, TLAPS

\* No value is queued twice, in one channel or in two.
QueuedOnce ==
    \A c, d \in 1..Arms : \A i \in 1..Len(queue[c]), j \in 1..Len(queue[d]) :
        queue[c][i] = queue[d][j] => c = d /\ i = j

\* The inductive invariant.
IndInv == TypeOK /\ QueuedOnce /\ ValueOnce /\ UnsharedNeverBlocks

-----------------------------------------------------------------------------

USE SelectAssumption

\* The values in a queue, one by one.
LEMMA WaitingIs ==
    \A x : x \in Waiting <=> \E c \in 1..Arms : \E i \in 1..Len(queue[c]) : queue[c][i] = x
  BY DEF Waiting

\* The invariant holds of empty channels.
LEMMA InitIndInv == Init => IndInv
<1> SUFFICES ASSUME Init PROVE IndInv
  OBVIOUS
<1> USE DEF Init
<1>1. TypeOK
  BY DEF TypeOK, Nothing
<1>2. \A c \in 1..Arms : queue[c] = <<>> /\ 1..Len(queue[c]) = {}
  OBVIOUS
<1>3. QueuedOnce
  BY <1>2 DEF QueuedOnce
<1>4. Waiting = {} /\ 1..sent = {}
  BY <1>2, WaitingIs
<1>5. ValueOnce /\ UnsharedNeverBlocks
  BY <1>4 DEF ValueOnce, UnsharedNeverBlocks
<1> QED  BY <1>1, <1>3, <1>5 DEF IndInv

\* A receive takes the oldest value out of one channel and nothing else.
LEMMA PopValue ==
    ASSUME TypeOK, QueuedOnce, NEW c \in 1..Arms, queue[c] # <<>>,
           queue' = [queue EXCEPT ![c] = Tail(@)]
    PROVE  /\ queue' \in [1..Arms -> Seq(1..MaxValues)]
           /\ QueuedOnce'
           /\ Head(queue[c]) \in Waiting
           /\ Waiting' = Waiting \ {Head(queue[c])}
<1> DEFINE s == queue[c]
           v == Head(queue[c])
<1>1. /\ s \in Seq(1..MaxValues) /\ Tail(s) \in Seq(1..MaxValues) /\ v = s[1]
      /\ Len(s) \in Nat /\ Len(s) > 0 /\ Len(Tail(s)) = Len(s) - 1
      /\ \A i \in 1..(Len(s) - 1) : Tail(s)[i] = s[i + 1]
  BY HeadTailProperties, LenProperties, EmptySeq DEF TypeOK
<1>2. \A d \in 1..Arms : queue'[d] = IF d = c THEN Tail(s) ELSE queue[d]
  BY DEF TypeOK
<1>3. queue' \in [1..Arms -> Seq(1..MaxValues)]
  BY <1>1 DEF TypeOK
<1> HIDE DEF s, v
<1>4. \A d \in 1..Arms : \A i \in 1..Len(queue'[d]) :
        LET k == IF d = c THEN i + 1 ELSE i
        IN  k \in 1..Len(queue[d]) /\ queue'[d][i] = queue[d][k]
  <2> SUFFICES ASSUME NEW d \in 1..Arms, NEW i \in 1..Len(queue'[d])
               PROVE  LET k == IF d = c THEN i + 1 ELSE i
                      IN  k \in 1..Len(queue[d]) /\ queue'[d][i] = queue[d][k]
    OBVIOUS
  <2>1. CASE d # c
    BY <1>2, <2>1
  <2>2. CASE d = c
    <3>1. queue'[d] = Tail(s) /\ queue[d] = s
      BY <1>2, <2>2 DEF s
    <3>2. i \in 1..(Len(s) - 1) /\ i + 1 \in 1..Len(s)
      BY <1>1, <3>1
    <3> QED  BY <1>1, <2>2, <3>1, <3>2
  <2> QED  BY <2>1, <2>2
<1>5. QueuedOnce'
  <2> SUFFICES ASSUME NEW d \in 1..Arms, NEW e \in 1..Arms,
                      NEW i \in 1..Len(queue'[d]), NEW j \in 1..Len(queue'[e]),
                      queue'[d][i] = queue'[e][j]
               PROVE  d = e /\ i = j
    BY DEF QueuedOnce
  <2> DEFINE k == IF d = c THEN i + 1 ELSE i
             l == IF e = c THEN j + 1 ELSE j
  <2>1. k \in 1..Len(queue[d]) /\ l \in 1..Len(queue[e]) /\ queue[d][k] = queue[e][l]
    BY <1>4
  <2>2. d = e /\ k = l
    BY <2>1 DEF QueuedOnce
  <2>3. Len(queue'[d]) \in Nat /\ Len(queue'[e]) \in Nat
    BY <1>3, LenProperties
  <2> QED  BY <2>2, <2>3
<1>6. v \in Waiting /\ 1 \in 1..Len(queue[c]) /\ queue[c][1] = v
  BY <1>1, WaitingIs DEF s
<1>7. ASSUME NEW x \in Waiting' PROVE x \in Waiting /\ x # v
  <2>0. \A y : y \in Waiting' <=> \E d \in 1..Arms : \E i \in 1..Len(queue'[d]) : queue'[d][i] = y
    BY DEF Waiting
  <2>1. PICK d \in 1..Arms : \E i \in 1..Len(queue'[d]) : queue'[d][i] = x
    BY <1>7, <2>0
  <2>2. PICK i \in 1..Len(queue'[d]) : queue'[d][i] = x
    BY <2>1
  <2> DEFINE k == IF d = c THEN i + 1 ELSE i
  <2>3. k \in 1..Len(queue[d]) /\ queue[d][k] = x
    BY <1>4, <2>2
  <2>4. x \in Waiting
    BY <2>3, WaitingIs
  <2>5. ASSUME x = v PROVE FALSE
    <3>1. d = c /\ k = 1
      BY <1>6, <2>3, <2>5 DEF QueuedOnce
    <3>2. Len(queue'[d]) \in Nat
      BY <1>3, LenProperties
    <3> QED  BY <3>1, <3>2
  <2> QED  BY <2>4, <2>5
<1>8. ASSUME NEW x \in Waiting, x # v PROVE x \in Waiting'
  <2>0. \A y : y \in Waiting' <=> \E d \in 1..Arms : \E i \in 1..Len(queue'[d]) : queue'[d][i] = y
    BY DEF Waiting
  <2>1. PICK d \in 1..Arms : \E i \in 1..Len(queue[d]) : queue[d][i] = x
    BY <1>8, WaitingIs
  <2>2. PICK i \in 1..Len(queue[d]) : queue[d][i] = x
    BY <2>1
  <2>3. CASE d # c
    BY <1>2, <2>0, <2>2, <2>3
  <2>4. CASE d = c
    <3>1. i # 1 /\ i \in 1..Len(s)
      BY <1>6, <1>8, <2>2, <2>4 DEF s
    <3>2. i - 1 \in 1..(Len(s) - 1) /\ (i - 1) + 1 = i
      BY <1>1, <3>1
    <3>3. queue'[d] = Tail(s) /\ Tail(s)[i - 1] = s[i] /\ s[i] = x
      BY <1>1, <1>2, <2>2, <2>4, <3>2 DEF s
    <3>4. i - 1 \in 1..Len(queue'[d]) /\ queue'[d][i - 1] = x
      BY <1>1, <3>2, <3>3
    <3> QED  BY <2>0, <3>4
  <2> QED  BY <2>3, <2>4
<1> QED  BY <1>3, <1>5, <1>6, <1>7, <1>8 DEF v

\* A send puts a value that is nowhere yet at the back of one channel.
LEMMA PushValue ==
    ASSUME TypeOK, QueuedOnce, NEW c \in 1..Arms, NEW x \in 1..MaxValues, x \notin Waiting,
           queue' = [queue EXCEPT ![c] = Append(@, x)]
    PROVE  /\ queue' \in [1..Arms -> Seq(1..MaxValues)]
           /\ QueuedOnce'
           /\ Waiting' = Waiting \cup {x}
<1> DEFINE s == queue[c]
<1>1. /\ s \in Seq(1..MaxValues) /\ Append(s, x) \in Seq(1..MaxValues) /\ Len(s) \in Nat
      /\ Len(Append(s, x)) = Len(s) + 1
      /\ \A i \in 1..Len(s) : Append(s, x)[i] = s[i]
      /\ Append(s, x)[Len(s) + 1] = x
  BY AppendProperties, LenProperties DEF TypeOK
<1>2. \A d \in 1..Arms : queue'[d] = IF d = c THEN Append(s, x) ELSE queue[d]
  BY DEF TypeOK
<1>3. queue' \in [1..Arms -> Seq(1..MaxValues)]
  BY <1>1 DEF TypeOK
<1> HIDE DEF s
<1>4. \A d \in 1..Arms : \A i \in 1..Len(queue'[d]) :
        \/ i \in 1..Len(queue[d]) /\ queue'[d][i] = queue[d][i]
        \/ d = c /\ i = Len(s) + 1 /\ queue'[d][i] = x
  <2> SUFFICES ASSUME NEW d \in 1..Arms, NEW i \in 1..Len(queue'[d])
               PROVE  \/ i \in 1..Len(queue[d]) /\ queue'[d][i] = queue[d][i]
                      \/ d = c /\ i = Len(s) + 1 /\ queue'[d][i] = x
    OBVIOUS
  <2>1. CASE d # c
    BY <1>2, <2>1
  <2>2. CASE d = c
    <3>1. queue'[d] = Append(s, x) /\ queue[d] = s
      BY <1>2, <2>2 DEF s
    <3>2. i \in 1..Len(s) \/ i = Len(s) + 1
      BY <1>1, <3>1
    <3> QED  BY <1>1, <2>2, <3>1, <3>2
  <2> QED  BY <2>1, <2>2
<1>5. \A d \in 1..Arms : \A i \in 1..Len(queue[d]) :
        i \in 1..Len(queue'[d]) /\ queue'[d][i] = queue[d][i] /\ queue[d][i] # x
  <2> SUFFICES ASSUME NEW d \in 1..Arms, NEW i \in 1..Len(queue[d])
               PROVE  i \in 1..Len(queue'[d]) /\ queue'[d][i] = queue[d][i] /\ queue[d][i] # x
    OBVIOUS
  <2>1. queue[d][i] # x
    BY WaitingIs
  <2>2. CASE d # c
    BY <1>2, <2>1, <2>2
  <2>3. CASE d = c
    <3>1. queue'[d] = Append(s, x) /\ queue[d] = s
      BY <1>2, <2>3 DEF s
    <3>2. i \in 1..(Len(s) + 1)
      BY <1>1, <3>1
    <3> QED  BY <1>1, <2>1, <3>1, <3>2
  <2> QED  BY <2>2, <2>3
<1>6. QueuedOnce'
  BY <1>4, <1>5 DEF QueuedOnce
<1>7. \A y : y \in Waiting' <=> \E d \in 1..Arms : \E i \in 1..Len(queue'[d]) : queue'[d][i] = y
  BY DEF Waiting
<1>8. x \in Waiting'
  <2>0. queue'[c] = Append(s, x)
    BY <1>2
  <2>1. Len(s) + 1 \in 1..(Len(s) + 1)
    BY <1>1
  <2>2. Len(s) + 1 \in 1..Len(queue'[c]) /\ queue'[c][Len(s) + 1] = x
    BY <1>1, <2>0, <2>1
  <2> QED  BY <1>7, <2>2
<1>9. ASSUME NEW y PROVE y \in Waiting' <=> y \in Waiting \/ y = x
  BY <1>4, <1>5, <1>7, <1>8, WaitingIs
<1> QED  BY <1>3, <1>6, <1>9

\* Whatever leaves the queues alone leaves what waits in them alone.
LEMMA SameQueues ==
    ASSUME queue' = queue
    PROVE  Waiting' = Waiting /\ (QueuedOnce => QueuedOnce')
  BY DEF Waiting, QueuedOnce

\* Each step keeps every value in one place.
LEMMA Step == IndInv /\ [Next]_vars => IndInv'
<1> SUFFICES ASSUME IndInv, [Next]_vars PROVE IndInv'
  OBVIOUS
<1> USE DEF IndInv
<1>1. CASE Begin \/ Check \/ RecvEnded \/ ArmEnds \/ UNCHANGED vars
  <2>1. queue' = queue /\ UNCHANGED <<closed, sent, consumed, delivered>>
    BY <1>1 DEF Begin, Check, RecvEnded, ArmEnds, vars
  <2>a. arm' \in 1..Arms
    BY <1>1 DEF TypeOK, Begin, Check, RecvEnded, ArmEnds, vars
  <2>b. pc' \in {"idle", "check", "recv", "arm", "default"} /\ bound' \in 0..MaxValues
    BY <1>1 DEF TypeOK, Begin, Check, RecvEnded, ArmEnds, vars, Nothing
  <2>2. TypeOK'
    BY <2>1, <2>a, <2>b DEF TypeOK
  <2>3. QueuedOnce' /\ ValueOnce'
    BY <2>1, SameQueues DEF ValueOnce
  <2>4. UnsharedNeverBlocks'
    BY <1>1, <2>1 DEF UnsharedNeverBlocks, Begin, Check, RecvEnded, ArmEnds, vars, is_ready
  <2> QED  BY <2>2, <2>3, <2>4
<1>2. CASE RecvValue
  <2>1. /\ pc = "recv" /\ queue[arm] # <<>> /\ pc' = "arm" /\ bound' = Head(queue[arm])
        /\ delivered' = delivered \cup {bound'} /\ queue' = [queue EXCEPT ![arm] = Tail(@)]
        /\ UNCHANGED <<closed, sent, consumed, arm>>
    BY <1>2 DEF RecvValue
  <2>2. /\ queue' \in [1..Arms -> Seq(1..MaxValues)] /\ QueuedOnce'
        /\ Head(queue[arm]) \in Waiting /\ Waiting' = Waiting \ {Head(queue[arm])}
    BY <2>1, PopValue DEF TypeOK
  <2>3. bound' \in 1..sent /\ sent \in 0..MaxValues
    BY <2>1, <2>2 DEF ValueOnce, TypeOK
  <2>a. bound' \in 1..MaxValues /\ bound' \in 0..MaxValues
    BY <2>3
  <2>b. delivered' \subseteq 1..MaxValues
    BY <2>1, <2>a DEF TypeOK
  <2>4. TypeOK'
    BY <2>1, <2>2, <2>a, <2>b DEF TypeOK
  <2>5. ValueOnce'
    BY <2>1, <2>2 DEF ValueOnce
  <2>6. UnsharedNeverBlocks'
    BY <2>1 DEF UnsharedNeverBlocks
  <2> QED  BY <2>2, <2>4, <2>5, <2>6
<1>3. ASSUME NEW c \in 1..Arms, Send(c) PROVE IndInv'
  <2>1. /\ sent < MaxValues /\ sent' = sent + 1
        /\ queue' = [queue EXCEPT ![c] = Append(@, sent + 1)]
        /\ UNCHANGED <<closed, consumed, pc, arm, bound, delivered>>
    BY <1>3 DEF Send
  <2>2. sent + 1 \in 1..MaxValues /\ sent + 1 \notin 1..sent /\ 1..sent' = 1..sent \cup {sent + 1}
    BY <2>1 DEF TypeOK
  <2>3. sent + 1 \notin Waiting
    BY <2>2 DEF ValueOnce
  <2>4. /\ queue' \in [1..Arms -> Seq(1..MaxValues)] /\ QueuedOnce'
        /\ Waiting' = Waiting \cup {sent + 1}
    BY <2>1, <2>2, <2>3, PushValue
  <2>5. TypeOK'
    BY <2>1, <2>2, <2>4 DEF TypeOK
  <2>6. ValueOnce'
    BY <2>1, <2>2, <2>4 DEF ValueOnce
  <2>7. UnsharedNeverBlocks'
    <3>0. queue[c] \in Seq(1..MaxValues) /\ arm \in 1..Arms
      BY DEF TypeOK
    <3>a. Append(queue[c], sent + 1) # <<>>
      BY <2>2, <3>0
    <3>b. queue'[arm] = IF arm = c THEN Append(queue[c], sent + 1) ELSE queue[arm]
      BY <2>1, <3>0 DEF TypeOK
    <3>1. queue'[arm] # <<>> \/ queue'[arm] = queue[arm]
      BY <3>a, <3>b
    <3> QED  BY <2>1, <3>1 DEF UnsharedNeverBlocks
  <2> QED  BY <2>4, <2>5, <2>6, <2>7
<1>4. ASSUME NEW c \in 1..Arms, Close(c) PROVE IndInv'
  <2>1. /\ queue' = queue /\ closed' = [closed EXCEPT ![c] = TRUE]
        /\ UNCHANGED <<sent, consumed, pc, arm, bound, delivered>>
    BY <1>4 DEF Close
  <2>2. TypeOK'
    BY <2>1 DEF TypeOK
  <2>3. QueuedOnce' /\ ValueOnce'
    BY <2>1, SameQueues DEF ValueOnce
  <2>4. closed[arm] => closed'[arm]
    BY <2>1 DEF TypeOK
  <2>5. UnsharedNeverBlocks'
    BY <2>1, <2>4 DEF UnsharedNeverBlocks
  <2> QED  BY <2>2, <2>3, <2>5
<1>5. ASSUME NEW c \in 1..Arms, OtherRecv(c) PROVE IndInv'
  <2>1. /\ c \in Shared /\ queue[c] # <<>> /\ consumed' = consumed \cup {Head(queue[c])}
        /\ queue' = [queue EXCEPT ![c] = Tail(@)]
        /\ UNCHANGED <<closed, sent, pc, arm, bound, delivered>>
    BY <1>5 DEF OtherRecv
  <2>2. /\ queue' \in [1..Arms -> Seq(1..MaxValues)] /\ QueuedOnce'
        /\ Head(queue[c]) \in Waiting /\ Waiting' = Waiting \ {Head(queue[c])}
    BY <2>1, PopValue
  <2>3. Head(queue[c]) \in 1..MaxValues
    BY <2>2 DEF ValueOnce, TypeOK
  <2>4. TypeOK'
    BY <2>1, <2>2, <2>3 DEF TypeOK
  <2>5. ValueOnce'
    BY <2>1, <2>2 DEF ValueOnce
  <2>6. arm \notin Shared => queue'[arm] = queue[arm]
    BY <2>1 DEF TypeOK
  <2>7. UnsharedNeverBlocks'
    BY <2>1, <2>6 DEF UnsharedNeverBlocks
  <2> QED  BY <2>2, <2>4, <2>5, <2>7
<1> QED  BY <1>1, <1>2, <1>3, <1>4, <1>5 DEF Next, SelectStep

\* The invariant is inductive.
THEOREM Invariance == Safety => []IndInv
  BY InitIndInv, Step, PTL DEF Safety

\* Every value sent is queued, bound by an arm or received by another task, and
\* only one of these.
THEOREM NoValueLost == Safety => []ValueOnce
<1>1. IndInv => ValueOnce
  BY DEF IndInv
<1> QED  BY <1>1, Invariance, PTL

\* Only on a shared receiver can the answer of is_ready be stale when recv is called.
THEOREM ReadyStaysTrue == Safety => []UnsharedNeverBlocks
<1>1. IndInv => UnsharedNeverBlocks
  BY DEF IndInv
<1> QED  BY <1>1, Invariance, PTL
=============================================================================
