------------------------- MODULE EventQueue_proofs -------------------------
(***************************************************************************)
(* What EventQueue promises for every queue limit and every set of pollers: *)
(* no wake-up is lost (any number of emitters), and with one emitter at a  *)
(* time, which RayneoService_proofs!OneEmitter establishes for libusb, the *)
(* queue keeps the newest events in order and implements EventStream.      *)
(***************************************************************************)
EXTENDS EventQueue, TLAPS, FiniteSetTheorems

OneEmitterOnly == \A d, e \in Emitters : d = e

USE DEF vars

----------------------------------------------------------------------------
(* Type correctness *)

\* The appended queue: its type, its length and its elements.
LEMMA AppendedFacts ==
    ASSUME NEW q \in Seq(Nat), NEW event \in Nat
    PROVE  LET r == Appended(q, event) IN
           /\ r \in Seq(Nat)
           /\ Len(r) = IF Len(q) >= MaxQueue THEN Len(q) ELSE Len(q) + 1
           /\ r[Len(r)] = event
           /\ \A i \in 1 .. Len(r) - 1 :
                r[i] = IF Len(q) >= MaxQueue THEN q[i + 1] ELSE q[i]
<1>1. CASE Len(q) >= MaxQueue
  <2>1. q # <<>>
    BY <1>1, QueueAssumption
  <2>2. Tail(q) \in Seq(Nat) /\ Len(Tail(q)) = Len(q) - 1
    BY <2>1
  <2>3. \A i \in 1 .. Len(q) - 1 : Tail(q)[i] = q[i + 1]
    BY <2>1
  <2> QED BY <1>1, <2>1, <2>2, <2>3 DEF Appended
<1>2. CASE ~(Len(q) >= MaxQueue)
  BY <1>2, QueueAssumption DEF Appended
<1> QED BY <1>1, <1>2

\* Taking the front: the type, length and elements of what is left.
LEMMA TailFacts ==
    ASSUME NEW q \in Seq(Nat), q # <<>>
    PROVE  /\ Tail(q) \in Seq(Nat)
           /\ Len(q) \in Nat /\ Len(Tail(q)) \in Nat /\ Len(Tail(q)) + 1 = Len(q)
           /\ Head(q) = q[1] /\ q[1] \in Nat
           /\ \A i \in 1 .. Len(q) - 1 : Tail(q)[i] = q[i + 1] /\ q[i + 1] \in Nat
OBVIOUS

\* Every field keeps its type.
THEOREM TypeCorrect == Spec => []TypeOK
<1>1. Init => TypeOK
  BY DEF Init, TypeOK
<1>2. TypeOK /\ [Next]_vars => TypeOK'
  <2> SUFFICES ASSUME TypeOK, [Next]_vars PROVE TypeOK'
    OBVIOUS
  <2> USE DEF TypeOK
  <2>1. ASSUME NEW e \in Emitters, ReadSeq(e) PROVE TypeOK'
    BY <2>1 DEF ReadSeq
  <2>2. ASSUME NEW e \in Emitters, WriteSeq(e) PROVE TypeOK'
    BY <2>2 DEF WriteSeq
  <2>3. ASSUME NEW e \in Emitters, Push(e) PROVE TypeOK'
    <3>1. queue' \in Seq(Nat)
      BY <2>3, AppendedFacts DEF Push
    <3> QED BY <2>3, <3>1 DEF Push
  <2>4. ASSUME NEW e \in Emitters, Notify(e) PROVE TypeOK'
    BY <2>4 DEF Notify, Waiting
  <2>5. ASSUME NEW p \in Pollers, Take(p) PROVE TypeOK'
    BY <2>5 DEF Take
  <2>6. ASSUME NEW p \in Pollers,
               PollWaits(p) \/ Expire(p) \/ SpuriousWake(p) \/ WakeFindsNone(p)
        PROVE TypeOK'
    BY <2>6 DEF PollWaits, Expire, SpuriousWake, WakeFindsNone
  <2>7. CASE UNCHANGED vars
    BY <2>7
  <2> QED BY <2>1, <2>2, <2>3, <2>4, <2>5, <2>6, <2>7
          DEF Next, Emit, Poll, Wake, PollTakes, WakeTakes
<1> QED BY <1>1, <1>2, PTL DEF Spec

----------------------------------------------------------------------------
(* No wake-up is lost *)

\* The two sets NoLostWakeup counts are finite.
LEMMA CountsAreNat ==
    /\ IsFiniteSet(Awake) /\ Cardinality(Awake) \in Nat
    /\ IsFiniteSet(Notifying) /\ Cardinality(Notifying) \in Nat
BY QueueAssumption, FS_Subset, FS_CardinalityType DEF Awake, Notifying

\* While a poller sleeps, every queued event has somebody coming for it,
\* although Rayneo_PollEvent is notified after the lock is released.
THEOREM NoWakeupLost == Spec => []NoLostWakeup
<1>1. Init => NoLostWakeup
  BY DEF Init, NoLostWakeup, Waiting
<1>2. TypeOK /\ TypeOK' /\ NoLostWakeup /\ [Next]_vars => NoLostWakeup'
  <2> SUFFICES ASSUME TypeOK, TypeOK', NoLostWakeup, [Next]_vars, Waiting' # {}
               PROVE  Len(queue') <= Cardinality(Awake') + Cardinality(Notifying')
    BY DEF NoLostWakeup
  <2> DEFINE Goal == Len(queue') <= Cardinality(Awake') + Cardinality(Notifying')
  <2>0. /\ IsFiniteSet(Awake') /\ Cardinality(Awake') \in Nat
        /\ IsFiniteSet(Notifying') /\ Cardinality(Notifying') \in Nat
    BY QueueAssumption, FS_Subset, FS_CardinalityType DEF Awake, Notifying
  <2>q. queue \in Seq(Nat) /\ Len(queue) \in Nat
    BY DEF TypeOK
  <2>1. ASSUME NEW e \in Emitters, ReadSeq(e) \/ WriteSeq(e) PROVE Goal
    <3>1. Awake' = Awake /\ Waiting' = Waiting /\ queue' = queue
      BY <2>1 DEF ReadSeq, WriteSeq, Awake, Waiting
    <3>2. Notifying' = Notifying
      BY <2>1 DEF ReadSeq, WriteSeq, Notifying, TypeOK
    <3> QED BY <3>1, <3>2 DEF NoLostWakeup
  <2>2. ASSUME NEW e \in Emitters, Push(e) PROVE Goal
    <3>1. Awake' = Awake /\ Waiting' = Waiting
      BY <2>2 DEF Push, Awake, Waiting
    <3>2. e \notin Notifying /\ Notifying' = Notifying \union {e}
      BY <2>2 DEF Push, Notifying, TypeOK
    <3>3. Cardinality(Notifying') = Cardinality(Notifying) + 1
      BY <3>2, CountsAreNat, FS_AddElement
    <3>4. Len(queue') \in Nat /\ Len(queue') <= Len(queue) + 1
      BY <2>2, <2>q, AppendedFacts DEF Push, TypeOK
    <3>5. Len(queue) <= Cardinality(Awake) + Cardinality(Notifying)
      BY <3>1 DEF NoLostWakeup
    <3> QED BY <3>1, <3>3, <3>4, <3>5, <2>q, CountsAreNat
  <2>3. ASSUME NEW e \in Emitters, Notify(e) PROVE Goal
    <3>1. Waiting # {}
      BY <2>3 DEF Notify, Waiting
    <3>2. PICK p \in Waiting : ppc' = [ppc EXCEPT ![p] = "notified"]
      BY <2>3, <3>1 DEF Notify
    <3>3. p \notin Awake /\ Awake' = Awake \union {p}
      BY <3>2 DEF Waiting, Awake, TypeOK
    <3>4. e \in Notifying /\ Notifying' = Notifying \ {e}
      BY <2>3 DEF Notify, Notifying, TypeOK
    <3>5. Cardinality(Awake') = Cardinality(Awake) + 1
      BY <3>3, CountsAreNat, FS_AddElement
    <3>6. Cardinality(Notifying') = Cardinality(Notifying) - 1
      BY <3>4, CountsAreNat, FS_RemoveElement
    <3> QED BY <2>3, <3>1, <3>5, <3>6, <2>q, CountsAreNat DEF Notify, NoLostWakeup
  <2>4. ASSUME NEW p \in Pollers, Take(p), ppc[p] # "waiting" PROVE Goal
    <3>1. Waiting' = Waiting /\ Notifying' = Notifying
      BY <2>4 DEF Take, Waiting, Notifying, TypeOK
    <3>2. Len(queue') = Len(queue) - 1
      BY <2>4, <2>q DEF Take
    <3>3. CASE p \in Awake
      <4>1. Awake' = Awake \ {p}
        BY <2>4, <3>3 DEF Take, Awake, TypeOK
      <4>2. Cardinality(Awake') = Cardinality(Awake) - 1
        BY <3>3, <4>1, CountsAreNat, FS_RemoveElement
      <4> QED BY <3>1, <3>2, <4>2, <2>q, CountsAreNat DEF NoLostWakeup
    <3>4. CASE p \notin Awake
      <4>1. Awake' = Awake
        BY <2>4, <3>4 DEF Take, Awake, TypeOK
      <4> QED BY <3>1, <3>2, <4>1, <2>q, CountsAreNat DEF NoLostWakeup
    <3> QED BY <3>3, <3>4
  <2>5. ASSUME NEW p \in Pollers, PollWaits(p) \/ WakeFindsNone(p) PROVE Goal
    <3>1. Len(queue') = 0
      BY <2>5 DEF PollWaits, WakeFindsNone
    <3> QED BY <3>1, <2>0
  <2>6. ASSUME NEW p \in Pollers, Expire(p) \/ SpuriousWake(p) PROVE Goal
    <3>1. p \notin Awake /\ Awake' = Awake \union {p}
      BY <2>6 DEF Expire, SpuriousWake, Awake, TypeOK
    <3>2. Notifying' = Notifying /\ queue' = queue /\ Waiting # {}
      BY <2>6 DEF Expire, SpuriousWake, Notifying, Waiting
    <3>3. Cardinality(Awake') = Cardinality(Awake) + 1
      BY <3>1, CountsAreNat, FS_AddElement
    <3> QED BY <3>2, <3>3, <2>q, CountsAreNat DEF NoLostWakeup
  <2>7. CASE UNCHANGED vars
    BY <2>7 DEF NoLostWakeup, Waiting, Awake, Notifying
  <2> QED BY <2>1, <2>2, <2>3, <2>4, <2>5, <2>6, <2>7
          DEF Next, Emit, Poll, Wake, PollTakes, WakeTakes
<1> QED BY <1>1, <1>2, TypeCorrect, PTL DEF Spec

----------------------------------------------------------------------------
(* One emitter at a time: order, and the refinement of EventStream *)

\* The numbers an emitter holds follow the last queued one: none is skipped or
\* given twice.
NumberedNext ==
    \A e \in Emitters :
        /\ epc[e] \in {"idle", "queued"} => seq = pushed
        /\ epc[e] = "read" => seq = pushed /\ stamp[e] = pushed + 1
        /\ epc[e] = "numbered" => seq = pushed + 1 /\ stamp[e] = pushed + 1

Bounded == Len(queue) <= MaxQueue

\* What the queue holds and what the emitter has numbered, together.
OrderInv == NumberedNext /\ KeepsNewest /\ Bounded

LEMMA OrderInductive ==
    ASSUME OneEmitterOnly, TypeOK, TypeOK', OrderInv, [Next]_vars
    PROVE  OrderInv'
<1> USE DEF OrderInv
<1>q. queue \in Seq(Nat) /\ Len(queue) \in Nat /\ pushed \in Nat /\ taken \in Nat
  BY DEF TypeOK
<1>1. ASSUME NEW e \in Emitters, ReadSeq(e) \/ WriteSeq(e) \/ Notify(e)
      PROVE  OrderInv'
  <2>1. NumberedNext'
    <3> SUFFICES ASSUME NEW d \in Emitters
                 PROVE  /\ epc'[d] \in {"idle", "queued"} => seq' = pushed'
                        /\ epc'[d] = "read" => seq' = pushed' /\ stamp'[d] = pushed' + 1
                        /\ epc'[d] = "numbered" =>
                             seq' = pushed' + 1 /\ stamp'[d] = pushed' + 1
      BY DEF NumberedNext
    <3>1. d = e
      BY DEF OneEmitterOnly
    <3>2. CASE ReadSeq(e)
      BY <3>1, <3>2 DEF ReadSeq, NumberedNext, TypeOK
    <3>3. CASE WriteSeq(e)
      BY <3>1, <3>3 DEF WriteSeq, NumberedNext, TypeOK
    <3>4. CASE Notify(e)
      BY <3>1, <3>4 DEF Notify, NumberedNext, TypeOK
    <3> QED BY <1>1, <3>2, <3>3, <3>4
  <2>2. UNCHANGED <<queue, pushed, taken>>
    BY <1>1 DEF ReadSeq, WriteSeq, Notify
  <2> QED BY <2>1, <2>2 DEF KeepsNewest, Bounded
<1>2. ASSUME NEW e \in Emitters, Push(e) PROVE OrderInv'
  <2>1. pushed' = pushed + 1 /\ stamp[e] = pushed' /\ taken' = taken
    BY <1>2 DEF Push, NumberedNext
  <2>2. NumberedNext'
    BY <1>2 DEF Push, NumberedNext, OneEmitterOnly, TypeOK
  <2>3. /\ queue' \in Seq(Nat)
        /\ Len(queue') = IF Len(queue) >= MaxQueue THEN Len(queue) ELSE Len(queue) + 1
        /\ queue'[Len(queue')] = pushed'
        /\ \A i \in 1 .. Len(queue') - 1 :
             queue'[i] = IF Len(queue) >= MaxQueue THEN queue[i + 1] ELSE queue[i]
    BY <1>2, <2>1, <1>q, AppendedFacts DEF Push, TypeOK
  <2>4. Bounded'
    BY <2>3, <1>q, QueueAssumption DEF Bounded
  <2>5. ASSUME NEW i \in 1 .. Len(queue')
        PROVE  queue'[i] + Len(queue') = pushed' + i
    <3>1. CASE i = Len(queue')
      BY <3>1, <2>1, <2>3, <1>q
    <3>2. CASE i # Len(queue') /\ Len(queue) >= MaxQueue
      <4>1. i + 1 \in 1 .. Len(queue) /\ i \in 1 .. Len(queue') - 1
        BY <2>3, <2>5, <3>2, <1>q
      <4>2. queue[i + 1] + Len(queue) = pushed + i + 1 /\ queue[i + 1] \in Nat
        BY <4>1, <1>q DEF KeepsNewest
      <4> QED BY <4>1, <4>2, <3>2, <2>1, <2>3, <1>q
    <3>3. CASE i # Len(queue') /\ ~(Len(queue) >= MaxQueue)
      <4>1. i \in 1 .. Len(queue) /\ i \in 1 .. Len(queue') - 1
        BY <2>3, <2>5, <3>3, <1>q, QueueAssumption
      <4>2. queue[i] + Len(queue) = pushed + i /\ queue[i] \in Nat
        BY <4>1, <1>q DEF KeepsNewest
      <4>3. queue'[i] = queue[i] /\ Len(queue') = Len(queue) + 1
        BY <4>1, <3>3, <2>3
      <4> QED BY <4>1, <4>2, <4>3, <2>1, <1>q
    <3> QED BY <3>1, <3>2, <3>3
  <2>6. taken' + Len(queue') <= pushed'
    BY <2>1, <2>3, <1>q, QueueAssumption DEF KeepsNewest
  <2> QED BY <2>2, <2>4, <2>5, <2>6 DEF KeepsNewest
<1>3. ASSUME NEW p \in Pollers, Take(p) PROVE OrderInv'
  <2>1. NumberedNext'
    BY <1>3 DEF Take, NumberedNext
  <2>2. /\ queue' \in Seq(Nat) /\ Len(queue') \in Nat /\ Len(queue') + 1 = Len(queue)
        /\ pushed' = pushed /\ taken' = queue[1] /\ queue[1] \in Nat
        /\ \A i \in 1 .. Len(queue) - 1 :
             queue'[i] = queue[i + 1] /\ queue[i + 1] \in Nat
    BY <1>3, <1>q, TailFacts DEF Take
  <2>3. taken' + Len(queue) = pushed + 1
    BY <2>2, <1>q DEF KeepsNewest
  <2>4. ASSUME NEW i \in 1 .. Len(queue')
        PROVE  queue'[i] + Len(queue') = pushed' + i
    <3>1. i + 1 \in 1 .. Len(queue) /\ i \in 1 .. Len(queue) - 1 /\ i \in Int
      BY <2>2, <1>q
    <3>2. queue[i + 1] + Len(queue) = pushed + (i + 1)
      BY <3>1 DEF KeepsNewest
    <3>3. queue'[i] = queue[i + 1] /\ queue[i + 1] \in Nat
      BY <3>1, <2>2
    <3>4. queue'[i] + Len(queue) = pushed' + (i + 1)
      BY <3>2, <3>3, <2>2
    <3>5. /\ queue'[i] \in Nat /\ pushed' \in Nat
          /\ Len(queue') \in Nat /\ Len(queue') + 1 = Len(queue)
      BY <3>3, <2>2, <1>q
    <3> QED BY <3>1, <3>4, <3>5
  <2>5. taken' + Len(queue') <= pushed'
    BY <2>2, <2>3, <1>q
  <2>6. Bounded'
    BY <2>2, <1>q, QueueAssumption DEF Bounded
  <2> QED BY <2>1, <2>4, <2>5, <2>6 DEF KeepsNewest
<1>4. ASSUME UNCHANGED <<seq, queue, stamp, epc, pushed, taken>> PROVE OrderInv'
  BY <1>4 DEF NumberedNext, KeepsNewest, Bounded
<1>5. ASSUME NEW p \in Pollers,
             PollWaits(p) \/ Expire(p) \/ SpuriousWake(p) \/ WakeFindsNone(p)
      PROVE  OrderInv'
  BY <1>4, <1>5 DEF PollWaits, Expire, SpuriousWake, WakeFindsNone
<1> QED BY <1>1, <1>2, <1>3, <1>4, <1>5
        DEF Next, Emit, Poll, Wake, PollTakes, WakeTakes

\* With one emitter, the queue is a gap-free run of the newest events.
THEOREM OrderKept == ASSUME OneEmitterOnly PROVE Spec => []OrderInv
<1>1. Init => OrderInv
  BY QueueAssumption DEF Init, OrderInv, NumberedNext, KeepsNewest, Bounded
<1>2. TypeOK /\ TypeOK' /\ OrderInv /\ [Next]_vars => OrderInv'
  BY OrderInductive
<1> QED BY <1>1, <1>2, TypeCorrect, PTL DEF Spec

\* The newest events are kept: drop-oldest never loses the last event.
THEOREM NewestKept == ASSUME OneEmitterOnly PROVE Spec => []KeepsNewest
<1>1. OrderInv => KeepsNewest
  BY DEF OrderInv
<1> QED BY OrderKept, <1>1, PTL

\* The reader of Rayneo_PollEvent sees strictly increasing numbers.
THEOREM InOrder == ASSUME OneEmitterOnly PROVE Spec => DeliveredInOrder
<1>1. TypeOK /\ OrderInv => IncreasingTake
  <2> SUFFICES ASSUME TypeOK, OrderInv, NEW p \in Pollers, Take(p)
               PROVE  taken' > taken
    BY DEF IncreasingTake
  <2>1. queue \in Seq(Nat) /\ queue # <<>> /\ taken' = queue[1] /\ taken' \in Nat
    BY DEF Take, TypeOK
  <2>2. queue[1] + Len(queue) = pushed + 1 /\ taken + Len(queue) <= pushed
    BY <2>1 DEF OrderInv, KeepsNewest
  <2> QED BY <2>1, <2>2 DEF TypeOK
<1> QED BY OrderKept, TypeCorrect, <1>1, PTL DEF DeliveredInOrder

\* The queue and its threads implement the lossy stream: an append is a Send,
\* a successful poll a Deliver, and every other step is invisible.
THEOREM Refinement == ASSUME OneEmitterOnly PROVE Spec => ImplementsStream
<1>1. Init => Stream!Init
  <2> SUFFICES ASSUME Init PROVE Stream!Init
    OBVIOUS
  <2>1. pushed = 0 /\ taken = 0 /\ Len(queue) = 0
    BY DEF Init
  <2>2. pushed - Len(queue) = 0
    BY <2>1
  <2> QED BY <2>1, <2>2 DEF Stream!Init
<1>2. TypeOK /\ OrderInv /\ [Next]_vars => [Stream!Next]_(Stream!svars)
  <2> SUFFICES ASSUME TypeOK, OrderInv, [Next]_vars
               PROVE  Stream!Next \/ UNCHANGED Stream!svars
    OBVIOUS
  <2>q. queue \in Seq(Nat) /\ Len(queue) \in Nat /\ pushed \in Nat /\ taken \in Nat
    BY DEF TypeOK
  <2>1. ASSUME NEW e \in Emitters, Push(e) PROVE Stream!Send
    <3>1. pushed' = pushed + 1 /\ taken' = taken
      BY <2>1 DEF Push, OrderInv, NumberedNext
    <3>2. Len(queue') = IF Len(queue) >= MaxQueue THEN Len(queue) ELSE Len(queue) + 1
      BY <2>1, <2>q, AppendedFacts DEF Push, TypeOK
    <3> QED BY <3>1, <3>2, <2>q, QueueAssumption DEF Stream!Send
  <2>2. ASSUME NEW p \in Pollers, Take(p) PROVE Stream!Deliver
    <3>1. /\ queue # <<>> /\ Len(queue') = Len(queue) - 1
          /\ pushed' = pushed /\ taken' = queue[1]
      BY <2>2, <2>q DEF Take
    <3>2. queue[1] + Len(queue) = pushed + 1 /\ queue[1] \in Nat /\ Len(queue) > 0
      BY <3>1, <2>q DEF OrderInv, KeepsNewest
    <3> QED BY <3>1, <3>2, <2>q DEF Stream!Deliver
  <2>3. ASSUME UNCHANGED <<queue, pushed, taken>> PROVE UNCHANGED Stream!svars
    BY <2>3 DEF Stream!svars
  <2>4. ASSUME NEW e \in Emitters, ReadSeq(e) \/ WriteSeq(e) \/ Notify(e)
        PROVE  UNCHANGED Stream!svars
    BY <2>3, <2>4 DEF ReadSeq, WriteSeq, Notify
  <2>5. ASSUME NEW p \in Pollers,
               PollWaits(p) \/ Expire(p) \/ SpuriousWake(p) \/ WakeFindsNone(p)
        PROVE  UNCHANGED Stream!svars
    BY <2>3, <2>5 DEF PollWaits, Expire, SpuriousWake, WakeFindsNone
  <2> QED BY <2>1, <2>2, <2>3, <2>4, <2>5
          DEF Next, Emit, Poll, Wake, PollTakes, WakeTakes, Stream!Next
<1> QED BY <1>1, <1>2, OrderKept, TypeCorrect, PTL
        DEF Spec, ImplementsStream, Stream!Spec
=============================================================================
