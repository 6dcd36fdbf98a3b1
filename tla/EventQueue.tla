---------------------------- MODULE EventQueue -----------------------------
(***************************************************************************)
(* The event queue of a context without an event callback                  *)
(* (src/src/RayneoApi.cpp): enqueueEvent, which keeps the newest maxQueue  *)
(* events, and Rayneo_PollEvent, which waits on qCv for one with a timeout.*)
(*                                                                         *)
(* An emitter numbers its event (++ctx->seq, a plain integer: a read and a *)
(* write), appends it under qMtx and then, outside the lock, notifies one  *)
(* waiter.  The body of a critical section of qMtx is one step, and so is  *)
(* the re-check a woken poller makes once it has the lock again.           *)
(***************************************************************************)
EXTENDS Naturals, Sequences, FiniteSets

CONSTANTS
    Emitters,    \* threads that emit events
    Pollers,     \* threads that call Rayneo_PollEvent
    MaxQueue,    \* RayneoContext__::maxQueue (128)
    MaxEvents    \* bound: how many events are numbered

ASSUME QueueAssumption ==
    /\ IsFiniteSet(Emitters)
    /\ IsFiniteSet(Pollers)
    /\ MaxQueue \in Nat \ {0}
    /\ MaxEvents \in Nat

VARIABLES
    seq,      \* RayneoContext__::seq
    queue,    \* RayneoContext__::queue, the numbers of the events
    stamp,    \* the number each emitter has for its event
    epc,      \* emitters: "idle", "read", "numbered", "queued"
    ppc,      \* pollers: "idle", "waiting", "notified", "expired"
    pushed,   \* history: number of the event appended last
    taken     \* history: number of the event a poller took last

vars == <<seq, queue, stamp, epc, ppc, pushed, taken>>

\* Every field has its type.
TypeOK ==
    /\ seq \in Nat
    /\ queue \in Seq(Nat)
    /\ stamp \in [Emitters -> Nat]
    /\ epc \in [Emitters -> {"idle", "read", "numbered", "queued"}]
    /\ ppc \in [Pollers -> {"idle", "waiting", "notified", "expired"}]
    /\ pushed \in Nat
    /\ taken \in Nat

Init ==
    /\ seq = 0
    /\ queue = <<>>
    /\ stamp = [e \in Emitters |-> 0]
    /\ epc = [e \in Emitters |-> "idle"]
    /\ ppc = [p \in Pollers |-> "idle"]
    /\ pushed = 0
    /\ taken = 0

----------------------------------------------------------------------------
(* evt.seq = ++ctx->seq; enqueueEvent(ctx, evt) *)

ReadSeq(e) ==
    /\ epc[e] = "idle" /\ seq < MaxEvents
    /\ stamp' = [stamp EXCEPT ![e] = seq + 1]
    /\ epc' = [epc EXCEPT ![e] = "read"]
    /\ UNCHANGED <<seq, queue, ppc, pushed, taken>>

WriteSeq(e) ==
    /\ epc[e] = "read"
    /\ seq' = stamp[e]
    /\ epc' = [epc EXCEPT ![e] = "numbered"]
    /\ UNCHANGED <<queue, stamp, ppc, pushed, taken>>

\* Mutant of Appended: at the limit the whole queue is dropped.
AppendedDropAll(q, event) == IF Len(q) >= MaxQueue THEN <<event>> ELSE Append(q, event)

\* The queue after an append: at the limit the oldest event makes room.
Appended(q, event) ==
    IF Len(q) >= MaxQueue THEN Append(Tail(q), event) ELSE Append(q, event)

Push(e) ==
    /\ epc[e] = "numbered"
    /\ queue' = Appended(queue, stamp[e])
    /\ pushed' = stamp[e]
    /\ epc' = [epc EXCEPT ![e] = "queued"]
    /\ UNCHANGED <<seq, stamp, ppc, taken>>

Waiting == {p \in Pollers : ppc[p] = "waiting"}

\* Mutants: only the event that ends an empty queue is notified; none is.
NotifyFirst(e) ==
    /\ epc[e] = "queued"
    /\ epc' = [epc EXCEPT ![e] = "idle"]
    /\ IF Waiting = {} \/ Len(queue) > 1
         THEN ppc' = ppc
         ELSE \E p \in Waiting : ppc' = [ppc EXCEPT ![p] = "notified"]
    /\ UNCHANGED <<seq, queue, stamp, pushed, taken>>
NotifyNobody(e) ==
    /\ epc[e] = "queued"
    /\ epc' = [epc EXCEPT ![e] = "idle"]
    /\ UNCHANGED <<seq, queue, stamp, ppc, pushed, taken>>

\* notify_one wakes some waiter, if there is one.
Notify(e) ==
    /\ epc[e] = "queued"
    /\ epc' = [epc EXCEPT ![e] = "idle"]
    /\ IF Waiting = {}
         THEN ppc' = ppc
         ELSE \E p \in Waiting : ppc' = [ppc EXCEPT ![p] = "notified"]
    /\ UNCHANGED <<seq, queue, stamp, pushed, taken>>

----------------------------------------------------------------------------
(* Rayneo_PollEvent *)

\* The front event is copied out and erased, under the lock.
Take(p) ==
    /\ queue # <<>>
    /\ taken' = Head(queue)
    /\ queue' = Tail(queue)
    /\ ppc' = [ppc EXCEPT ![p] = "idle"]
    /\ UNCHANGED <<seq, stamp, epc, pushed>>

PollTakes(p) == ppc[p] = "idle" /\ Take(p)

\* The predicate is false and the timeout is not zero: wait.  With a zero
\* timeout the call returns TIMEOUT, a stuttering step.
PollWaits(p) ==
    /\ ppc[p] = "idle" /\ queue = <<>>
    /\ ppc' = [ppc EXCEPT ![p] = "waiting"]
    /\ UNCHANGED <<seq, queue, stamp, epc, pushed, taken>>

\* Mutant: a timed-out poller in a state that no wake-up knows.
ExpireLost(p) ==
    /\ ppc[p] = "waiting"
    /\ ppc' = [ppc EXCEPT ![p] = "timeout"]
    /\ UNCHANGED <<seq, queue, stamp, epc, pushed, taken>>

Expire(p) ==
    /\ ppc[p] = "waiting"
    /\ ppc' = [ppc EXCEPT ![p] = "expired"]
    /\ UNCHANGED <<seq, queue, stamp, epc, pushed, taken>>

\* A condition variable may also wake for no reason; to the predicate loop that
\* is a notification.
SpuriousWake(p) ==
    /\ ppc[p] = "waiting"
    /\ ppc' = [ppc EXCEPT ![p] = "notified"]
    /\ UNCHANGED <<seq, queue, stamp, epc, pushed, taken>>

\* Awake again, by notify_one or because the time is over: the predicate is
\* evaluated once more before either outcome.
WakeTakes(p) == ppc[p] \in {"notified", "expired"} /\ Take(p)

WakeFindsNone(p) ==
    /\ ppc[p] \in {"notified", "expired"} /\ queue = <<>>
    /\ ppc' = [ppc EXCEPT ![p] = IF ppc[p] = "notified" THEN "waiting" ELSE "idle"]
    /\ UNCHANGED <<seq, queue, stamp, epc, pushed, taken>>

----------------------------------------------------------------------------
Emit(e) == ReadSeq(e) \/ WriteSeq(e) \/ Push(e) \/ Notify(e)
Wake(p) == WakeTakes(p) \/ WakeFindsNone(p)
Poll(p) == PollTakes(p) \/ PollWaits(p) \/ Expire(p) \/ SpuriousWake(p) \/ Wake(p)

Next == (\E e \in Emitters : Emit(e)) \/ (\E p \in Pollers : Poll(p))

Spec == Init /\ [][Next]_vars

\* An emitter finishes what it began and a woken poller runs.  Nobody has to
\* emit or to poll, and no timeout has to fire: a poller may wait forever.
FairSpec ==
    /\ Spec
    /\ \A e \in Emitters : WF_vars(WriteSeq(e) \/ Push(e) \/ Notify(e))
    /\ \A p \in Pollers : WF_vars(Wake(p))

----------------------------------------------------------------------------
\* Pollers that will look at the queue without being notified again, and
\* emitters whose notification is still to come.
Awake == {p \in Pollers : ppc[p] \in {"notified", "expired"}}
Notifying == {e \in Emitters : epc[e] = "queued"}

\* While a poller sleeps, every queued event has somebody coming for it: no
\* wake-up is lost although notify_one is called outside the lock.
NoLostWakeup ==
    Waiting # {} => Len(queue) <= Cardinality(Awake) + Cardinality(Notifying)

\* The queue holds the newest events, without a gap: whatever is dropped under
\* load is older than everything kept, and the last event always stays.
KeepsNewest ==
    /\ \A i \in 1 .. Len(queue) : queue[i] + Len(queue) = pushed + i
    /\ taken + Len(queue) <= pushed

\* "monotonically increasing sequence number" (RAYNEO_Event::seq): the reader
\* sees numbers strictly increase, even when events were dropped.
IncreasingTake == \A p \in Pollers : Take(p) => taken' > taken
DeliveredInOrder == [][IncreasingTake]_vars

\* A sleeping poller and a queued event do not stay together: the event is
\* taken or the poller is woken, without any timeout firing.
WaiterIsServed == (queue # <<>> /\ Waiting # {}) ~> (queue = <<>> \/ Waiting = {})

\* The queue implements the lossy stream of EventStream.
Stream == INSTANCE EventStream WITH
    Window <- MaxQueue,
    sent <- pushed,
    gone <- pushed - Len(queue),
    last <- taken
ImplementsStream == Stream!Spec
=============================================================================
