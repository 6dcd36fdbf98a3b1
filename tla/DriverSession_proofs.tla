------------------------ MODULE DriverSession_proofs ------------------------
(***************************************************************************)
(* The threads of the OpenVR driver live inside what they use, a button    *)
(* press is kept and the sleep state follows the last notification: for    *)
(* every queue limit, every number of sessions and of events.              *)
(***************************************************************************)
EXTENDS DriverSession, SequenceTheorems, TLAPS

USE DEF vars, sdk, loop, hmd, past
USE DriverAssumption

----------------------------------------------------------------------------
(* Type correctness *)

\* At the limit the queue makes room and keeps its type.
LEMMA RoomMade ==
    ASSUME queue \in Seq(Events), NEW e \in Events
    PROVE  Append(IF Len(queue) >= MaxQueue THEN Tail(queue) ELSE queue, e)
             \in Seq(Events)
<1>1. Len(queue) >= MaxQueue => queue # <<>>
  BY LenProperties, EmptySeq
<1>2. (IF Len(queue) >= MaxQueue THEN Tail(queue) ELSE queue) \in Seq(Events)
  BY <1>1, HeadTailProperties
<1> QED BY <1>2, AppendProperties

\* Every field keeps its type.
THEOREM TypeCorrect == Spec => []TypeOK
<1> USE DEF Load, CreateFails, Create, StartRayneoEventThread, AddDevice, Activate,
            RunFrame, Deactivate, JoinPose, Cleanup, StopSignal, StopJoin,
            StopDestroys, Unload, LoopCheck, Poll, PollTimesOut, Handle, Leave,
            PoseCheck, GetPose, Emit
<1>1. Init => TypeOK
  <2>1. <<>> \in Seq(Events) /\ "imu" \in Events
    BY DEF Events
  <2>2. Init => ctx \in BOOLEAN /\ running \in BOOLEAN /\ sleeping \in BOOLEAN
                  /\ button \in BOOLEAN /\ device \in BOOLEAN /\ active \in BOOLEAN
                  /\ inputs \in BOOLEAN /\ posed \in BOOLEAN
    BY Zenon DEF Init
  <2>3. Init => provider \in BOOLEAN /\ terminated \in BOOLEAN /\ owed \in BOOLEAN
    BY Zenon DEF Init
  <2>4. Init => SdkOK /\ LoopOK
    BY <2>1, <2>2 DEF Init, SdkOK, LoopOK
  <2>5. Init => HmdOK /\ ServerOK /\ PastOK
    BY <2>2, <2>3 DEF Init, HmdOK, ServerOK, PastOK
  <2> QED BY <2>4, <2>5 DEF TypeOK
<1>2. TypeOK /\ [Next]_vars => TypeOK'
  <2> SUFFICES ASSUME TypeOK, [Next]_vars PROVE TypeOK'
    OBVIOUS
  <2> USE DEF Next, Server, EventLoop, PoseLoop, Finished
  <2>1. SdkOK'
    <3>1. CASE Create \/ StopDestroys
      <4>1. <<>> \in Seq(Events) /\ <<"attached">> \in Seq(Events)
        BY DEF Events
      <4>2. queue' \in Seq(Events)
        BY <3>1, <4>1
      <4>3. ctx' \in BOOLEAN
        BY <3>1, Zenon
      <4> QED BY <3>1, <4>2, <4>3 DEF TypeOK, SdkOK
    <3>2. CASE Poll
      <4>1. Head(queue) \in Events /\ Tail(queue) \in Seq(Events)
        BY <3>2, HeadTailProperties DEF TypeOK, SdkOK
      <4> QED BY <3>2, <4>1 DEF TypeOK, SdkOK
    <3>3. ASSUME NEW e \in Events, Emit(e) PROVE SdkOK'
      <4>1. queue' \in Seq(Events)
        BY <3>3, RoomMade DEF TypeOK, SdkOK
      <4> QED BY <3>3, <4>1 DEF TypeOK, SdkOK
    <3>4. CASE UNCHANGED sdk
      BY <3>4 DEF TypeOK, SdkOK
    <3> QED BY <3>1, <3>2, <3>3, <3>4
  <2>2. LoopOK'
    <3>1. CASE Poll
      <4>1. Head(queue) \in Events
        BY <3>1, HeadTailProperties DEF TypeOK, SdkOK
      <4> QED BY <3>1, <4>1 DEF TypeOK, LoopOK
    <3>2. CASE Handle
      <4>1. sleeping' \in BOOLEAN
        BY <3>2 DEF TypeOK, LoopOK
      <4>2. button' \in BOOLEAN /\ UNCHANGED <<running, event>>
        BY <3>2 DEF TypeOK, LoopOK
      <4> QED BY <3>2, <4>1, <4>2 DEF TypeOK, LoopOK
    <3>3. CASE StartRayneoEventThread \/ RunFrame \/ StopSignal \/ StopJoin
      BY <3>3 DEF TypeOK, LoopOK
    <3>4. CASE LoopCheck \/ PollTimesOut \/ Leave
      BY <3>4 DEF TypeOK, LoopOK
    <3>5. CASE UNCHANGED loop
      BY <3>5 DEF TypeOK, LoopOK
    <3> QED BY <3>1, <3>2, <3>3, <3>4, <3>5
  <2>3. HmdOK'
    BY DEF TypeOK, HmdOK
  <2>4. ServerOK'
    <3>1. terminated' \in BOOLEAN
      BY DEF TypeOK, ServerOK
    <3>2. provider' \in BOOLEAN
      <4>1. CASE Load \/ Unload
        BY <4>1, Zenon
      <4>2. CASE UNCHANGED provider
        BY <4>2 DEF TypeOK, ServerOK
      <4> QED BY <4>1, <4>2
    <3>3. sessions' \in Nat
      <4>1. CASE Load
        BY <4>1 DEF TypeOK, ServerOK
      <4>2. CASE UNCHANGED sessions
        BY <4>2 DEF TypeOK, ServerOK
      <4> QED BY <4>1, <4>2
    <3>4. vpc' \in {"unloaded", "create", "spawn", "add", "added", "frames",
                   "joinPose", "deactivated", "signal", "join", "stop", "clear"}
      BY DEF TypeOK, ServerOK
    <3> QED BY <3>1, <3>2, <3>3, <3>4 DEF ServerOK
  <2>5. PastOK'
    BY DEF TypeOK, PastOK
  <2> QED BY <2>1, <2>2, <2>3, <2>4, <2>5 DEF TypeOK
<1> QED BY <1>1, <1>2, PTL DEF Spec

----------------------------------------------------------------------------
(* Threads inside what they use *)

\* Where vrserver's thread is when a context, an event thread, a device or a pose
\* thread may exist.
WithContext == {"spawn", "add", "added", "frames", "joinPose", "deactivated",
                "signal", "join", "stop"}
WithLoop == WithContext \ {"spawn", "stop"}
WithDevice == {"added", "frames", "joinPose", "deactivated"}

\* The event thread lives within its context, and the flag that keeps it running
\* never outlives it; the pose thread lives between Activate and the join of
\* Deactivate, within its device; nothing joinable was overwritten or destroyed.
ContainedInv ==
    /\ ctx => vpc \in WithContext
    /\ vpc = "spawn" => ctx /\ epc = "none"
    /\ epc # "none" => ctx /\ vpc \in WithLoop
    /\ running => epc \in {"check", "poll", "handle", "leave"} /\ vpc # "join"
    /\ device <=> vpc \in WithDevice
    /\ inputs => vpc \in WithDevice
    /\ ppc # "none" => vpc \in {"frames", "joinPose"}
    /\ provider <=> vpc # "unloaded"
    /\ ~terminated

\* Every step keeps it.
LEMMA ContainedStep ==
    ASSUME TypeOK, ContainedInv, [Next]_vars
    PROVE  ContainedInv'
<1> USE DEF TypeOK, SdkOK, LoopOK, HmdOK, ServerOK, ContainedInv, WithContext, WithLoop, WithDevice
<1>1. CASE Load \/ CreateFails \/ Create
  BY <1>1 DEF Load, CreateFails, Create
<1>2. CASE StartRayneoEventThread \/ AddDevice \/ Activate
  BY <1>2 DEF StartRayneoEventThread, AddDevice, Activate
<1>3. CASE RunFrame \/ Deactivate \/ JoinPose
  BY <1>3 DEF RunFrame, Deactivate, JoinPose
<1>4. CASE Cleanup \/ StopSignal \/ StopJoin \/ StopDestroys \/ Unload
  BY <1>4 DEF Cleanup, StopSignal, StopJoin, StopDestroys, Unload
<1>5. CASE LoopCheck \/ Poll \/ PollTimesOut \/ Leave
  BY <1>5 DEF LoopCheck, Poll, PollTimesOut, Leave
<1>6. CASE Handle
  BY <1>6 DEF Handle
<1>7. CASE PoseLoop
  BY <1>7 DEF PoseLoop, PoseCheck, GetPose
<1>8. ASSUME NEW e \in Events, Emit(e) PROVE ContainedInv'
  BY <1>8 DEF Emit
<1>9. CASE UNCHANGED vars
  BY <1>9
<1> QED BY <1>1, <1>2, <1>3, <1>4, <1>5, <1>6, <1>7, <1>8, <1>9
        DEF Next, Server, EventLoop, Finished

\* ContainedInv holds throughout.
LEMMA Contained == Spec => []ContainedInv
<1>1. Init => ContainedInv
  BY DEF Init, ContainedInv, WithDevice
<1>2. TypeOK /\ ContainedInv /\ [Next]_vars => ContainedInv'
  BY ContainedStep
<1> QED BY <1>1, <1>2, TypeCorrect, PTL DEF Spec

\* No thread of the driver outlives the context or the device it uses, and an
\* unloaded driver holds nothing.
THEOREM NoThreadOutlives == Spec => []ThreadsAreContained
<1>1. ContainedInv => ThreadsAreContained
  BY DEF ContainedInv, ThreadsAreContained, WithContext, WithLoop, WithDevice
<1> QED BY Contained, <1>1, PTL

----------------------------------------------------------------------------
(* Button presses *)

\* A press is owed only while the inputs exist, so that the frame that takes the
\* flag also clicks.
PressInv == owed => button /\ inputs

\* A handled press is clicked or still pending.
THEOREM PressesKept == Spec => []PressIsKept
<1> USE DEF PressInv
<1>1. Init => PressInv
  BY DEF Init
<1>2. TypeOK /\ ContainedInv /\ PressInv /\ [Next]_vars => PressInv'
  <2> SUFFICES ASSUME TypeOK, ContainedInv, PressInv, [Next]_vars PROVE PressInv'
    OBVIOUS
  <2> USE DEF TypeOK, LoopOK, HmdOK, PastOK
  <2>1. CASE RunFrame
    BY <2>1 DEF RunFrame
  <2>2. CASE Handle
    BY <2>2 DEF Handle
  <2>3. CASE Activate
    BY <2>3 DEF Activate
  <2>4. CASE Cleanup
    BY <2>4 DEF Cleanup
  <2>5. CASE UNCHANGED <<owed, button, inputs>>
    BY <2>5
  <2>6. Load \/ CreateFails \/ Create \/ StartRayneoEventThread \/ AddDevice
          \/ Deactivate \/ JoinPose \/ StopSignal \/ StopJoin \/ StopDestroys \/ Unload
          \/ LoopCheck \/ Poll \/ PollTimesOut \/ Leave \/ PoseLoop
          \/ (\E e \in Events : Emit(e)) => UNCHANGED <<owed, button, inputs>>
    BY DEF Load, CreateFails, Create, StartRayneoEventThread, AddDevice,
           Deactivate, JoinPose, StopSignal, StopJoin, StopDestroys, Unload,
           LoopCheck, Poll, PollTimesOut, Leave, PoseLoop, PoseCheck, GetPose, Emit
  <2> QED BY <2>1, <2>2, <2>3, <2>4, <2>5, <2>6
          DEF Next, Server, EventLoop, Finished
<1>3. PressInv => PressIsKept
  BY DEF PressIsKept
<1> QED BY <1>1, <1>2, <1>3, TypeCorrect, Contained, PTL DEF Spec

----------------------------------------------------------------------------
(* Sleep notifications *)

Naps == {"sleep", "wake"}
NoNap(q) == \A i \in 1 .. Len(q) : q[i] \notin Naps
LastNap(q, n) ==
    \E i \in 1 .. Len(q) : q[i] = n /\ \A j \in i + 1 .. Len(q) : q[j] \notin Naps

\* The last notification that was not dropped is the last one in the queue, or
\* else the one being handled, or else the one the sleep state shows.  A loop
\* that has left does not come back to this queue.
SleepInv ==
    told # "none" /\ (vpc = "spawn" \/ epc \in {"check", "poll", "handle"}) =>
        \/ LastNap(queue, told)
        \/ NoNap(queue) /\ epc = "handle" /\ event \in Naps /\ event = told
        \/ NoNap(queue) /\ (epc = "handle" => event \notin Naps)
             /\ (sleeping <=> told = "sleep")

\* What a queue without its head still holds.
LEMMA NapsOfTail ==
    ASSUME NEW q \in Seq(Events), q # <<>>
    PROVE  /\ NoNap(q) => NoNap(Tail(q)) /\ Head(q) \notin Naps
           /\ NoNap(Tail(q)) => Notified(Tail(q), "none") = "none"
           /\ \A n \in Naps : LastNap(q, n) =>
                LastNap(Tail(q), n) \/ (NoNap(Tail(q)) /\ Head(q) = n)
<1>1. /\ Len(q) \in Nat \ {0} /\ Len(Tail(q)) = Len(q) - 1 /\ Head(q) = q[1]
      /\ \A i \in 1 .. Len(Tail(q)) : Tail(q)[i] = q[i + 1]
  BY HeadTailProperties, EmptySeq
<1>2. ASSUME NoNap(q) PROVE NoNap(Tail(q)) /\ Head(q) \notin Naps
  BY <1>1, <1>2 DEF NoNap
<1>3. ASSUME NoNap(Tail(q)) PROVE Notified(Tail(q), "none") = "none"
  <2>1. {i \in 1 .. Len(Tail(q)) : Tail(q)[i] \in {"sleep", "wake"}} = {}
    BY <1>3 DEF NoNap, Naps
  <2> QED BY <2>1 DEF Notified
<1>4. ASSUME NEW n \in Naps, LastNap(q, n)
      PROVE  LastNap(Tail(q), n) \/ (NoNap(Tail(q)) /\ Head(q) = n)
  <2>1. PICK i \in 1 .. Len(q) : q[i] = n /\ \A j \in i + 1 .. Len(q) : q[j] \notin Naps
    BY <1>4 DEF LastNap
  <2>2. CASE i = 1
    <3>1. ASSUME NEW k \in 1 .. Len(Tail(q)) PROVE Tail(q)[k] \notin Naps
      <4>1. k + 1 \in i + 1 .. Len(q)
        BY <1>1, <2>2
      <4> QED BY <1>1, <2>1, <4>1
    <3> QED BY <1>1, <2>1, <2>2, <3>1 DEF NoNap
  <2>3. CASE i # 1
    <3>1. i - 1 \in 1 .. Len(Tail(q)) /\ Tail(q)[i - 1] = n
      <4>1. i - 1 \in 1 .. Len(Tail(q)) /\ (i - 1) + 1 = i
        BY <1>1, <2>3
      <4> QED BY <1>1, <2>1, <4>1
    <3>2. ASSUME NEW j \in (i - 1) + 1 .. Len(Tail(q)) PROVE Tail(q)[j] \notin Naps
      <4>1. j \in 1 .. Len(Tail(q)) /\ j + 1 \in i + 1 .. Len(q)
        BY <1>1, <3>1
      <4> QED BY <1>1, <2>1, <4>1
    <3> QED BY <3>1, <3>2 DEF LastNap
  <2> QED BY <2>2, <2>3
<1> QED BY <1>2, <1>3, <1>4

\* What a queue holds after an append.
LEMMA NapsOfAppend ==
    ASSUME NEW q \in Seq(Events), NEW e \in Events
    PROVE  /\ e \in Naps => LastNap(Append(q, e), e)
           /\ e \notin Naps /\ NoNap(q) => NoNap(Append(q, e))
           /\ e \notin Naps => \A n \in Naps : LastNap(q, n) => LastNap(Append(q, e), n)
<1>1. /\ Len(q) \in Nat /\ Len(Append(q, e)) = Len(q) + 1
      /\ Append(q, e)[Len(q) + 1] = e
      /\ \A i \in 1 .. Len(q) : Append(q, e)[i] = q[i]
  BY AppendProperties, LenProperties
<1>2. e \in Naps => LastNap(Append(q, e), e)
  BY <1>1 DEF LastNap
<1>3. e \notin Naps /\ NoNap(q) => NoNap(Append(q, e))
  BY <1>1 DEF NoNap
<1>4. ASSUME e \notin Naps, NEW n \in Naps, LastNap(q, n)
      PROVE  LastNap(Append(q, e), n)
  <2>1. PICK i \in 1 .. Len(q) : q[i] = n /\ \A j \in i + 1 .. Len(q) : q[j] \notin Naps
    BY <1>4 DEF LastNap
  <2>2. i \in 1 .. Len(Append(q, e)) /\ Append(q, e)[i] = n
    BY <1>1, <2>1
  <2>3. ASSUME NEW j \in i + 1 .. Len(Append(q, e)) PROVE Append(q, e)[j] \notin Naps
    <3>1. j = Len(q) + 1 \/ (j \in i + 1 .. Len(q) /\ j \in 1 .. Len(q))
      BY <1>1
    <3> QED BY <1>1, <1>4, <2>1, <3>1
  <2> QED BY <2>2, <2>3 DEF LastNap
<1> QED BY <1>2, <1>3, <1>4

\* When the event thread has caught up, the sleep state is the last notification's.
THEOREM SleepStateFollows == Spec => []SleepFollows
<1>1. Init => SleepInv
  BY DEF Init, SleepInv
<1>2. TypeOK /\ ContainedInv /\ SleepInv /\ [Next]_vars => SleepInv'
  <2> SUFFICES ASSUME TypeOK, ContainedInv, SleepInv, [Next]_vars PROVE SleepInv'
    OBVIOUS
  <2>q. queue \in Seq(Events) /\ told \in {"none", "sleep", "wake"}
    BY DEF TypeOK, SdkOK, PastOK
  <2>1. CASE Create
    BY <2>1 DEF Create, SleepInv
  <2>2. CASE Poll
    <3>1. queue # <<>> /\ event' = Head(queue) /\ queue' = Tail(queue)
            /\ epc = "poll" /\ epc' = "handle" /\ UNCHANGED <<told, sleeping, vpc>>
      BY <2>2 DEF Poll
    <3> QED BY <2>q, <3>1, NapsOfTail DEF SleepInv, Naps
  <2>3. CASE Handle
    <3>1. UNCHANGED <<told, queue, vpc>> /\ epc = "handle" /\ epc' \in {"check", "leave"}
      BY <2>3 DEF Handle
    <3>2. /\ event = "sleep" => sleeping'
          /\ event = "wake" => ~sleeping'
          /\ event \notin Naps => sleeping' = sleeping
      BY <2>3 DEF Handle, Naps
    <3>3. vpc # "spawn"
      BY <3>1 DEF ContainedInv
    <3> QED BY <2>q, <3>1, <3>2, <3>3 DEF SleepInv, Naps
  <2>4. ASSUME NEW e \in Events, Emit(e) PROVE SleepInv'
    <3> DEFINE room == IF Len(queue) >= MaxQueue THEN Tail(queue) ELSE queue
    <3>1. queue' = Append(room, e) /\ UNCHANGED <<vpc, epc, event, sleeping>>
      BY <2>4 DEF Emit
    <3>2. Len(queue) >= MaxQueue => queue # <<>>
      BY <2>q, LenProperties, EmptySeq
    <3>3. room \in Seq(Events)
      BY <2>q, <3>2, HeadTailProperties
    <3>4. CASE e \in Naps
      BY <2>4, <3>1, <3>3, <3>4, NapsOfAppend DEF Emit, SleepInv, Naps
    <3>5. CASE e \notin Naps /\ told' # "none"
      <4>1. told' = told
        BY <2>4, <3>5 DEF Emit, Naps
      <4>2. LastNap(queue, told) => LastNap(room, told)
        <5>1. CASE Len(queue) >= MaxQueue
          <6>1. ~(NoNap(Tail(queue)) /\ Head(queue) \in Naps)
            BY <2>4, <2>q, <3>2, <3>5, <5>1, NapsOfTail DEF Emit, Naps
          <6> QED BY <2>q, <3>2, <3>5, <4>1, <5>1, <6>1, NapsOfTail DEF Naps
        <5>2. CASE ~(Len(queue) >= MaxQueue)
          BY <5>2
        <5> QED BY <5>1, <5>2
      <4>3. NoNap(queue) => NoNap(room)
        BY <2>q, <3>2, NapsOfTail
      <4>4. told \in Naps
        BY <2>q, <3>5, <4>1 DEF Naps
      <4>5. /\ LastNap(queue, told) => LastNap(queue', told)
            /\ NoNap(queue) => NoNap(queue')
        BY <3>1, <3>3, <3>5, <4>2, <4>3, <4>4, NapsOfAppend
      <4> QED BY <3>1, <4>1, <4>5 DEF SleepInv
    <3>6. CASE told' = "none"
      BY <3>6 DEF SleepInv
    <3> QED BY <3>4, <3>5, <3>6
  <2>5. CASE LoopCheck \/ PollTimesOut \/ Leave
    BY <2>5 DEF LoopCheck, PollTimesOut, Leave, SleepInv
  <2>6. CASE StartRayneoEventThread
    <3>1. vpc = "spawn" /\ epc = "none" /\ epc' # "handle"
            /\ UNCHANGED <<told, queue, event, sleeping>>
      BY <2>6 DEF StartRayneoEventThread, ContainedInv
    <3> QED BY <3>1 DEF SleepInv
  <2>7. CASE StopJoin \/ StopDestroys \/ CreateFails \/ Load
    <3>1. epc' = "none" /\ vpc' # "spawn"
      BY <2>7 DEF StopJoin, StopDestroys, CreateFails, Load, ContainedInv,
                  WithContext, WithLoop
    <3> QED BY <3>1 DEF SleepInv
  <2>8. ASSUME UNCHANGED <<told, queue, event, sleeping, epc>>, vpc' # "spawn"
        PROVE  SleepInv'
    BY <2>8 DEF SleepInv
  <2>9. AddDevice \/ Activate \/ Deactivate \/ JoinPose \/ Cleanup \/ StopSignal
          \/ Unload =>
          UNCHANGED <<told, queue, event, sleeping, epc>> /\ vpc' # "spawn"
    BY DEF AddDevice, Activate, Deactivate, JoinPose, Cleanup, StopSignal, Unload
  <2>10. RunFrame \/ PoseLoop \/ UNCHANGED vars =>
           UNCHANGED <<told, queue, event, sleeping, epc, vpc>>
    BY DEF RunFrame, PoseLoop, PoseCheck, GetPose
  <2>11. CASE UNCHANGED <<told, queue, event, sleeping, epc, vpc>>
    BY <2>11 DEF SleepInv
  <2> QED BY <2>1, <2>2, <2>3, <2>4, <2>5, <2>6, <2>7, <2>8, <2>9, <2>10, <2>11
          DEF Next, Server, EventLoop, Finished
<1>3. TypeOK /\ SleepInv => SleepFollows
  <2> SUFFICES ASSUME TypeOK, SleepInv, told # "none", queue = <<>>,
                      epc \in {"check", "poll"}
               PROVE  sleeping = (told = "sleep")
    BY DEF SleepFollows
  <2>1. Len(queue) = 0
    OBVIOUS
  <2>2. ~LastNap(queue, told)
    BY <2>1 DEF LastNap
  <2>3. sleeping <=> told = "sleep"
    BY <2>2 DEF SleepInv
  <2>4. sleeping \in BOOLEAN
    BY DEF TypeOK, LoopOK
  <2> QED BY <2>3, <2>4, Zenon
<1> QED BY <1>1, <1>2, <1>3, TypeCorrect, Contained, PTL DEF Spec
=============================================================================
