----------------------- MODULE RayneoService_proofs ------------------------
(***************************************************************************)
(* Type correctness and the safety of the life cycle of RayneoService, for *)
(* every set of application threads and every number of restarts; the      *)
(* safety theorems but OneCleaner are about an event callback that does not *)
(* call Rayneo_Stop (~callbackStops).                                      *)
(***************************************************************************)
EXTENDS RayneoService, TLAPS

USE DEF vars, flags, usb, transfer, threads, env
USE DEF Up, At, WorkerAt, CallbackAt, Goto

----------------------------------------------------------------------------
(* Type correctness *)

\* A fresh context has its types.
LEMMA InitTypes == Init => TypeOK
<1> SUFFICES ASSUME Init PROVE TypeOK
  OBVIOUS
<1>1. FlagsOK
  BY DEF Init, FlagsOK
<1>2. UsbOK
  BY DEF Init, UsbOK
<1>3. TransferOK
  BY DEF Init, TransferOK, Threads
<1>4. ThreadsOK
  BY DEF Init, ThreadsOK, Points
<1>5. EnvOK
  BY DEF Init, EnvOK
<1> QED BY <1>1, <1>2, <1>3, <1>4, <1>5 DEF TypeOK

\* A step of a caller inside a call keeps every type.
LEMMA CallerStepTypes ==
    ASSUME TypeOK, NEW c \in Callers, CallerStep(c)
    PROVE  TypeOK'
<1> USE DEF StartReset, StartInit, StartOpen, StartFails, StartAttach,
              AttachedReturns, StartSkip, StartLaunch, StartSpawn, SendReturns,
              StopGate, StopClaim, StopSignal, StopCancel, StopJoin, StopCleanup,
              StopDetach, DestroyDelete, CallerStep, Return, Resume
<1>1. FlagsOK'
  BY DEF TypeOK, FlagsOK
<1>2. UsbOK'
  <2>1. CASE StartInit(c)
    BY <2>1 DEF TypeOK, UsbOK
  <2>2. CASE StartOpen(c)
    BY <2>2 DEF TypeOK, UsbOK
  <2>3. CASE StartLaunch(c)
    BY <2>3 DEF TypeOK, UsbOK
  <2>4. CASE StopCleanup(c)
    BY <2>4 DEF TypeOK, UsbOK
  <2>5. CASE UNCHANGED usb
    BY <2>5 DEF TypeOK, UsbOK
  <2> QED BY <2>1, <2>2, <2>3, <2>4, <2>5
<1>3. TransferOK'
  BY DEF TypeOK, TransferOK, Submitted, Threads
<1>4. ThreadsOK'
  BY DEF TypeOK, ThreadsOK, Points, StartPoints, StopPoints
<1>5. EnvOK'
  BY DEF TypeOK, EnvOK
<1> QED BY <1>1, <1>2, <1>3, <1>4, <1>5 DEF TypeOK

\* So does a call the application makes.
LEMMA RequestTypes ==
    ASSUME TypeOK, NEW c \in Callers, Request(c)
    PROVE  TypeOK'
<1> USE DEF StartCall, SendCall, StopCall, DestroyCall, AttachedStops,
              CallbackStopsOnCaller, Request
<1>1. FlagsOK'
  BY DEF TypeOK, FlagsOK
<1>2. UsbOK'
  BY DEF TypeOK, UsbOK
<1>3. TransferOK'
  BY DEF TypeOK, TransferOK, Submitted, Threads
<1>4. ThreadsOK'
  BY DEF TypeOK, ThreadsOK, Points, StartPoints, StopPoints
<1>5. EnvOK'
  BY DEF TypeOK, EnvOK
<1> QED BY <1>1, <1>2, <1>3, <1>4, <1>5 DEF TypeOK

\* So does a step of the worker, the callback, the device or nobody.
LEMMA OtherTypes ==
    ASSUME TypeOK,
           \/ WorkerStep \/ (\E t \in Threads : Reap(t))
           \/ CallbackStep \/ CallbackStopsOnWorker
           \/ Device \/ Finished \/ UNCHANGED vars
    PROVE  TypeOK'
<1> USE DEF WorkerStep, WorkerCheck, WorkerReturns, Reap, CallbackStep,
              CallbackReturns, CallbackTail, CallbackSubmit,
              CallbackStopsOnWorker, Device, Complete, Replug, Finished
<1>1. FlagsOK'
  BY DEF TypeOK, FlagsOK
<1>2. UsbOK'
  BY DEF TypeOK, UsbOK
<1>3. TransferOK'
  BY DEF TypeOK, TransferOK, Submitted, Threads
<1>4. ThreadsOK'
  BY DEF TypeOK, ThreadsOK, Points, StartPoints, StopPoints
<1>5. EnvOK'
  BY DEF TypeOK, EnvOK
<1> QED BY <1>1, <1>2, <1>3, <1>4, <1>5 DEF TypeOK

\* Every field keeps its type, whatever the callback does.
THEOREM TypeCorrect == Spec => []TypeOK
<1>1. TypeOK /\ [Next]_vars => TypeOK'
  BY CallerStepTypes, RequestTypes, OtherTypes DEF Next
<1> QED BY InitTypes, <1>1, PTL DEF Spec

----------------------------------------------------------------------------
(* One cleaner, whatever the callback does: the path past the claim is      *)
(* taken only by the Stop that takes running, and running cannot be set     *)
(* again before that Stop is over.                                          *)

CleanerInv ==
    /\ SoleCleaner
    /\ \A c \in Callers : pc[c] \in CleanerPoints => ~running

\* However many threads call Stop, and wherever the event callback calls it
\* from, one Stop frees the session.
THEOREM OneCleaner == Spec => []SoleCleaner
<1> USE DEF StartPoints, StopPoints, CleanerPoints
<1>1. Init => CleanerInv
  BY DEF Init, CleanerInv, SoleCleaner
<1>2. ASSUME TypeOK, CleanerInv, NEW c \in Callers, CallerStep(c)
      PROVE  CleanerInv'
  <2> USE DEF CleanerInv, SoleCleaner, TypeOK, ThreadsOK, FlagsOK
  <2>1. CASE StopClaim(c)
    BY <1>2, <2>1 DEF StopClaim, Return, Resume
  <2>2. CASE StopGate(c)
    BY <1>2, <2>2 DEF StopGate, Return, Resume
  <2>3. CASE StopDetach(c)
    BY <1>2, <2>3 DEF StopDetach, Return, Resume
  <2>4. CASE StopSignal(c) \/ StopCancel(c) \/ StopJoin(c) \/ StopCleanup(c)
    BY <1>2, <2>4 DEF StopSignal, StopCancel, StopJoin, StopCleanup
  <2>5. CASE StartReset(c) \/ StartInit(c) \/ StartOpen(c) \/ StartFails(c)
    BY <1>2, <2>5 DEF StartReset, StartInit, StartOpen, StartFails
  <2>6. CASE StartAttach(c) \/ AttachedReturns(c) \/ StartSkip(c)
    BY <1>2, <2>6 DEF StartAttach, AttachedReturns, StartSkip
  <2>7. CASE StartLaunch(c) \/ StartSpawn(c) \/ SendReturns(c) \/ DestroyDelete(c)
    BY <1>2, <2>7 DEF StartLaunch, StartSpawn, SendReturns, DestroyDelete
  <2> QED BY <1>2, <2>1, <2>2, <2>3, <2>4, <2>5, <2>6, <2>7 DEF CallerStep
<1>3. ASSUME TypeOK, CleanerInv, NEW c \in Callers, Request(c)
      PROVE  CleanerInv'
  <2> USE DEF CleanerInv, SoleCleaner, TypeOK, ThreadsOK, FlagsOK
  <2>1. CASE StartCall(c)
    BY <1>3, <2>1 DEF StartCall, Alone
  <2>2. CASE SendCall(c) \/ StopCall(c) \/ DestroyCall(c)
    BY <1>3, <2>2 DEF SendCall, StopCall, DestroyCall
  <2>3. CASE AttachedStops(c) \/ CallbackStopsOnCaller(c)
    BY <1>3, <2>3 DEF AttachedStops, CallbackStopsOnCaller
  <2> QED BY <1>3, <2>1, <2>2, <2>3 DEF Request
<1>4. ASSUME CleanerInv,
             \/ WorkerStep \/ (\E t \in Threads : Reap(t))
             \/ CallbackStep \/ CallbackStopsOnWorker
             \/ Device \/ Finished \/ UNCHANGED vars
      PROVE  CleanerInv'
  BY <1>4 DEF CleanerInv, SoleCleaner, WorkerStep, WorkerCheck, WorkerReturns,
              Reap, CallbackStep, CallbackReturns, CallbackTail, CallbackSubmit,
              CallbackStopsOnWorker, Device, Complete, Replug, Finished
<1>5. TypeOK /\ CleanerInv /\ [Next]_vars => CleanerInv'
  BY <1>2, <1>3, <1>4 DEF Next
<1>6. CleanerInv => SoleCleaner
  BY DEF CleanerInv
<1> QED BY <1>1, <1>5, <1>6, TypeCorrect, PTL DEF Spec

----------------------------------------------------------------------------
(* Safety, when the event callback does not call Rayneo_Stop *)

USE DEF StartPoints, StopPoints, CleanerPoints

\* No step changes what the application's callback may do.
LEMMA CallbackIsRigid == [Next]_vars => callbackStops' = callbackStops
<1>1. ASSUME NEW c \in Callers, CallerStep(c) PROVE callbackStops' = callbackStops
  BY <1>1 DEF CallerStep, StartReset, StartInit, StartOpen, StartFails, StartAttach,
              AttachedReturns, StartSkip, StartLaunch, StartSpawn, SendReturns,
              StopGate, StopClaim, StopSignal, StopCancel, StopJoin, StopCleanup,
              StopDetach, DestroyDelete
<1>2. ASSUME NEW c \in Callers, Request(c) PROVE callbackStops' = callbackStops
  BY <1>2 DEF Request, StartCall, SendCall, StopCall, DestroyCall, AttachedStops,
              CallbackStopsOnCaller
<1>3. ASSUME \/ WorkerStep \/ (\E t \in Threads : Reap(t))
             \/ CallbackStep \/ CallbackStopsOnWorker
             \/ Device \/ Finished \/ UNCHANGED vars
      PROVE  callbackStops' = callbackStops
  BY <1>3 DEF WorkerStep, WorkerCheck, WorkerReturns, Reap, CallbackStep,
              CallbackReturns, CallbackTail, CallbackSubmit,
              CallbackStopsOnWorker, Device, Complete, Replug, Finished
<1> QED BY <1>1, <1>2, <1>3 DEF Next

\* A fresh context is orderly.
LEMMA InitOrderly == Init => Orderly
  BY DEF Init, Orderly, SoloIsAlone, StopsAreTopLevel, SoleCleaner,
         CleanupAfterWorker, StartingHolds, CleaningHolds, SendingHolds,
         DeletingHolds, CallbackHandles, RunningIsUp, StoppedOrCleaning,
         StopIsOwed, NeverTerminates, Clean, Solo, Alone

\* Every step of a caller inside Start, SendRaw, Stop or Destroy preserves it.
LEMMA CallerStepInv ==
    ASSUME TypeOK, Orderly, NEW c \in Callers, CallerStep(c)
    PROVE  Orderly'
<1> USE DEF Orderly, SoloIsAlone, StopsAreTopLevel, SoleCleaner,
            CleanupAfterWorker, StartingHolds, CleaningHolds, SendingHolds,
            DeletingHolds, CallbackHandles, RunningIsUp, StoppedOrCleaning,
            StopIsOwed, NeverTerminates, Clean, Solo, Alone, HandlingEvents,
            InCallback
<1> USE ServiceAssumption DEF TypeOK, FlagsOK, UsbOK, TransferOK, ThreadsOK,
                              EnvOK, Points, Threads
<1>1. CASE StartReset(c)
  BY <1>1 DEF StartReset
<1>2. CASE StartInit(c)
  BY <1>2 DEF StartInit
<1>3. CASE StartOpen(c)
  BY <1>3 DEF StartOpen
<1>4. CASE StartFails(c)
  BY <1>4 DEF StartFails
<1>5. CASE StartAttach(c)
  BY <1>5 DEF StartAttach
<1>6. CASE AttachedReturns(c)
  BY <1>6 DEF AttachedReturns
<1>7. CASE StartSkip(c)
  BY <1>7 DEF StartSkip, CanRead
<1>8. CASE StartLaunch(c)
  BY <1>8 DEF StartLaunch, CanRead, Submitted
<1>9. CASE StartSpawn(c)
  BY <1>9 DEF StartSpawn
<1>10. CASE SendReturns(c)
  BY <1>10 DEF SendReturns
<1>11. CASE StopGate(c)
  BY <1>11 DEF StopGate, Return, Resume
<1>12. CASE StopClaim(c)
  BY <1>12 DEF StopClaim, Return, Resume
<1>13. CASE StopSignal(c)
  BY <1>13 DEF StopSignal
<1>14. CASE StopCancel(c)
  BY <1>14 DEF StopCancel
<1>15. CASE StopJoin(c)
  BY <1>15 DEF StopJoin
<1>16. CASE StopCleanup(c)
  BY <1>16 DEF StopCleanup
<1>17. CASE StopDetach(c)
  BY <1>17 DEF StopDetach, Return, Resume
<1>18. CASE DestroyDelete(c)
  BY <1>18 DEF DestroyDelete
<1> QED
  BY <1>1, <1>2, <1>3, <1>4, <1>5, <1>6, <1>7, <1>8, <1>9,
         <1>10, <1>11, <1>12, <1>13, <1>14, <1>15, <1>16, <1>17, <1>18
  DEF CallerStep

\* Every call the application makes outside the callback preserves it.
LEMMA RequestInv ==
    ASSUME TypeOK, Orderly, ~callbackStops, NEW c \in Callers, Request(c)
    PROVE  Orderly'
<1> USE DEF Orderly, SoloIsAlone, StopsAreTopLevel, SoleCleaner,
            CleanupAfterWorker, StartingHolds, CleaningHolds, SendingHolds,
            DeletingHolds, CallbackHandles, RunningIsUp, StoppedOrCleaning,
            StopIsOwed, NeverTerminates, Clean, Solo, Alone, HandlingEvents,
            InCallback
<1> USE ServiceAssumption DEF TypeOK, FlagsOK, UsbOK, TransferOK, ThreadsOK,
                              EnvOK, Points, Threads
<1>1. CASE StartCall(c)
  BY <1>1 DEF StartCall
<1>2. CASE SendCall(c)
  BY <1>2 DEF SendCall
<1>3. CASE StopCall(c)
  BY <1>3 DEF StopCall, OnlyStops
<1>4. CASE DestroyCall(c)
  BY <1>4 DEF DestroyCall
<1> QED
  BY <1>1, <1>2, <1>3, <1>4
  DEF Request, AttachedStops, CallbackStopsOnCaller

\* So does every step of the worker loop, of transferCallback and of the device.
LEMMA OtherInv ==
    ASSUME TypeOK, Orderly, ~callbackStops,
           \/ WorkerStep \/ (\E t \in Threads : Reap(t))
           \/ CallbackStep \/ CallbackStopsOnWorker
           \/ Device \/ Finished \/ UNCHANGED vars
    PROVE  Orderly'
<1> USE DEF Orderly, SoloIsAlone, StopsAreTopLevel, SoleCleaner,
            CleanupAfterWorker, StartingHolds, CleaningHolds, SendingHolds,
            DeletingHolds, CallbackHandles, RunningIsUp, StoppedOrCleaning,
            StopIsOwed, NeverTerminates, Clean, Solo, Alone, HandlingEvents,
            InCallback
<1> USE ServiceAssumption DEF TypeOK, FlagsOK, UsbOK, TransferOK, ThreadsOK,
                              EnvOK, Points, Threads
<1>1. CASE WorkerCheck
  BY <1>1 DEF WorkerCheck
<1>2. CASE WorkerReturns
  BY <1>2 DEF WorkerReturns
<1>3. CASE CallbackReturns
  BY <1>3 DEF CallbackReturns
<1>4. CASE CallbackTail
  BY <1>4 DEF CallbackTail
<1>5. CASE CallbackSubmit
  BY <1>5 DEF CallbackSubmit, Submitted
<1>6. CASE Complete
  BY <1>6 DEF Complete
<1>7. CASE Replug
  BY <1>7 DEF Replug
<1>8. ASSUME NEW t \in Threads, Reap(t) PROVE Orderly'
  BY <1>8 DEF Reap
<1>9. CASE Finished \/ UNCHANGED vars
  BY <1>9 DEF Finished
<1> QED
  BY <1>1, <1>2, <1>3, <1>4, <1>5, <1>6, <1>7, <1>8, <1>9
  DEF WorkerStep, CallbackStep, Device, CallbackStopsOnWorker

\* ServiceInv is an invariant: with a callback that never calls Stop each thread
\* of a live context is where the flags say it may be, and no call ends in
\* std::terminate.
THEOREM ServiceSafe == Spec => []ServiceInv
<1>1. Init => ServiceInv
  BY InitOrderly DEF ServiceInv
<1>2. TypeOK /\ ServiceInv /\ [Next]_vars => ServiceInv'
  BY CallerStepInv, RequestInv, OtherInv, CallbackIsRigid DEF Next, ServiceInv
<1> QED BY <1>1, <1>2, TypeCorrect, PTL DEF Spec

----------------------------------------------------------------------------
(* What the invariant means to a client *)

\* Stop frees the transfer, the handle and the libusb context only when no
\* thread can still touch them.
THEOREM JoinedBeforeCleanup == Spec => [](~callbackStops => CleanupAfterWorker)
<1>1. ServiceInv => (~callbackStops => CleanupAfterWorker)
  BY DEF ServiceInv, Orderly
<1> QED BY ServiceSafe, <1>1, PTL

\* Neither Start nor Destroy ever meets a joinable thread.
THEOREM NoTerminate == Spec => [](~callbackStops => NeverTerminates)
<1>1. ServiceInv => (~callbackStops => NeverTerminates)
  BY DEF ServiceInv, Orderly
<1> QED BY ServiceSafe, <1>1, PTL

\* Once stopped and left alone, a context holds nothing of its session.
THEOREM StoppedHoldsNothing == Spec => [](~callbackStops => StoppedIsClean)
<1>1. ServiceInv => (~callbackStops => StoppedIsClean)
  BY DEF ServiceInv, Orderly, StoppedOrCleaning, StoppedIsClean
<1> QED BY ServiceSafe, <1>1, PTL

\* A frame event is delivered only between ATTACHED and DETACHED: while the
\* session is down the context is clean or being started.
THEOREM FramesInSession == Spec => [](~callbackStops => FramesWithinSession)
<1>1. ServiceInv => (~callbackStops => FramesWithinSession)
  <2> SUFFICES ASSUME Orderly, cbAt = "event" PROVE session = "up"
    BY DEF FramesWithinSession, ServiceInv
  <2>1. CASE running
    BY <2>1 DEF Orderly, StartingHolds, RunningIsUp
  <2>2. CASE ~running
    BY <2>2 DEF Orderly, CleaningHolds, StoppedOrCleaning, Clean
  <2> QED BY <2>1, <2>2
<1> QED BY ServiceSafe, <1>1, PTL

\* The plain counter ctx->seq has one writer at a time: Start emits before the
\* worker exists, Stop after it is joined.
THEOREM OneEmitter == Spec => [](~callbackStops => SingleEmitter)
<1>1. TypeOK /\ ServiceInv => (~callbackStops => SingleEmitter)
  <2> SUFFICES ASSUME TypeOK, Orderly, NEW s \in Emitters, NEW t \in Emitters
               PROVE  s = t
    BY DEF SingleEmitter, ServiceInv
  <2>1. CASE cbAt = "event"
    BY <2>1 DEF Emitters, Orderly, StartingHolds, CleanupAfterWorker
  <2>2. CASE cbAt # "event"
    <3>1. /\ s \in Callers /\ pc[s] \in {"attach", "attached", "detach"}
          /\ t \in Callers /\ pc[t] \in {"attach", "attached", "detach"}
      BY <2>2 DEF Emitters
    <3>2. CASE pc[s] = "detach" /\ pc[t] = "detach"
      BY <3>1, <3>2 DEF Orderly, SoleCleaner
    <3>3. CASE pc[s] # "detach" \/ pc[t] # "detach"
      BY <3>1, <3>3 DEF Orderly, SoloIsAlone, Solo, Alone
    <3> QED BY <3>2, <3>3
  <2> QED BY <2>1, <2>2
<1> QED BY ServiceSafe, TypeCorrect, <1>1, PTL

\* ATTACHED is emitted only when the last session was closed, DETACHED only
\* when one is open.
THEOREM Alternates == Spec => LifecycleAlternates
<1>1. ServiceInv => Alternation
  BY DEF ServiceInv, Orderly, StartingHolds, CleaningHolds, StartAttach, StopDetach,
         Alternation
<1> QED BY ServiceSafe, <1>1, PTL DEF LifecycleAlternates
=============================================================================
