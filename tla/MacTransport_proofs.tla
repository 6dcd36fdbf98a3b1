------------------------ MODULE MacTransport_proofs -------------------------
(***************************************************************************)
(* What the macOS transport holds and says of its device, for any number   *)
(* of starts, of glasses plugged in and of events.                         *)
(***************************************************************************)
EXTENDS MacTransport, SequenceTheorems, TLAPS

USE DEF vars, flags, hid, usb, events
USE MacAssumption

----------------------------------------------------------------------------
(* Type correctness *)

\* The actions of Next, one disjunct each.
LEMMA Steps ==
    ASSUME [Next]_vars
    PROVE  \/ StartCall \/ StartSpawn \/ StartReady \/ StartTimesOut \/ StartUndo
           \/ StartUndoJoin \/ StartAttach \/ StartReturns
           \/ (\E destroy \in BOOLEAN : StopCall(destroy))
           \/ StopJoin \/ StopClean \/ StopReturns
           \/ CreateManager \/ OpenManager \/ WaitCheck \/ WaitTurnEnds \/ GiveUp
           \/ OpenDevice \/ SignalOnline \/ LoopCheck \/ LoopTurnEnds \/ WorkerPushes
           \/ (\E g \in Glasses : Matching(g) \/ Removal(g))
           \/ Report \/ Plug \/ Unplug \/ UNCHANGED vars
BY DEF Next, CallStep, WorkerStep, Finished

\* A number taken or an event queued keeps the types of the numbers.
LEMMA NumbersTyped ==
    ASSUME EventsOK, NEW t \in Emitters, Number(t) \/ Push(t)
    PROVE  EventsOK'
BY DEF EventsOK, Number, Push, Emitters

\* What IOKit tells the worker, and what it has left to tell, are notices.
LEMMA NoticesTyped ==
    ASSUME UsbOK
    PROVE  /\ \A g \in Glasses, kind \in {"match", "remove"} :
                Announced(kind, g) \in Seq({"match", "remove"} \X Glasses)
           /\ notices # <<>> => Tail(notices) \in Seq({"match", "remove"} \X Glasses)
           /\ \A g \in Glasses : << <<"match", g>> >> \in Seq({"match", "remove"} \X Glasses)
           /\ <<>> \in Seq({"match", "remove"} \X Glasses)
<1> DEFINE Notice == {"match", "remove"} \X Glasses
<1>1. ASSUME NEW g \in Glasses, NEW kind \in {"match", "remove"}
      PROVE  Announced(kind, g) \in Seq(Notice)
  <2>1. <<kind, g>> \in Notice /\ notices \in Seq(Notice)
    BY DEF UsbOK
  <2> HIDE DEF Notice
  <2> QED BY <2>1, AppendProperties DEF Announced
<1>2. notices # <<>> => Tail(notices) \in Seq(Notice)
  BY HeadTailProperties DEF UsbOK
<1>3. ASSUME NEW g \in Glasses PROVE << <<"match", g>> >> \in Seq(Notice)
  OBVIOUS
<1>4. <<>> \in Seq(Notice)
  OBVIOUS
<1> QED BY <1>1, <1>2, <1>3, <1>4

\* Every field keeps its type.
THEOREM TypeCorrect == Spec => []TypeOK
<1> USE DEF StartCall, StartSpawn, StartReady, StartTimesOut, StartUndo,
            StartUndoJoin, StartAttach, StartReturns, StopCall, StopJoin, StopClean,
            StopReturns, CreateManager, OpenManager, WaitCheck, WaitTurnEnds,
            GiveUp, OpenDevice, SignalOnline, LoopCheck, LoopTurnEnds, Signal,
            Close, Matching, Removal, Told, Report, WorkerPushes, Plug, Unplug
<1>1. Init => TypeOK
  <2>1. Init => running \in BOOLEAN /\ stopIssued \in BOOLEAN /\ stopWorker \in BOOLEAN
                  /\ closing \in BOOLEAN /\ manager \in BOOLEAN /\ listening \in BOOLEAN
                  /\ online \in BOOLEAN
    BY Zenon DEF Init
  <2>2. Init => AppOK /\ WorkerOK
    BY <2>1 DEF Init, AppOK, WorkerOK
  <2>3. Init => HidOK /\ EventsOK
    BY <2>1 DEF Init, HidOK, EventsOK, Glasses
  <2>4. Init => UsbOK
    BY DEF Init, UsbOK, Glasses
  <2> QED BY <2>2, <2>3, <2>4 DEF TypeOK
<1>2. TypeOK /\ [Next]_vars => TypeOK'
  <2> SUFFICES ASSUME TypeOK, [Next]_vars PROVE TypeOK'
    OBVIOUS
  <2>1. AppOK'
    <3>1. CASE StartCall
      <4>1. running' \in BOOLEAN /\ stopIssued' \in BOOLEAN /\ stopWorker' \in BOOLEAN
        BY <3>1, Zenon
      <4> QED BY <3>1, <4>1 DEF TypeOK, AppOK
    <3>2. ASSUME NEW destroy \in BOOLEAN, StopCall(destroy) PROVE AppOK'
      <4>1. running' \in BOOLEAN /\ stopIssued' \in BOOLEAN
        BY <3>2, Zenon DEF TypeOK, AppOK
      <4>2. stopWorker' \in BOOLEAN /\ pc' \in {"stopJoin", "deleted", "out"}
        BY <3>2 DEF TypeOK, AppOK
      <4> QED BY <3>2, <4>1, <4>2 DEF TypeOK, AppOK
    <3>3. CASE StartUndoJoin \/ StartUndo
      <4>1. running' \in BOOLEAN /\ stopWorker' \in BOOLEAN
        BY <3>3, Zenon DEF TypeOK, AppOK
      <4> QED BY <3>3, <4>1 DEF TypeOK, AppOK
    <3>4. CASE UNCHANGED <<flags, closing, starts>>
      <4>1. pc' \in {"out", "spawn", "ready", "undo", "undoJoin", "attach", "attached",
                     "stopJoin", "stopClean", "detached", "deleted"}
        BY <3>4, Steps DEF TypeOK, AppOK
      <4> QED BY <3>4, <4>1 DEF TypeOK, AppOK
    <3> QED BY <3>1, <3>2, <3>3, <3>4, Steps
  <2>2. WorkerOK'
    BY Steps DEF TypeOK, WorkerOK
  <2>3. HidOK'
    <3>1. held' \in Glasses
      <4>1. held \in Glasses /\ plugged \in Glasses /\ 0 \in Glasses
        BY DEF TypeOK, HidOK, UsbOK, Glasses
      <4>2. held' \in {0, held, plugged} \union Glasses
        BY Steps
      <4> QED BY <4>1, <4>2
    <3>2. CASE CreateManager \/ StopClean \/ GiveUp \/ LoopCheck \/ StartSpawn \/ OpenDevice
      <4>1. manager' \in BOOLEAN /\ listening' \in BOOLEAN /\ online' \in BOOLEAN
        BY <3>2, Zenon DEF TypeOK, HidOK
      <4> QED BY <3>1, <4>1 DEF HidOK
    <3>3. ASSUME NEW g \in Glasses, Removal(g) PROVE HidOK'
      <4>1. manager' \in BOOLEAN /\ listening' \in BOOLEAN /\ online' \in BOOLEAN
        BY <3>3, Zenon DEF TypeOK, HidOK
      <4> QED BY <3>1, <4>1 DEF HidOK
    <3>4. CASE UNCHANGED <<manager, listening, online>>
      BY <3>1, <3>4 DEF TypeOK, HidOK
    <3> QED BY <3>2, <3>3, <3>4, Steps
  <2>4. UsbOK'
    <3>1. /\ notices \in Seq({"match", "remove"} \X Glasses)
          /\ plugged \in Glasses /\ plugs \in Glasses /\ 0 \in Glasses
      BY DEF TypeOK, UsbOK, Glasses
    <3>2. plugs < MaxPlugs => plugs + 1 \in Glasses
      BY <3>1 DEF Glasses
    <3> QED BY <3>1, <3>2, Steps, NoticesTyped DEF TypeOK, UsbOK
  <2>5. EventsOK'
    BY Steps, NumbersTyped DEF TypeOK, EventsOK, Emitters
  <2> QED BY <2>1, <2>2, <2>3, <2>4, <2>5 DEF TypeOK
<1> QED BY <1>1, <1>2, PTL DEF Spec

----------------------------------------------------------------------------
(* The session *)

\* Where the application's thread has a worker to wait for or to join, and where
\* the worker holds a manager.
InStart == {"ready", "undo", "undoJoin", "attach", "attached"}
Managing == {"open", "wait", "waitTurn", "device", "signal", "loop", "loopTurn", "giveUp"}

\* A worker exists exactly in a session, between StartSpawn and a join, and only
\* the claiming Stop is past it with running taken.
SessionInv ==
    /\ pc \in InStart \union {"spawn"} => running
    /\ pc \in {"stopJoin", "stopClean", "detached", "deleted"} => ~running
    /\ running => ~stopIssued
    /\ pc \in InStart \union {"stopJoin"} => worker # "none"
    /\ pc = "out" => (running <=> worker # "none")
    /\ pc \in {"spawn", "stopClean", "detached", "deleted"} => worker = "none"
    /\ worker \notin Managing => ~manager /\ held = 0 /\ ~listening /\ ~online
    /\ worker = "open" => held = 0

\* A worker that has reported success has opened a device and goes on with its
\* loop until it is told to stop, which nobody does before Start has returned.
ReportInv ==
    /\ pc \in {"spawn", "ready", "attach", "attached"} => ~stopWorker
    /\ pc = "out" /\ running => ~stopWorker
    /\ worker \in {"loop", "loopTurn"} => ready # "no"
    /\ ready = "ok" /\ worker # "none" => worker \in {"loop", "loopTurn"} \/ stopWorker
    /\ worker \in {"create", "open", "wait", "waitTurn", "device", "signal", "giveUp"} =>
         ready = "no"
    /\ pc \in {"attach", "attached"} => ready = "ok"

\* The device the context is online with is the one it opened.
OnlineInv ==
    /\ worker \in {"device", "signal"} => held # 0
    /\ listening => held # 0
    /\ online => listening

\* What every step keeps.
LEMMA SessionStep ==
    ASSUME TypeOK, SessionInv, [Next]_vars
    PROVE  SessionInv'
<1> USE DEF TypeOK, AppOK, WorkerOK, HidOK, UsbOK, SessionInv, InStart, Managing
<1>1. CASE StartCall \/ StartSpawn \/ StartReady \/ StartTimesOut \/ StartUndo
  BY <1>1 DEF StartCall, StartSpawn, StartReady, StartTimesOut, StartUndo
<1>2. CASE StartUndoJoin \/ StartAttach \/ StartReturns
  BY <1>2 DEF StartUndoJoin, StartAttach, StartReturns
<1>3. ASSUME NEW destroy \in BOOLEAN, StopCall(destroy) PROVE SessionInv'
  BY <1>3 DEF StopCall
<1>4. CASE StopJoin \/ StopClean \/ StopReturns
  BY <1>4 DEF StopJoin, StopClean, StopReturns
<1>5. CASE CreateManager \/ OpenManager \/ WaitCheck \/ WaitTurnEnds
  BY <1>5 DEF CreateManager, OpenManager, WaitCheck, WaitTurnEnds
<1>6. CASE GiveUp \/ OpenDevice \/ SignalOnline \/ LoopCheck \/ LoopTurnEnds
  BY <1>6 DEF GiveUp, OpenDevice, SignalOnline, LoopCheck, LoopTurnEnds, Close
<1>7. ASSUME NEW g \in Glasses, Matching(g) \/ Removal(g) PROVE SessionInv'
  BY <1>7 DEF Matching, Removal, Told, InTurn
<1>8. CASE WorkerPushes \/ Report \/ Plug \/ Unplug \/ UNCHANGED vars
  BY <1>8 DEF WorkerPushes, Report, Plug, Unplug
<1> QED BY <1>1, <1>2, <1>3, <1>4, <1>5, <1>6, <1>7, <1>8, Steps

LEMMA ReportStep ==
    ASSUME TypeOK, SessionInv, ReportInv, [Next]_vars
    PROVE  ReportInv'
<1> USE DEF TypeOK, AppOK, WorkerOK, SessionInv, ReportInv, InStart, Managing
<1>1. CASE StartCall \/ StartSpawn \/ StartReady \/ StartTimesOut \/ StartUndo
  BY <1>1 DEF StartCall, StartSpawn, StartReady, StartTimesOut, StartUndo
<1>2. CASE StartUndoJoin \/ StartAttach \/ StartReturns
  BY <1>2 DEF StartUndoJoin, StartAttach, StartReturns
<1>3. ASSUME NEW destroy \in BOOLEAN, StopCall(destroy) PROVE ReportInv'
  BY <1>3 DEF StopCall
<1>4. CASE StopJoin \/ StopClean \/ StopReturns
  BY <1>4 DEF StopJoin, StopClean, StopReturns
<1>5. CASE CreateManager \/ OpenManager \/ WaitCheck \/ WaitTurnEnds
  BY <1>5 DEF CreateManager, OpenManager, WaitCheck, WaitTurnEnds, Signal
<1>6. CASE GiveUp \/ OpenDevice \/ SignalOnline \/ LoopCheck \/ LoopTurnEnds
  BY <1>6 DEF GiveUp, OpenDevice, SignalOnline, LoopCheck, LoopTurnEnds, Signal
<1>7. ASSUME NEW g \in Glasses, Matching(g) \/ Removal(g) PROVE ReportInv'
  BY <1>7 DEF Matching, Removal, Told
<1>8. CASE WorkerPushes \/ Report \/ Plug \/ Unplug \/ UNCHANGED vars
  BY <1>8 DEF WorkerPushes, Report, Plug, Unplug
<1> QED BY <1>1, <1>2, <1>3, <1>4, <1>5, <1>6, <1>7, <1>8, Steps

LEMMA OnlineStep ==
    ASSUME TypeOK, SessionInv, OnlineInv, [Next]_vars
    PROVE  OnlineInv'
<1> USE DEF TypeOK, WorkerOK, HidOK, UsbOK, OnlineInv
<1>1. CASE UNCHANGED <<worker, held, listening, online>>
  BY <1>1
<1>2. CASE StartSpawn \/ StopClean
  <2>1. ~online' /\ worker' \notin {"device", "signal"} /\ (listening' => held' # 0)
    BY <1>2 DEF StartSpawn, StopClean, SessionInv
  <2> QED BY <2>1
<1>7. CASE StartUndoJoin \/ StopJoin
  BY <1>7 DEF StartUndoJoin, StopJoin
<1>3. CASE CreateManager \/ OpenManager \/ WaitCheck \/ WaitTurnEnds
  BY <1>3 DEF CreateManager, OpenManager, WaitCheck, WaitTurnEnds
<1>4. CASE GiveUp \/ OpenDevice \/ SignalOnline \/ LoopCheck \/ LoopTurnEnds
  BY <1>4 DEF GiveUp, OpenDevice, SignalOnline, LoopCheck, LoopTurnEnds, Close
<1>5. ASSUME NEW g \in Glasses, Matching(g) \/ Removal(g) PROVE OnlineInv'
  BY <1>5 DEF Matching, Removal, Told, InTurn
<1>6. StartCall \/ StartReady \/ StartTimesOut \/ StartUndo \/ StartAttach \/ StartReturns
        \/ (\E destroy \in BOOLEAN : StopCall(destroy)) \/ StopReturns
        \/ WorkerPushes \/ Report \/ Plug \/ Unplug \/ UNCHANGED vars =>
        UNCHANGED <<worker, held, listening, online>>
  BY DEF StartCall, StartReady, StartTimesOut, StartUndo, StartAttach, StartReturns,
         StopCall, StopReturns, WorkerPushes, Report, Plug, Unplug
<1> QED BY <1>1, <1>2, <1>3, <1>4, <1>5, <1>6, <1>7, Steps

\* All three hold throughout.
THEOREM SessionSafe == Spec => [](SessionInv /\ ReportInv /\ OnlineInv)
<1>1. Init => SessionInv /\ ReportInv /\ OnlineInv
  BY DEF Init, SessionInv, ReportInv, OnlineInv, InStart, Managing
<1>2. TypeOK /\ SessionInv /\ ReportInv /\ OnlineInv /\ [Next]_vars =>
        SessionInv' /\ ReportInv' /\ OnlineInv'
  BY SessionStep, ReportStep, OnlineStep
<1> QED BY <1>1, <1>2, TypeCorrect, PTL DEF Spec

\* Between calls a context that does not run holds no thread, no manager and no
\* device, wherever Start failed or gave up.
THEOREM NothingHeld == Spec => []StoppedHoldsNothing
<1>1. SessionInv => StoppedHoldsNothing
  BY DEF SessionInv, StoppedHoldsNothing, Managing
<1> QED BY SessionSafe, <1>1, PTL

\* ATTACHED and macDeviceOnline are about a device this session has opened.
THEOREM AttachedIsOpened == Spec => []DeviceIsOpened
<1>1. SessionInv /\ ReportInv /\ OnlineInv => DeviceIsOpened
  BY DEF SessionInv, ReportInv, OnlineInv, DeviceIsOpened, InStart
<1> QED BY SessionSafe, <1>1, PTL
=============================================================================
