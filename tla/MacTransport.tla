---------------------------- MODULE MacTransport ----------------------------
(***************************************************************************)
(* The macOS half of the SDK (the __APPLE__ parts of RayneoApi.cpp): a     *)
(* worker thread that opens the glasses through an IOHIDManager and runs   *)
(* its run loop, and Rayneo_Start, Rayneo_Stop and Rayneo_Destroy on an    *)
(* application thread, which waits for the worker's first report and joins *)
(* it later.  Nobody has set an event callback: events go to the queue.    *)
(*                                                                         *)
(* IOKit calls the matching and removal callbacks on the worker, inside    *)
(* its run loop, one by one.  Rayneo_SendRaw changes nothing here.         *)
(***************************************************************************)
EXTENDS Naturals, Sequences

CONSTANTS
    MaxStarts,  \* bound on the calls of Rayneo_Start
    MaxPlugs,   \* bound on how often glasses are plugged in
    MaxEvents   \* bound on the event numbers

ASSUME MacAssumption ==
    MaxStarts \in Nat \ {0} /\ MaxPlugs \in Nat /\ MaxEvents \in Nat

\* The two threads that emit events.
Emitters == {"app", "worker"}

\* Plugged glasses are told apart by a number; 0 is none.
Glasses == 0 .. MaxPlugs

VARIABLES
    running, stopIssued, stopWorker,   \* the flags of the context
    pc,         \* where the application thread is, "out" between calls
    closing,    \* the Stop is Destroy's
    worker,     \* ctx->worker: "none" when not joinable, else its position
    ready,      \* macReady with macReadyStatus: "no", "ok" or "failed"
    manager,    \* hidManager is set, and scheduled on the run loop
    held,       \* hidDevice
    listening,  \* hidInputBuffer is registered with the opened hidDevice
    online,     \* macDeviceOnline
    plugged,    \* the glasses that are plugged in now
    plugs,      \* how often glasses were plugged in
    notices,    \* callbacks IOKit still has to make: <<"match" or "remove", glasses>>
    seq,        \* ctx->seq
    stamp,      \* the event each thread has numbered and not queued, or 0
    last,       \* history: number of the event queued last
    starts      \* calls of Rayneo_Start so far

flags == <<running, stopIssued, stopWorker>>
hid == <<manager, held, listening, online>>
usb == <<plugged, plugs, notices>>
events == <<seq, stamp, last>>
vars == <<flags, pc, closing, worker, ready, hid, usb, events, starts>>

AppOK ==
    /\ running \in BOOLEAN /\ stopIssued \in BOOLEAN /\ stopWorker \in BOOLEAN
    /\ pc \in {"out", "spawn", "ready", "undo", "undoJoin", "attach", "attached",
               "stopJoin", "stopClean", "detached", "deleted"}
    /\ closing \in BOOLEAN
    /\ starts \in 0 .. MaxStarts
WorkerOK ==
    /\ worker \in {"none", "create", "open", "wait", "waitTurn", "device",
                   "signal", "loop", "loopTurn", "giveUp", "exited"}
    /\ ready \in {"no", "ok", "failed"}
HidOK ==
    /\ manager \in BOOLEAN /\ listening \in BOOLEAN /\ online \in BOOLEAN
    /\ held \in Glasses
UsbOK ==
    /\ plugged \in Glasses /\ plugs \in Glasses
    /\ notices \in Seq({"match", "remove"} \X Glasses)
EventsOK ==
    /\ seq \in Nat /\ last \in Nat
    /\ stamp \in [Emitters -> Nat]

\* Every variable has its type.
TypeOK == AppOK /\ WorkerOK /\ HidOK /\ UsbOK /\ EventsOK

Init ==
    /\ running = FALSE /\ stopIssued = FALSE /\ stopWorker = FALSE
    /\ pc = "out" /\ closing = FALSE
    /\ worker = "none" /\ ready = "no"
    /\ manager = FALSE /\ held = 0 /\ listening = FALSE /\ online = FALSE
    /\ plugged = 0 /\ plugs = 0 /\ notices = <<>>
    /\ seq = 0 /\ last = 0 /\ starts = 0
    /\ stamp = [t \in Emitters |-> 0]

----------------------------------------------------------------------------
(* Emitting an event: ++ctx->seq, then enqueueEvent *)

\* The two halves of the plain increment are EventQueue's matter.
Number(t) ==
    /\ seq < MaxEvents
    /\ seq' = seq + 1
    /\ stamp' = [stamp EXCEPT ![t] = seq + 1]
    /\ last' = last

Push(t) ==
    /\ stamp[t] # 0
    /\ last' = stamp[t]
    /\ stamp' = [stamp EXCEPT ![t] = 0]
    /\ seq' = seq

----------------------------------------------------------------------------
(* Rayneo_Start *)

StartCall ==
    /\ pc = "out" /\ ~running /\ starts < MaxStarts
    /\ running' = TRUE /\ stopIssued' = FALSE /\ stopWorker' = FALSE
    /\ pc' = "spawn"
    /\ starts' = starts + 1
    /\ UNCHANGED <<closing, worker, ready, hid, usb, events>>

\* Mutant: the report of the last session is still there.
StartSpawnStale ==
    /\ pc = "spawn"
    /\ online' = FALSE
    /\ worker' = "create"
    /\ pc' = "ready"
    /\ UNCHANGED <<flags, closing, ready, manager, held, listening, usb, events,
                   starts>>

StartSpawn ==
    /\ pc = "spawn"
    /\ ready' = "no"
    /\ online' = FALSE
    /\ worker' = "create"
    /\ pc' = "ready"
    /\ UNCHANGED <<flags, closing, manager, held, listening, usb, events, starts>>

\* The worker has reported.
StartReady ==
    /\ pc = "ready" /\ ready # "no"
    /\ pc' = IF ready = "ok" THEN "attach" ELSE "undo"
    /\ UNCHANGED <<flags, closing, worker, ready, hid, usb, events, starts>>

\* Five seconds are over: the calls of IOKit take as long as they like.
StartTimesOut ==
    /\ pc = "ready" /\ ready = "no"
    /\ pc' = "undo"
    /\ UNCHANGED <<flags, closing, worker, ready, hid, usb, events, starts>>

\* Mutant: the worker of a failed Start is not told to stop.
StartUndoSilently ==
    /\ pc = "undo"
    /\ pc' = "undoJoin"
    /\ UNCHANGED <<flags, closing, worker, ready, hid, usb, events, starts>>

StartUndo ==
    /\ pc = "undo"
    /\ stopWorker' = TRUE
    /\ pc' = "undoJoin"
    /\ UNCHANGED <<running, stopIssued, closing, worker, ready, hid, usb, events,
                   starts>>

StartUndoJoin ==
    /\ pc = "undoJoin" /\ worker = "exited"
    /\ worker' = "none"
    /\ running' = FALSE
    /\ pc' = "out"
    /\ UNCHANGED <<stopIssued, stopWorker, closing, ready, hid, usb, events, starts>>

StartAttach ==
    /\ pc = "attach"
    /\ Number("app")
    /\ pc' = "attached"
    /\ UNCHANGED <<flags, closing, worker, ready, hid, usb, starts>>

StartReturns ==
    /\ pc = "attached"
    /\ Push("app")
    /\ pc' = "out"
    /\ UNCHANGED <<flags, closing, worker, ready, hid, usb, starts>>

----------------------------------------------------------------------------
(* Rayneo_Stop and Rayneo_Destroy *)

\* A Stop that finds stopIssued set, or nothing running, returns at once;
\* Destroy deletes the context when its own Stop has returned.
StopCall(destroy) ==
    /\ pc = "out"
    /\ closing' = destroy
    /\ stopIssued' = TRUE
    /\ running' = IF stopIssued THEN running ELSE FALSE
    /\ IF ~stopIssued /\ running
         THEN stopWorker' = TRUE /\ pc' = "stopJoin"
         ELSE stopWorker' = stopWorker /\ pc' = IF destroy THEN "deleted" ELSE "out"
    /\ UNCHANGED <<worker, ready, hid, usb, events, starts>>

StopJoin ==
    /\ pc = "stopJoin" /\ worker = "exited"
    /\ worker' = "none"
    /\ pc' = "stopClean"
    /\ UNCHANGED <<flags, closing, ready, hid, usb, events, starts>>

\* macReleaseDevice and macCleanupManager, which the worker has called already,
\* and the number of the DETACHED event.
StopClean ==
    /\ pc = "stopClean"
    /\ manager' = FALSE /\ held' = 0 /\ listening' = FALSE /\ online' = FALSE
    /\ notices' = <<>>
    /\ Number("app")
    /\ pc' = "detached"
    /\ UNCHANGED <<flags, closing, worker, ready, plugged, plugs, starts>>

StopReturns ==
    /\ pc = "detached"
    /\ Push("app")
    /\ pc' = IF closing THEN "deleted" ELSE "out"
    /\ UNCHANGED <<flags, closing, worker, ready, hid, usb, starts>>

----------------------------------------------------------------------------
(* macWorkerThread *)

\* signalOnce(status), and the way out: macReleaseDevice, macCleanupManager.
Signal(status) == ready' = IF ready = "no" THEN status ELSE ready
Close ==
    /\ manager' = FALSE /\ held' = 0 /\ listening' = FALSE /\ online' = FALSE
    /\ notices' = <<>>

\* IOHIDManagerCreate may fail.
CreateManager ==
    /\ worker = "create"
    /\ online' = FALSE
    /\ \/ worker' = "open" /\ manager' = TRUE /\ ready' = ready
       \/ worker' = "exited" /\ manager' = manager /\ Signal("failed")
    /\ UNCHANGED <<flags, pc, closing, held, listening, usb, events, starts>>

\* IOHIDManagerOpen; scheduling it on the run loop announces glasses that are
\* there already.
OpenManager ==
    /\ worker = "open"
    /\ worker' = "wait"
    /\ notices' = IF plugged = 0 THEN <<>> ELSE << <<"match", plugged>> >>
    /\ UNCHANGED <<flags, pc, closing, ready, hid, plugged, plugs, events, starts>>

\* waitForDevice, twice two seconds: at most as long as nobody stops the worker
\* and there are no glasses.
WaitCheck ==
    /\ worker = "wait"
    /\ worker' = IF held # 0 THEN "device" ELSE IF stopWorker THEN "giveUp"
                 ELSE "waitTurn"
    /\ UNCHANGED <<flags, pc, closing, ready, hid, usb, events, starts>>

\* One turn of the run loop is over; macEnsureDeviceSelected looks for glasses
\* that no callback has told of.
WaitTurnEnds ==
    /\ worker = "waitTurn" /\ stamp["worker"] = 0
    /\ held' = IF held = 0 THEN plugged ELSE held
    /\ worker' \in IF held' = 0 THEN {"wait", "giveUp"} ELSE {"wait"}
    /\ UNCHANGED <<flags, pc, closing, ready, manager, listening, online, usb,
                   events, starts>>

\* Mutant: a failed worker leaves the manager open.
GiveUpUnclosed ==
    /\ worker \in {"open", "giveUp", "device"}
    /\ Signal("failed")
    /\ worker' = "exited"
    /\ UNCHANGED <<flags, pc, closing, hid, usb, events, starts>>

\* The manager does not open, no glasses were found, or they do not open, not
\* even seized: report, release, exit.
GiveUp ==
    /\ worker \in {"open", "giveUp", "device"}
    /\ Signal("failed")
    /\ Close
    /\ worker' = "exited"
    /\ UNCHANGED <<flags, pc, closing, plugged, plugs, events, starts>>

\* Glasses that are gone do not open.  The input report callback is registered
\* and the device is online before Start is told.
OpenDevice ==
    /\ worker = "device" /\ held = plugged
    /\ listening' = TRUE /\ online' = TRUE
    /\ worker' = "signal"
    /\ UNCHANGED <<flags, pc, closing, ready, manager, held, usb, events, starts>>

SignalOnline ==
    /\ worker = "signal"
    /\ Signal("ok")
    /\ worker' = "loop"
    /\ UNCHANGED <<flags, pc, closing, hid, usb, events, starts>>

LoopCheck ==
    /\ worker = "loop"
    /\ IF stopWorker
         THEN worker' = "exited" /\ Close
         ELSE worker' = "loopTurn" /\ UNCHANGED <<hid, notices>>
    /\ UNCHANGED <<flags, pc, closing, ready, plugged, plugs, events, starts>>

\* Mutant: a loop that goes on in no state it knows.
LoopTurnEndsOddly ==
    /\ worker = "loopTurn" /\ stamp["worker"] = 0
    /\ worker' = "idle"
    /\ UNCHANGED <<flags, pc, closing, ready, hid, usb, events, starts>>

LoopTurnEnds ==
    /\ worker = "loopTurn" /\ stamp["worker"] = 0
    /\ worker' = "loop"
    /\ UNCHANGED <<flags, pc, closing, ready, hid, usb, events, starts>>

----------------------------------------------------------------------------
(* Callbacks in a turn of the run loop *)

InTurn == worker \in {"waitTurn", "loopTurn"} /\ stamp["worker"] = 0

Told(kind, g) ==
    /\ InTurn /\ notices # <<>> /\ Head(notices) = <<kind, g>>
    /\ notices' = Tail(notices)
    /\ UNCHANGED <<flags, pc, closing, worker, ready, manager, plugged, plugs, starts>>

\* macDeviceMatchingCallback only remembers the glasses: those that come back
\* after a removal are neither opened nor listened to.
Matching(g) ==
    /\ Told("match", g)
    /\ held' = IF held = 0 THEN g ELSE held
    /\ UNCHANGED <<listening, online, events>>

\* macDeviceRemovalCallback: DETACHED only if the removed glasses were held,
\* listened to or not, and nobody is stopping.
Removal(g) ==
    /\ Told("remove", g)
    /\ IF held = g
         THEN /\ held' = 0 /\ listening' = FALSE /\ online' = FALSE
              /\ IF stopWorker THEN UNCHANGED events ELSE Number("worker")
         ELSE UNCHANGED <<held, listening, online, events>>

\* macInputReportCallback: a frame, and its event.
Report ==
    /\ InTurn /\ listening /\ held = plugged
    /\ Number("worker")
    /\ UNCHANGED <<flags, pc, closing, worker, ready, hid, usb, starts>>

WorkerPushes ==
    /\ Push("worker")
    /\ UNCHANGED <<flags, pc, closing, worker, ready, hid, usb, starts>>

----------------------------------------------------------------------------
(* The glasses *)

\* What IOKit will tell a manager that is scheduled on a run loop.
Announced(kind, g) ==
    IF manager /\ worker # "open" THEN Append(notices, <<kind, g>>) ELSE notices

Plug ==
    /\ pc # "deleted" /\ plugged = 0 /\ plugs < MaxPlugs
    /\ plugs' = plugs + 1
    /\ plugged' = plugs + 1
    /\ notices' = Announced("match", plugs + 1)
    /\ UNCHANGED <<flags, pc, closing, worker, ready, hid, events, starts>>

Unplug ==
    /\ pc # "deleted" /\ plugged # 0
    /\ plugged' = 0
    /\ notices' = Announced("remove", plugged)
    /\ UNCHANGED <<flags, pc, closing, worker, ready, hid, plugs, events, starts>>

----------------------------------------------------------------------------
\* The application inside a call.
CallStep ==
    \/ StartSpawn \/ StartReady \/ StartTimesOut \/ StartUndo \/ StartUndoJoin
    \/ StartAttach \/ StartReturns
    \/ StopJoin \/ StopClean \/ StopReturns

WorkerStep ==
    \/ CreateManager \/ OpenManager \/ WaitCheck \/ WaitTurnEnds \/ GiveUp
    \/ OpenDevice \/ SignalOnline \/ LoopCheck \/ LoopTurnEnds \/ WorkerPushes

\* A deleted context, or one at the bound on events.
Finished ==
    /\ pc = "deleted" \/ (pc \in {"attach", "stopClean"} /\ seq = MaxEvents)
    /\ UNCHANGED vars

Next ==
    \/ StartCall
    \/ \E destroy \in BOOLEAN : StopCall(destroy)
    \/ CallStep
    \/ WorkerStep
    \/ \E g \in Glasses : Matching(g) \/ Removal(g)
    \/ Report
    \/ Plug \/ Unplug
    \/ Finished

Spec == Init /\ [][Next]_vars

\* Both threads run; the run loop's turn ends after 50 ms, and Start's wait with
\* the worker's report or after five seconds.  Glasses need not be plugged in or
\* report, and the application need not call.
FairSpec == Spec /\ WF_vars(CallStep) /\ WF_vars(WorkerStep)

----------------------------------------------------------------------------
\* Between calls a context that does not run holds nothing: wherever Start failed
\* or gave up, and whatever the worker had selected or opened by then, there is no
\* thread to join, no manager, no device.
StoppedHoldsNothing ==
    pc \in {"out", "deleted"} /\ ~running =>
        worker = "none" /\ ~manager /\ held = 0 /\ ~listening /\ ~online

\* What the context says of its device is so.  Start takes the way to ATTACHED
\* only with a worker that has opened a device in this session, not on the
\* strength of an older report; and macDeviceOnline, by which Rayneo_SendRaw goes,
\* is set only while the device the context holds is the one it opened and
\* listens to, not one that came later.
DeviceIsOpened ==
    /\ pc \in {"attach", "attached"} => worker \in {"loop", "loopTurn"}
    /\ online => listening /\ held # 0

\* Start, Stop and Destroy return, whatever IOKit answers and whether or not
\* there are glasses; the bound on events is no answer.
CallsReturn ==
    pc \notin {"out", "deleted"} ~> (pc \in {"out", "deleted"} \/ seq = MaxEvents)

\* "monotonically increasing sequence number" (RAYNEO_Event::seq): events are
\* queued in the order of their numbers.
NumbersIncrease == [][last' # last => last' > last]_vars
=============================================================================
