--------------------------- MODULE RayneoService ---------------------------
(***************************************************************************)
(* The life cycle of one RayneoContext__ on the libusb transport           *)
(* (src/src/RayneoApi.cpp): Rayneo_Start, Rayneo_Stop, Rayneo_SendRaw and  *)
(* Rayneo_Destroy called by application threads, the worker thread that    *)
(* Rayneo_Start spawns, and the one interrupt IN transfer the two share.   *)
(*                                                                         *)
(* Every atomic flag, pointer and thread object of the context that decides *)
(* a branch is a variable; each step of a call that another thread can see *)
(* is an action.  Events are delivered through the event callback, on the  *)
(* thread that emits them, with no lock held (enqueueEvent, cb # null);    *)
(* what the callback does is the application's, and callbackStops says     *)
(* whether this application's callback ever calls Rayneo_Stop.             *)
(*                                                                         *)
(* What clients owe the API: a thread calls Start, SendRaw or Destroy only *)
(* while no other application thread is inside the API, and nothing else   *)
(* starts until that call returns.  Stop may overlap Stop.                 *)
(*                                                                         *)
(* A call that returns without changing any of this state (Start while     *)
(* running, SendRaw while stopped, a null argument) is a stuttering step.  *)
(***************************************************************************)
EXTENDS Naturals

CONSTANTS
    Callers,          \* application threads that call the API
    Worker,           \* the identity of RayneoContext__::worker
    MaxStarts         \* bound: how many times Rayneo_Start gets past its CAS

ASSUME ServiceAssumption ==
    /\ Worker \notin Callers
    /\ MaxStarts \in Nat

VARIABLES
    running,      \* RayneoContext__::running
    stopIssued,   \* RayneoContext__::stopIssued
    stopWorker,   \* RayneoContext__::stopWorker
    usbCtx,       \* is RayneoContext__::usbCtx non-null?
    handle,       \* is RayneoContext__::handle non-null?
    inTransfer,   \* is RayneoContext__::inTransfer non-null?
    iface,        \* interfaceNumber and epIn: "unset", "in" or "noIn"
    worker,       \* the std::thread: "none" when not joinable
    urb,          \* the IN transfer inside libusb and the kernel
    cbAt,         \* where the running transferCallback is, or "none"
    cbOn,         \* the thread transferCallback runs (or last ran) on
    pc,           \* where each application thread is inside the API
    ret,          \* what a caller's Rayneo_Stop returns to
    plugged,      \* is the device on the bus?
    session,      \* "up" between an ATTACHED and the next DETACHED event
    proc,         \* the process: "up", "destroyed", "terminated", "crashed"
    starts,       \* number of Starts that got past the CAS
    callbackStops \* may the event callback call Rayneo_Stop? Never changes

flags == <<running, stopIssued, stopWorker>>
usb == <<usbCtx, handle, inTransfer, iface>>
transfer == <<urb, cbAt, cbOn>>
threads == <<pc, ret>>
env == <<plugged, session, proc, starts, callbackStops>>
vars == <<flags, usb, worker, transfer, threads, env>>

Threads == Callers \union {Worker}

\* The program points of each call, in order.  "attached" is the ATTACHED
\* event callback running inside Start.
StartPoints == {"reset", "init", "open", "attach", "attached", "launch", "spawn"}
StopPoints == {"gate", "claim", "signal", "cancel", "join", "cleanup", "detach"}
CleanerPoints == {"signal", "cancel", "join", "cleanup", "detach"}
Points == {"out", "sending", "delete"} \union StartPoints \union StopPoints

FlagsOK ==
    /\ running \in BOOLEAN
    /\ stopIssued \in BOOLEAN
    /\ stopWorker \in BOOLEAN

UsbOK ==
    /\ usbCtx \in BOOLEAN
    /\ handle \in BOOLEAN
    /\ inTransfer \in BOOLEAN
    /\ iface \in {"unset", "in", "noIn"}

TransferOK ==
    /\ urb \in {"idle", "flight", "frame", "error"}
    /\ cbAt \in {"none", "event", "tail", "submit"}
    /\ cbOn \in Threads

ThreadsOK ==
    /\ worker \in {"none", "check", "wait", "exited"}
    /\ pc \in [Callers -> Points]
    /\ ret \in [Callers -> {"app", "start", "send", "destroy"}]

EnvOK ==
    /\ plugged \in BOOLEAN
    /\ session \in {"down", "up"}
    /\ proc \in {"up", "destroyed", "terminated", "crashed"}
    /\ starts \in Nat
    /\ callbackStops \in BOOLEAN

\* Every field of the context, every program point and the history have their
\* types.
TypeOK == FlagsOK /\ UsbOK /\ TransferOK /\ ThreadsOK /\ EnvOK

\* A freshly created context (Rayneo_Create).
Init ==
    /\ running = FALSE /\ stopIssued = FALSE /\ stopWorker = FALSE
    /\ usbCtx = FALSE /\ handle = FALSE /\ inTransfer = FALSE
    /\ iface = "unset"
    /\ worker = "none"
    /\ urb = "idle" /\ cbAt = "none" /\ cbOn = Worker
    /\ pc = [c \in Callers |-> "out"]
    /\ ret = [c \in Callers |-> "app"]
    /\ plugged \in BOOLEAN
    /\ session = "down"
    /\ proc = "up"
    /\ starts = 0
    /\ callbackStops \in BOOLEAN

----------------------------------------------------------------------------
Up == proc = "up"

\* Guards: a caller, the worker or the callback is at this point of a live
\* process.
At(c, point) == Up /\ pc[c] = point
WorkerAt(point) == Up /\ worker = point
CallbackAt(point) == Up /\ cbAt = point

Goto(c, point) == pc' = [pc EXCEPT ![c] = point]

\* Where a caller continues when its Rayneo_Stop returns.
Resume == [app |-> "out", start |-> "launch", send |-> "sending",
           destroy |-> "delete"]
Return(c) == Goto(c, Resume[ret[c]])

Alone(c) == \A d \in Callers \ {c} : pc[d] = "out"

\* The other callers are outside the API or in a Stop the application called.
OnlyStops == \A d \in Callers : \/ pc[d] = "out"
                                \/ pc[d] \in StopPoints /\ ret[d] = "app"

\* Thread t is inside libusb's event handling: the worker in its loop, a
\* caller in the synchronous transfer of SendRaw.
HandlingEvents(t) ==
    IF t = Worker THEN worker = "wait" ELSE pc[t] = "sending"

\* transferCallback runs on thread t.
InCallback(t) == cbAt # "none" /\ cbOn = t

\* A thread still uses the transfer, the handle or the libusb context.
UsbInUse == urb # "idle" \/ cbAt # "none" \/ worker \in {"check", "wait"}

\* libusb_submit_transfer: may fail, and does when the device is gone.
Submitted == IF plugged THEN {"flight", "idle"} ELSE {"idle"}

----------------------------------------------------------------------------
(* Rayneo_Start *)

StartCall(c) ==
    /\ At(c, "out") /\ Alone(c) /\ starts < MaxStarts
    /\ ~running
    /\ running' = TRUE
    /\ starts' = starts + 1
    /\ Goto(c, "reset")
    /\ UNCHANGED <<stopIssued, stopWorker, usb, worker, transfer, ret,
                   plugged, session, proc, callbackStops>>

\* Mutant: a restart that keeps the last session's stopIssued.
StartResetKeepsIssued(c) ==
    /\ At(c, "reset")
    /\ stopWorker' = FALSE
    /\ Goto(c, "init")
    /\ UNCHANGED <<running, stopIssued, usb, worker, transfer, ret, env>>

StartReset(c) ==
    /\ At(c, "reset")
    /\ stopIssued' = FALSE
    /\ stopWorker' = FALSE
    /\ Goto(c, "init")
    /\ UNCHANGED <<running, usb, worker, transfer, ret, env>>

\* Every failing exit of Start only takes the running flag back.
StartFails(c) ==
    /\ At(c, "init") \/ At(c, "open")
    /\ running' = FALSE
    /\ Goto(c, "out")
    /\ UNCHANGED <<stopIssued, stopWorker, usb, worker, transfer, ret, env>>

StartInit(c) ==
    /\ At(c, "init")
    /\ usbCtx' = TRUE
    /\ Goto(c, "open")
    /\ UNCHANGED <<flags, handle, inTransfer, iface, worker, transfer, ret, env>>

\* The descriptors are read only while interfaceNumber is still negative;
\* reading them may fail, and the interface may have no interrupt IN endpoint.
StartOpen(c) ==
    /\ At(c, "open")
    /\ plugged
    /\ handle' = TRUE
    /\ iface' \in IF iface = "unset" THEN {"unset", "in", "noIn"} ELSE {iface}
    /\ Goto(c, "attach")
    /\ UNCHANGED <<flags, usbCtx, inTransfer, worker, transfer, ret, env>>

StartAttach(c) ==
    /\ At(c, "attach")
    /\ session' = "up"
    /\ Goto(c, "attached")
    /\ UNCHANGED <<flags, usb, worker, transfer, ret, plugged, proc, starts,
                   callbackStops>>

AttachedReturns(c) ==
    /\ At(c, "attached")
    /\ Goto(c, "launch")
    /\ UNCHANGED <<flags, usb, worker, transfer, ret, env>>

\* The callback of the ATTACHED event calls Rayneo_Stop, on Start's thread.
AttachedStops(c) ==
    /\ callbackStops
    /\ At(c, "attached")
    /\ ret' = [ret EXCEPT ![c] = "start"]
    /\ Goto(c, "gate")
    /\ UNCHANGED <<flags, usb, worker, transfer, env>>

CanRead == handle /\ iface = "in"

StartSkip(c) ==
    /\ At(c, "launch")
    /\ ~CanRead
    /\ Goto(c, "out")
    /\ UNCHANGED <<flags, usb, worker, transfer, ret, env>>

StartLaunch(c) ==
    /\ At(c, "launch")
    /\ CanRead
    /\ stopWorker' = FALSE
    /\ inTransfer' = TRUE
    /\ urb' \in Submitted
    /\ Goto(c, "spawn")
    /\ UNCHANGED <<running, stopIssued, usbCtx, handle, iface, worker,
                   cbAt, cbOn, ret, env>>

\* Assigning to a joinable std::thread is std::terminate.
StartSpawn(c) ==
    /\ At(c, "spawn")
    /\ IF worker = "none"
         THEN worker' = "check" /\ proc' = proc
         ELSE worker' = worker /\ proc' = "terminated"
    /\ Goto(c, "out")
    /\ UNCHANGED <<flags, usb, transfer, ret, plugged, session, starts,
                   callbackStops>>

----------------------------------------------------------------------------
(* Rayneo_SendRaw: the synchronous transfer handles libusb's events itself *)

SendCall(c) ==
    /\ At(c, "out") /\ Alone(c)
    /\ running /\ handle
    /\ Goto(c, "sending")
    /\ UNCHANGED <<flags, usb, worker, transfer, ret, env>>

SendReturns(c) ==
    /\ At(c, "sending") /\ ~InCallback(c)
    /\ Goto(c, "out")
    /\ UNCHANGED <<flags, usb, worker, transfer, ret, env>>

----------------------------------------------------------------------------
(* Rayneo_Stop on a thread that is not the worker *)

StopCall(c) ==
    /\ At(c, "out") /\ OnlyStops
    /\ ret' = [ret EXCEPT ![c] = "app"]
    /\ Goto(c, "gate")
    /\ UNCHANGED <<flags, usb, worker, transfer, env>>

\* Mutant: the stop is decided by reading running, not by exchanging the flags.
StopGateByLoad(c) ==
    /\ At(c, "gate")
    /\ stopIssued' = TRUE
    /\ IF running THEN Goto(c, "signal") ELSE Return(c)
    /\ UNCHANGED <<running, stopWorker, usb, worker, transfer, ret, env>>

\* if (ctx->stopIssued.exchange(true)) return RAYNEO_OK;
StopGate(c) ==
    /\ At(c, "gate")
    /\ stopIssued' = TRUE
    /\ IF stopIssued THEN Return(c) ELSE Goto(c, "claim")
    /\ UNCHANGED <<running, stopWorker, usb, worker, transfer, ret, env>>

\* Mutant: the old value of running is not looked at.
StopClaimAlways(c) ==
    /\ At(c, "claim")
    /\ running' = FALSE
    /\ Goto(c, "signal")
    /\ UNCHANGED <<stopIssued, stopWorker, usb, worker, transfer, ret, env>>

\* bool was = ctx->running.exchange(false); if (was) ...
StopClaim(c) ==
    /\ At(c, "claim")
    /\ running' = FALSE
    /\ IF running THEN Goto(c, "signal") ELSE Return(c)
    /\ UNCHANGED <<stopIssued, stopWorker, usb, worker, transfer, ret, env>>

StopSignal(c) ==
    /\ At(c, "signal")
    /\ stopWorker' = TRUE
    /\ Goto(c, "cancel")
    /\ UNCHANGED <<running, stopIssued, usb, worker, transfer, ret, env>>

\* Cancelling reaches a transfer that is in flight at this very moment; its
\* completion (status CANCELLED) still has to be handled by some thread.
StopCancel(c) ==
    /\ At(c, "cancel")
    /\ urb' = IF inTransfer /\ urb = "flight" THEN "error" ELSE urb
    /\ Goto(c, "join")
    /\ UNCHANGED <<flags, usb, worker, cbAt, cbOn, ret, env>>

\* Mutant: a join that leaves a state no other call knows.
StopJoinUnknown(c) ==
    /\ At(c, "join")
    /\ worker \in {"none", "exited"}
    /\ worker' = "joined"
    /\ Goto(c, "cleanup")
    /\ UNCHANGED <<flags, usb, transfer, ret, env>>

StopJoin(c) ==
    /\ At(c, "join")
    /\ worker \in {"none", "exited"}
    /\ worker' = "none"
    /\ Goto(c, "cleanup")
    /\ UNCHANGED <<flags, usb, transfer, ret, env>>

\* Free the transfer and its buffer, release the interface, close the handle
\* and exit libusb.  Doing so under a pending transfer or a running callback
\* is a use after free: the process may crash or may get away with it.
StopCleanup(c) ==
    /\ At(c, "cleanup")
    /\ inTransfer' = FALSE
    /\ handle' = FALSE
    /\ usbCtx' = FALSE
    /\ urb' = "idle"
    /\ proc' \in IF UsbInUse THEN {"up", "crashed"} ELSE {"up"}
    /\ Goto(c, "detach")
    /\ UNCHANGED <<flags, iface, worker, cbAt, cbOn, ret, plugged,
                   session, starts, callbackStops>>

\* A Stop called by the callback of DETACHED finds stopIssued set and returns.
StopDetach(c) ==
    /\ At(c, "detach")
    /\ session' = "down"
    /\ Return(c)
    /\ UNCHANGED <<flags, usb, worker, transfer, ret, plugged, proc, starts,
                   callbackStops>>

(* Rayneo_Destroy *)

DestroyCall(c) ==
    /\ At(c, "out") /\ Alone(c)
    /\ ret' = [ret EXCEPT ![c] = "destroy"]
    /\ Goto(c, "gate")
    /\ UNCHANGED <<flags, usb, worker, transfer, env>>

\* delete ctx: destroying a joinable std::thread is std::terminate.
DestroyDelete(c) ==
    /\ At(c, "delete")
    /\ proc' = IF worker = "none" THEN "destroyed" ELSE "terminated"
    /\ Goto(c, "out")
    /\ UNCHANGED <<flags, usb, worker, transfer, ret, plugged, session, starts,
                   callbackStops>>

----------------------------------------------------------------------------
(* The worker loop and transferCallback *)

\* Mutant: a worker that does not look at stopWorker.
WorkerCheckNever ==
    /\ WorkerAt("check")
    /\ worker' = "wait"
    /\ UNCHANGED <<flags, usb, transfer, threads, env>>

WorkerCheck ==
    /\ WorkerAt("check")
    /\ worker' = IF stopWorker THEN "exited" ELSE "wait"
    /\ UNCHANGED <<flags, usb, transfer, threads, env>>

\* libusb_handle_events_timeout_completed returns: 100 ms passed, or an event
\* was handled.
WorkerReturns ==
    /\ WorkerAt("wait") /\ ~InCallback(Worker)
    /\ worker' = "check"
    /\ UNCHANGED <<flags, usb, transfer, threads, env>>

\* A thread in libusb's event handling reaps the completed transfer and enters
\* transferCallback, which returns at once when stopWorker is set and emits an
\* event for a whole frame.
Reap(t) ==
    /\ Up /\ HandlingEvents(t)
    /\ urb \in {"frame", "error"} /\ cbAt = "none"
    /\ cbOn' = t
    /\ cbAt' = IF stopWorker THEN "none" ELSE IF urb = "frame" THEN "event" ELSE "tail"
    /\ urb' = "idle"
    /\ UNCHANGED <<flags, usb, worker, threads, env>>

\* The event callback is back; for a caller, its nested Stop (if any) too.
CallbackReturns ==
    /\ CallbackAt("event") /\ HandlingEvents(cbOn)
    /\ cbAt' = "tail"
    /\ UNCHANGED <<flags, usb, worker, urb, cbOn, threads, env>>

\* Rayneo_Stop called by the event callback on the worker: it cannot join
\* itself, so it flags the stop and answers BUSY.
CallbackStopsOnWorker ==
    /\ callbackStops
    /\ CallbackAt("event") /\ cbOn = Worker
    /\ running' = FALSE
    /\ stopIssued' = TRUE
    /\ stopWorker' = TRUE
    /\ UNCHANGED <<usb, worker, transfer, threads, env>>

\* Rayneo_Stop called by the event callback inside SendRaw: not the worker's
\* thread, so it takes the whole path.
CallbackStopsOnCaller(c) ==
    /\ callbackStops
    /\ CallbackAt("event") /\ cbOn = c /\ At(c, "sending")
    /\ ret' = [ret EXCEPT ![c] = "send"]
    /\ Goto(c, "gate")
    /\ UNCHANGED <<flags, usb, worker, transfer, env>>

\* The stopWorker check before resubmitting, and the resubmission.
CallbackTail ==
    /\ CallbackAt("tail")
    /\ cbAt' = IF stopWorker THEN "none" ELSE "submit"
    /\ UNCHANGED <<flags, usb, worker, urb, cbOn, threads, env>>

CallbackSubmit ==
    /\ CallbackAt("submit")
    /\ urb' \in Submitted
    /\ cbAt' = "none"
    /\ UNCHANGED <<flags, usb, worker, cbOn, threads, env>>

----------------------------------------------------------------------------
(* The device and the kernel *)

\* The transfer completes with a whole frame, or short or in error.
Complete ==
    /\ Up /\ plugged /\ urb = "flight"
    /\ urb' \in {"frame", "error"}
    /\ UNCHANGED <<flags, usb, worker, cbAt, cbOn, threads, env>>

Replug ==
    /\ Up
    /\ plugged' = ~plugged
    /\ urb' = IF urb = "flight" THEN "error" ELSE urb
    /\ UNCHANGED <<flags, usb, worker, cbAt, cbOn, threads, session, proc, starts,
                   callbackStops>>

----------------------------------------------------------------------------
\* What a caller does on its own once it is inside a call.
CallerStep(c) ==
    \/ StartReset(c) \/ StartInit(c) \/ StartOpen(c) \/ StartFails(c)
    \/ StartAttach(c) \/ AttachedReturns(c)
    \/ StartSkip(c) \/ StartLaunch(c) \/ StartSpawn(c)
    \/ SendReturns(c)
    \/ StopGate(c) \/ StopClaim(c) \/ StopSignal(c) \/ StopCancel(c)
    \/ StopJoin(c) \/ StopCleanup(c) \/ StopDetach(c)
    \/ DestroyDelete(c)

\* What the application may do, and need not.
Request(c) ==
    \/ StartCall(c) \/ SendCall(c) \/ StopCall(c) \/ DestroyCall(c)
    \/ AttachedStops(c) \/ CallbackStopsOnCaller(c)

WorkerStep == WorkerCheck \/ WorkerReturns
CallbackStep == CallbackReturns \/ CallbackTail \/ CallbackSubmit
Device == Complete \/ Replug

\* A deleted context, or a dead process, takes no more steps.
Finished == ~Up /\ UNCHANGED vars

Next ==
    \/ \E c \in Callers : CallerStep(c) \/ Request(c)
    \/ WorkerStep
    \/ \E t \in Threads : Reap(t)
    \/ CallbackStep
    \/ CallbackStopsOnWorker
    \/ Device
    \/ Finished

\* The threads run: a call that can go on does, the worker's event wait ends
\* within 100 ms and event callbacks return.  The application need not call
\* anything and the device need not send anything.
Fairness ==
    /\ \A c \in Callers : WF_vars(CallerStep(c))
    /\ WF_vars(WorkerStep)
    /\ WF_vars(CallbackStep)

Spec == Init /\ [][Next]_vars
FairSpec == Spec /\ Fairness

----------------------------------------------------------------------------
\* Two Stops never both take the clean-up path: the exchange on running elects
\* one, so transfer, handle and libusb context are released once.
SoleCleaner ==
    \A c, d \in Callers :
        pc[c] \in CleanerPoints /\ pc[d] \in CleanerPoints => c = d

\* Stop frees libusb's objects only after the worker is gone and while no
\* thread is inside transferCallback.
CleanupAfterWorker ==
    \A c \in Callers :
        pc[c] \in {"cleanup", "detach"} => worker = "none" /\ cbAt = "none"

\* Threads that are emitting an event: between ++ctx->seq and the return of
\* enqueueEvent.
Emitters ==
    {c \in Callers : pc[c] \in {"attach", "attached", "detach"}}
        \union {t \in Threads : cbAt = "event" /\ cbOn = t}

\* ctx->seq is a plain integer and the event callback is not told to be
\* reentrant: no two threads ever emit at the same time.
SingleEmitter == \A s, t \in Emitters : s = t

\* Every frame event falls between the ATTACHED and the DETACHED event.
FramesWithinSession == cbAt = "event" => session = "up"

\* Nothing of a session is left.
Clean ==
    /\ worker = "none" /\ urb = "idle" /\ cbAt = "none"
    /\ ~handle /\ ~inTransfer
    /\ session = "down"

\* Once a stopped context is left alone, nothing of the session is left: no
\* joinable thread, no handle, no transfer, no ATTACHED without its DETACHED.
StoppedIsClean ==
    (Up /\ ~running /\ \A c \in Callers : pc[c] = "out") =>
        Clean

\* No call of the API ends in std::terminate.
NeverTerminates == proc # "terminated"

\* Why the properties above hold when the callback never calls Stop: who
\* excludes whom, and what each program point may rely on.
Solo(c) ==
    \/ pc[c] \in StartPoints \union {"sending", "delete"}
    \/ pc[c] \in StopPoints /\ ret[c] = "destroy"

SoloIsAlone == \A c \in Callers : Solo(c) => Alone(c)
StopsAreTopLevel == \A c \in Callers : ret[c] \in {"app", "destroy"}
StartingHolds ==
    \A c \in Callers : pc[c] \in StartPoints =>
        /\ running /\ worker = "none" /\ cbAt = "none"
        /\ pc[c] # "spawn" => urb = "idle" /\ ~inTransfer
        /\ pc[c] \in {"reset", "init", "open"} => ~handle
        /\ session = IF pc[c] \in {"attached", "launch", "spawn"} THEN "up" ELSE "down"
CleaningHolds ==
    \A c \in Callers : pc[c] \in CleanerPoints =>
        /\ ~running /\ session = "up"
        /\ pc[c] = "detach" => urb = "idle" /\ ~handle /\ ~inTransfer
SendingHolds == \A c \in Callers : pc[c] = "sending" => running
DeletingHolds == \A c \in Callers : pc[c] = "delete" => ~running
CallbackHandles == cbAt # "none" => HandlingEvents(cbOn)
RunningIsUp ==
    running /\ (\A c \in Callers : pc[c] \notin StartPoints) => session = "up"
StoppedOrCleaning ==
    ~running /\ (\A c \in Callers : pc[c] \notin CleanerPoints) => Clean
\* A raised stopIssued belongs to a Stop that will take the running flag, or
\* is left over and about to be reset.
StopIsOwed ==
    running /\ stopIssued => \E c \in Callers : pc[c] \in {"claim", "reset"}

\* Every thread of a live context is where the flags say it may be.
Orderly ==
    /\ SoloIsAlone /\ StopsAreTopLevel
    /\ SoleCleaner /\ CleanupAfterWorker
    /\ StartingHolds /\ CleaningHolds /\ SendingHolds /\ DeletingHolds
    /\ CallbackHandles
    /\ RunningIsUp /\ StoppedOrCleaning /\ StopIsOwed
    /\ NeverTerminates

\* With a callback that never calls Stop, one Stop cleans up after the worker and
\* every callback, a stopped context at rest holds nothing, and no call ends in
\* std::terminate.  Inductive.
ServiceInv == ~callbackStops => Orderly

\* ATTACHED and DETACHED alternate, whatever calls are made and however they
\* overlap: an emission of either always changes the session, when the callback
\* never calls Stop.
Alternation ==
    ~callbackStops => \A c \in Callers : /\ StartAttach(c) => session = "down"
                                         /\ StopDetach(c) => session = "up"
LifecycleAlternates == [][Alternation]_vars

\* A Stop that took the running flag gets past its join, wherever the worker was,
\* and ends the session with a DETACHED event, unless the process died of a use after free on the way.
StopDetaches ==
    \A c \in Callers : pc[c] = "signal" ~> (session = "down" \/ ~Up)

\* "ensure stopped" (Rayneo_Destroy): the context is deleted only once the
\* worker is gone and the device is closed.
EnsureStopped ==
    \A c \in Callers : pc[c] = "delete" => worker = "none" /\ ~handle
=============================================================================
