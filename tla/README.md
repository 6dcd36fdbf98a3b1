# RayNeo Air 4 Pro for Linux: TLA+ models

These modules model the concurrent and stateful parts of the RayNeo SDK
(`src/src/RayneoApi.cpp`), of the SteamVR driver (`src/openvr_driver/`) and of
the pinned-viewport viewer (`src/examples/pinned_viewport/`). TLC checks small
instances, and TLAPS proves the central safety properties for every value of
the constants. `PROJECT.json` ties definitions to source lines, lists the runs,
the mutants that show each property can fail, the hazards and the findings.

## 1. The system and its parts

| Part | State it keeps | Operations | Modelled by |
|---|---|---|---|
| SDK service life cycle, libusb transport | the flags `running`, `stopIssued`, `stopWorker`; `usbCtx`, `handle`, `inTransfer`; the worker thread; interface and endpoints | `Rayneo_Create`, `Start`, `Stop`, `SendRaw`, `Destroy`, the worker loop, `transferCallback` | `RayneoService` |
| SDK event queue | `queue`, `seq`, `qMtx`, `qCv` | `enqueueEvent`, `Rayneo_PollEvent` | `EventQueue`, `EventStream` |
| SDK request and reply | `lastFrame`, `haveNewFrame`, `rtMtx`, `rtCv` | `Rayneo_RoundTrip`, the head of `processInboundFrame` | `RoundTrip` |
| SDK frame decoding, snapshots | `lastImu`, `lastInfo` | `processInboundFrame`, `Rayneo_GetLastImu`, `Rayneo_GetDeviceInfo` | `FrameDecode` |
| SDK interface selection | `interfaceNumber`, `epIn`, `epOut` | the descriptor walk of `Rayneo_Start` | one action of `RayneoService` |
| SDK commands, result strings | none | `buildFrame`, `Rayneo_SendCommand` and its wrappers | no |
| SDK macOS transport (IOKit HID) | `hidManager`, `hidDevice`, `hidInputBuffer`, `macReady` with its status, `macDeviceOnline` | `macWorkerThread`, its callbacks, the start handshake, the macOS half of `Stop` | `MacTransport` |
| OpenVR device provider | `rayneo_ctx_`, the event thread and its flag, `sleeping_`, `button_notify_pending_`, the quaternion | `Init`, `RunFrame`, `Cleanup`, `InitRayneo`, `RayneoEventLoop`, `StopRayneo` | `DriverSession` |
| OpenVR HMD device | `is_active_`, the pose thread, input handles | `Activate`, `Deactivate`, `GetPose`, `MyRunFrame` | `DriverSession` |
| OpenVR display finder, factory, logging | none | monitor enumeration, `HmdDriverFactory`, `DriverLog` | no |
| Viewer: portal capture | two sessions, two streams, the PipeWire thread, one mailbox per stream | `PortalCapture::start`, `stop`, `takeFrame`, the PipeWire callbacks | `PortalCapture` |
| Viewer: start-up, loop, shutdown | the mode, `running`, `stopRequested`, what `main` has acquired | `main`, `handleStopSignal` | `Viewer`, `ViewerState` |
| Viewer: pointer and passthrough | `mouseX/Y`, the pending button, echo suppression, `portalPassthrough`, `portalChromePanelActive`, the input region | SDL's mouse events, the pointer part of a frame | `PortalPointer` |
| Viewer: KDE workspaces | `workspaceSlot`, the debounce, retry and cooldown ticks | the two-workspace and 3x3 parts of a frame, `switchKdeDesktop`, the return at exit | `WorkspaceSwitch` |
| Viewer: live capture | `LiveCapture` (mutex, one picture, `stop`), the texture | the capture thread, `applyLiveFrame`, the take, the C key | `LiveCapture` |
| Viewer: head tracker | calibration and still counters, bias, ticks, quaternion | `Tracker::update`, `recenter` | `HeadTracker` (the counters) |
| Viewer: display choice, drawing, BMP parsing | textures | OpenGL and SDL calls | no |
| Orientation demo, simple example | as the viewer's tracker; none | one thread each | no |
| Launcher, setup and install scripts | none | run once | no |
| Vendored headers, `linalg.h`, `vrmath.h` | | third-party code | no |

How they interact. A client thread calls the SDK; the SDK's worker reads USB,
stores the frame for `RoundTrip`, decodes it, updates a snapshot and emits an
event, either to the event callback on the emitting thread or into the queue.
The SteamVR driver has three threads: vrserver's, which owns the SDK context, an
event thread that polls it, and a pose thread that reads what the event thread
wrote. The viewer has its main thread, which also polls the SDK, the SDK's
worker, and PipeWire's thread or a capture thread, each leaving pictures in
one-slot mailboxes. In the workspace modes it starts a helper process per switch
and waits for it; in the portal mode it shares the real pointer with the desktop.

What is hard here: `Stop` from several threads and from the event callback; a
worker, a transfer and a joiner that share libusb objects without a lock;
condition variables whose flag or notification is outside the lock; snapshots
read without a lock; threads that must be joined before what they use is
destroyed, on every failing path; answers that arrive before somebody listens;
timers on a counter that wraps, with a helper that may have done its work and say
it failed; four records of who owns the pointer, changed one at a time.
`PROJECT.json` "hazards" lists these by line with the properties aimed at them.

## 2. The modules

Each action is one step of a thread that another thread can see. A body under
a mutex is one step unless the point is what the mutex hides, in which case the
body takes two and the others wait for the lock. Operations that leave the
modelled state unchanged (a null argument, `Start` while running, a poll with
zero timeout on an empty queue) are stuttering steps. Definitions introduced as
a *mutant* or as *careless* are not part of the model: each is a plausible bug
that some property must catch in place of the definition after it.

### RayneoService: the life cycle of one context

`pc[c]` says where an application thread is inside `Rayneo_Start` (`reset`,
`init`, `open`, `attach`, `attached`, `launch`, `spawn`), `Rayneo_Stop` (`gate`,
`claim`, `signal`, `cancel`, `join`, `cleanup`, `detach`), `SendRaw` (`sending`)
or `Destroy` (`delete`, after its own `Stop`). `ret[c]` is what a `Stop` returns
to: the application, `Start` (the ATTACHED callback), `SendRaw` (a frame's
callback) or `Destroy`. `worker` is the `std::thread` with the point its loop is
at, `urb` the one IN transfer inside libusb and the kernel, `cbAt` and `cbOn` the
running `transferCallback` and its thread: libusb lets whichever thread handles
events run it, the worker or a caller inside `SendRaw`'s synchronous transfer.
`session` follows the ATTACHED and DETACHED events, `proc` records
`std::terminate` and a crash after a use after free.

Clients are assumed to use `Start`, `SendRaw` and `Destroy` exclusively, as
every program of the repository does; `Stop` may overlap `Stop`. Events go to a
callback here, and `callbackStops`, chosen once and never changed, says whether it
calls `Rayneo_Stop` wherever it likes, which the code provides for, or never does.
`ServiceInv` is what holds in the second case. One target device, one callback.

### EventQueue and EventStream

`EventQueue` is the same context without a callback. `ReadSeq` and `WriteSeq`
are the two halves of the plain `++ctx->seq`, `Push` the locked append with the
drop of the oldest event, `Notify` the `notify_one` after the unlock. A poller
takes, waits, is notified, times out or wakes for no reason, and checks the
queue again in each case. `EventStream` is what a reader is promised: numbers
increase, and an event is skipped only when `Window` newer ones are waiting.
`ImplementsStream` maps the queue to it with `sent = pushed`,
`gone = pushed - Len(queue)`, `last = taken`.

### MacTransport

The same context on macOS, without an event callback and with one application
thread. `worker` follows `macWorkerThread` through creating and opening the
manager, `waitForDevice`, opening the device, its report to `Start` and the run
loop; `notices` are the matching and removal callbacks IOKit still has to make,
in order, each for one number of plugged glasses. `held`, `listening` and
`online` are `hidDevice`, its registered buffer and `macDeviceOnline`. Emitting
is two steps, numbering and queueing, on the worker and on the application
thread. The two waits of two seconds are one state that may end at any turn, and
`Start`'s five seconds may end at any time.

### RoundTrip

The worker copies every frame into `lastFrame` under `rtMtx` (in two halves),
sets `haveNewFrame`, unlocks and notifies all; a caller clears the flag without
the lock, sends, and waits with the predicate under the lock. The worker's event
callback may call `RoundTrip` itself. `arrived` and `asked` are history.

### FrameDecode

One inbound frame after another is dispatched, stored in `lastImu` or `lastInfo`
(in two halves: there is no lock), and announced; device info only when there was
none or its tick differs, as decided before the store. An application polls
events and reads snapshots, also in two halves.

### DriverSession

`vpc` follows vrserver's thread through `Init`, `InitRayneo`, `Activate`, frames,
`Deactivate`, `Cleanup` and `StopRayneo`; `epc` and `ppc` are the event and the
pose thread, `none` while not joinable. The SDK appears as its queue with the
drop at the limit, so a sleep notification may be lost. The call order is
OpenVR's. A DETACHED event can reach the loop on the macOS transport only; on
libusb `Rayneo_Stop` emits it after the loop has been joined.

### PortalCapture

`Steps` is the chain of nine calls in `PortalCapture::start`; each request can
fail, be refused or be answered, at once or never. A Response that comes before
`Subscribe` is dropped, as GDBus drops signals nobody subscribed to. When the
second stream is open the PipeWire thread delivers pictures (in two halves,
under the stream's mutex) and the viewer's loop takes them; `stop` joins the
thread, destroys the streams and closes the sessions. Every failure ends in
`stop`, through the destructor. The user may end the sharing at any time, which
nothing of the viewer notices.

### Viewer and its parts

`ViewerState` declares what the parts of the pinned viewport share, and the
constants with their assumptions: the mode, `phase` (the step of the start-up,
`events` and `frame` within an iteration, `join`, `over`), `running`,
`stopRequested`, `LiveCapture::stop` and SDL's counter. `WorkspaceSwitch`,
`LiveCapture`, `HeadTracker` and `PortalPointer` extend it, each with its own
variables and actions; `Viewer` instantiates the four and adds the start-up, the
loop and the teardown, and `holding`, what `main` has acquired and not given back.
The loop tests `stopRequested` before its first iteration as before the others.
`MCViewer` picks head angles. One flag is given at a time, and a part that
the mode does not use stays as it was initialised.

*WorkspaceSwitch.* A frame is one action: it reads the counter and the pose once
and waits for the helper it starts. `Desired` is the slot the pose asks for,
`pending` and `failed` pair a slot with the time it was first wanted or last
tried. The helper's outcome is `done`, `failed` or `cut`: KWin has switched and
the helper was killed, or failed, before it could say so. `astray` is history: KWin
may show another desktop and the viewer remembers no failed switch, because nobody
knows where it started, a stop kept it from noting the failure, or the way home
failed. The counter is
`TickModulus` wide, with C's unsigned difference (`Elapsed`) and its plain
comparison of the cooldown.

*LiveCapture.* A picture is the version of the desktop it was taken of. The
capture thread checks, captures (or fails and pauses), stores; `Take` is the part
of the loop that empties the mailbox, `Refresh` the C key.

*HeadTracker.* Samples are fast, gentle or slow. What the code does with angles is
floating point and left out; whether `q_` has moved from level is kept.

*PortalPointer.* The canvas is counted in columns and a head that looks above or
below the panels looks at nothing. SDL's relative mode and the surface's input
region may each be unavailable, as chosen at the start. Motion and button events
come from the user or, once, as the echo of an injected motion. `Buttons` is a
constant; `Pending` is the button a frame has still to pass on, and `lost` is
history: the buttons whose last event was overwritten by another button's or
dropped by a frame that looks at no panel.

## 3. The runs

| Run | Instance | What it shows |
|---|---|---|
| `service_calls` | 2 callers, 2 starts, a callback that stops and one that never does, fairness | one `Stop` cleans up, whatever the callback does, and a `Stop` that took `running` gets past its join and ends in DETACHED; when the callback never stops, only after the worker and every callback, a stopped context is clean, no thread object is lost, nobody emits at the same time, and ATTACHED and DETACHED alternate |
| `service_ensure_stopped` | 1 caller (violation) | after a `Stop` from the callback `Destroy` deletes a context with a joinable thread and an open device |
| `queue_events` | 1 emitter, 3 pollers, limit 3, 6 events, fairness | refinement of `EventStream`: numbers increase, only the oldest are lost; no poller sleeps beside an event nobody comes for, and a sleeper and an event do not stay together |
| `roundtrip_calls` | 2 callers and the callback, 2 frames, fairness | a returned frame is whole and newer than the call; no sleep beside a frame; every call returns |
| `decode_events` | 4 frames, 2 ticks | a new tick is always announced, and not twice running; a snapshot is not older than the event polled before |
| `mac_session` | 2 starts, glasses plugged 3 times, 5 events, fairness | a failed or timed-out `Start` leaves nothing; ATTACHED follows an opened device, and `online` means listening; calls return |
| `mac_numbers` | 1 start, 3 events (violation) | a frame's event is queued before ATTACHED with a lower number |
| `driver_session` | 2 loads, queue of 2, 3 events each, fairness | no thread outlives what it uses, unloading ends and leaves nothing; presses are kept; the sleep state follows |
| `portal_capture` | 2 pictures per stream, fairness | pictures taken are whole and newer each time; no callback on a destroyed stream; nothing left on any failing path |
| `portal_ctrl_c` | 1 picture per stream (violation) | Ctrl+C does not stop a viewer that waits for the portal |
| `viewer_modes` | all five modes, see below, fairness | whatever fails, nothing is left; the pointer has one owner; a lost button event is made good by the button's next one; KWin shows the desktop of the viewer's slot unless a failed switch is remembered; switches are deliberate and a resting head switches once; a held pose is reached; pictures go forward and catch up; a stopped viewer ends; calibration is still |
| `viewer_grid_sides` | the grid (violation) | a head turned right shows the desktop left of the center |

Why the bounds are enough. Two callers are needed for two `Stop`s to race; a
third finds the exchanged flags as the second does (the theorems cover any
number). Two starts cover a restart with anything the first left. A limit of
three with six events overflows the queue and empties it again; three pollers
let a notification go to one that finds nothing. One emitter is what `OneEmitter`
gives on libusb; `NoWakeupLost` is proved for any number. Two starts on macOS let
a report, a device or a notice of the first meet the second, and three plugs let
glasses go and come back within a session. Two frames
and two callers let one call's reset take another's frame. Four frames cover a
first, a repeated and a changed tick with a sample between. A queue of two and
three events drop a notification; two loads cover everything left by the first,
and nothing is counted across them. Two pictures per stream let one be
overwritten while it waits. Symmetry is used only in runs without liveness.

The viewer's instance: a counter of 6 with one tick per frame, a debounce of 1, a
cooldown and a retry of 2, so that every timer ends before, at and after the wrap,
a cooldown blocks a switch and ends both with and without a wrap, and the counter
may start anywhere; angles of 0, -12 and -20 degrees, one inside
the return angle, one between the two thresholds and one beyond the entering one,
for yaw and pitch. (Both signs of one angle make the grid four times as large and
select other slots by the same comparisons.) Two columns per panel and two views
place the pointer on nothing, on the Samsung panel and on the Chrome panel. A
calibration of three samples and a stillness of one. Two versions of the desktop
let the mailbox, the thread and the C key each hold a different one; the capture
thread is explored in the pan mode only (`CapturedModes`), since it does not
interact with the switching, and the head tracker in the demo mode only, the
other modes taking any pose at any frame. One of the
three buttons is enough for its event to be overwritten, by its own next one or by
a button that is none of the three, and to be dropped; that a loss touches no other
button is the theorem's, which is about any set of them. The deadlock check is off
because a viewer ends.

Fairness. Threads that can run do: the worker's wait for USB events ends within
100 ms, the driver's poll after 500 ms, `RoundTrip`'s wait at its timeout, and
event callbacks return. A mutex that is free infinitely often is taken
(`rtMtx`, the stream lock). Nothing obliges an application to call, a device to
send, a user to answer a dialog (in `PortalCapture`) or vrserver to run a frame; in `EventQueue` not
even a timeout has to fire, since a poller may wait for ever.

In `Viewer` `main` goes on, which includes that the portal answers (what if not,
`portal_ctrl_c` shows) and that spectacle and qdbus6 end: `waitpid` has no timeout,
and as glibc's `signal` restarts it, a signal does not interrupt it. A helper that
is tried infinitely often works infinitely often (strong fairness of
`SwitchWorks`), and so does a capture. `HeldPoseIsReached` excludes one case, and
the excluded case is real: a cooldown that ends less than a debounce and a retry
before the counter's maximum is compared with a counter that has wrapped, and
blocks the switch until the counter comes round, 49.7 days later. `SwitchIsDeliberate`
excludes the mirror image, a cooldown whose end has wrapped and is over at once.

## 4. What is proved

* `RayneoService_proofs`: `TypeCorrect` for every set of callers and number of
  starts. `OneCleaner`: whatever the event callback does, one `Stop` frees the
  session; its invariant `CleanerInv` says that whoever is past the exchange of
  `running` has raised `stopIssued`, and that until it is done nobody else passes
  the gate. `ServiceSafe`: `ServiceInv`, which is `Orderly` unless the callback
  calls `Stop`, is inductive. The named properties say little by themselves about
  the steps before: that `Stop` cleans up alone needs to know that a raised
  `stopIssued` is owed to somebody (`StopIsOwed`), that a stopped context with no
  cleaner is clean (`StoppedOrCleaning`), what holds at each point of `Start`
  (`StartingHolds`), and which calls exclude others (`SoloIsAlone`, from the client
  contract). From it follow `JoinedBeforeCleanup`, `NoTerminate`,
  `StoppedHoldsNothing`, `FramesInSession`, `OneEmitter` and, for steps,
  `Alternates`. The condition on the callback is necessary:
  `service_ensure_stopped` is its counterexample.
* `EventQueue_proofs`: `NoWakeupLost` for any number of emitters and pollers; the
  argument counts, for every queued event, an awake poller or an emitter about to
  notify. With one emitter at a time, which `OneEmitter` gives for libusb, the
  invariant `OrderInv` (types, numbering and the gap-free queue) yields
  `NewestKept`, `InOrder` and `Refinement`, for every limit.
* `RoundTrip_proofs`: `RoundTripSafe`, for any number of callers. Freshness needs
  what a set flag means for a call under way (`CallInv`), wholeness needs who
  holds the lock and what `lastFrame` contains at each step of the copy
  (`LockInv`, `CopyInv`). `Whole`, `Fresh` and `Notified`, that nobody sleeps beside a
  frame, follow.
* `FrameDecode_proofs`, for any ticks and number of frames. `Announced` follows
  the tick of the frame at hand through the two halves of its store
  (`AnnounceInv`), from which also follows that no reply is announced whose tick
  the last announcement was about. `CatchesUp` needs that no queued or polled event
  is ahead of the older half of its snapshot (`StoredInv`), and that a getter under
  way looks for a frame the snapshot already holds (`ReadInv`).
* `DriverSession_proofs`, for any queue limit, loads and events.
  `NoThreadOutlives`: `ContainedInv` says at which of vrserver's calls each thread
  and each resource can exist at all. `PressesKept` needs only that the inputs
  exist while a press is owed. `SleepStateFollows` locates the last notification:
  in the queue with none behind it, in the event thread's hands, or in the state
  (`SleepInv`); a full queue that drops a notification which was the last one
  leaves nothing to follow, and `told` says so.
* `MacTransport_proofs`, for any number of starts, plugs and events.
  `SessionSafe` is inductive: `SessionInv` ties the application's call to the
  worker's place, `ReportInv` says that a report of success belongs to a worker
  that is in its loop or has been told to stop, `OnlineInv` that being online needs
  a held and listened-to device. `NothingHeld` and `AttachedIsOpened` follow.
* `PortalCapture_proofs`, for any number of pictures. `ChainInv` keeps the main
  thread at the place of the chain of requests its step stands for (`Chain` checks
  the nine steps once). `CallbacksAreSafe`: the loop runs neither before start is done
  nor after stop has joined it (`OutliveInv`). `ExitIsClean`: a session the
  portal has opened and `start` has not written down exists only while the main
  thread waits for its answer, from which no path leads to the destructor
  (`PortalInv`). `PicturesGoForward` is an action property; `Mail` orders what is
  shown, stored and sent, and says which half is ahead while a copy is under way.
* `Viewer_proofs`, for any counter width, delays, angles, calibration lengths,
  versions and panel width that the assumptions of `ViewerState` admit. A first
  group of lemmas says which steps touch which part (`SwitchMoves`,
  `TrackerMoves`, `LiveMoves`, `PortalMoves`, `MainMoves`), so that each part is
  proved about on its own. Then:
  - `NothingLeftBehind`: `Acquired` is what `main` may hold in each phase, and the
    capture thread is alive only in the loop and its join.
  - `CalibratedAtRest`: with `CalibrationIsStill`, an unfinished calibration has
    samples to go.
  - `PointerHasOneOwner` and `ButtonsAreTheUsers`: `OwnInv` adds the phases before the
    loop, where the pointer is first the desktop's and then confined; `ButtonInv`
    speaks, for every button and any set of them, of what the desktop will hold once
    the pending one is passed on.
  - `DesktopIsTheViewers`: while KWin shows another desktop than that of the
    viewer's slot a failed switch stays remembered, through every frame that settles,
    waits or tries again; and the slot is the center until the loop begins, so that a failing
    start-up leaves the desktop where it should be.
    `SlotsAreDesktops`: the table of offsets reaches every desktop once.
  - `RestingHeadRests`: `Hysteresis`, a lemma about the thresholds for every pair of
    angles, makes "since the last switch without a movement the pose asks for
    nothing" inductive.
  - `SwitchesAreDeliberate`: on the wrapping counter the difference of two moments
    grows by no more than the time that passes (`Ageing`). So a pending slot has been
    asked for at least as long as its age shows, and a cooldown that did not wrap
    has run no longer than the rest (`DeliberateInv`). The counter may wrap any
    number of times.
  - `PicturesGoForward`: a picture in the thread's hands or in the mailbox is newer
    than the one shown unless the C key has taken that one (`LiveInv`).

The type invariants are inductive with two additions: a pending button is a real
button or none (`PortalPlaces`), and an unfinished calibration has samples to go.

Assumed are only the named assumptions of the constants: bounds are natural numbers,
no button is called `none` or `other`, the debounce is shorter than the cooldown, that is no longer than the retry, and all
three are shorter than the counter's period (150, 350 and 1000 ms against 2^32).

Only model-checked. Every liveness property (`StopDetaches`, `WaiterIsServed`,
`CallReturns`, `CallsReturn`, `CleanupReturns`, `StoppedViewerExits`,
`HeldPoseIsReached`, `PictureCatchesUp`), since fairness and ENABLED are out of the
prover's reach; the four violations, which are counterexamples. Every other
property of a passing run is a theorem. `EventQueue`'s order rests on one emitter
at a time: `OneEmitter` proves that of `RayneoService`, the two modules are not
composed formally.

## 5. What the models found

* `Rayneo_Destroy` after a `Stop` from the event callback destroys a joinable
  thread (`EnsureStopped`). For the same reason a `Start` after such a `Stop` may
  reset `stopWorker` before the old worker has seen it.
* The 3x3 grid has its sides swapped (`RightIsRight`): the viewer's comment says that
  turning right is a negative yaw, README.md that looking right activates the right
  workspace, and the grid negates the yaw and sends the positive side to the left
  column. The two-workspace mode has it right.
* On macOS events are numbered by two threads at once, so numbers can be queued
  out of order (`NumbersIncrease`).
* Ctrl+C has no effect while the viewer waits for the portal (`CtrlCStops`); a
  Response that comes before the subscription makes that wait endless.
* Without a property of its own. A `Stop` between `transferCallback`'s test of
  `stopWorker` (line 939) and its submit (line 942) finds nothing to cancel, joins the
  worker and frees a transfer in flight, although the comment at line 992 promises
  otherwise; `StopCleanup` records the crash. The viewer's gravity correction is
  blended into the reported angles and never into `q_`, so the drift it is said to stop
  (main.cpp:373-375) goes on underneath; that is arithmetic and not modelled. With a
  single display `sourceDisplay` stays -1 and the portal mode indexes
  `displayBounds` with it (main.cpp:1319 and 1380). A press and release within one
  frame lose the press, and a button let go outside the panels, or in the same frame
  as another button's event, stays down on the desktop until its next event:
  `ButtonsAgree` says that no loss goes further. A helper that has switched while the
  viewer is told to stop, or a way home that fails, leaves another desktop than the
  viewer's and no record of it (`astray`). Whatever the user moves within 100 ms
  of an injected motion is dropped with its echo.
* Since no text promises otherwise: snapshots can be torn, a failed `Start` on Linux leaves a libusb context that `Destroy` does
  not free, on macOS glasses that return within a session are taken but never
  opened and DETACHED may come twice or before ATTACHED, frames' callbacks may run on a thread inside `SendRaw`, an unplug on
  Linux emits no DETACHED before `Stop`, and the driver's sleep and button flags
  survive a reload.

## 6. Not modelled, and why

About two thirds of the repository's lines are third-party headers (OpenXR's
above all, and `linalg.h`), which no code of the project uses beyond types and
vector arithmetic. Of the project's own code these parts are left out:

* floating-point mathematics: quaternions, bias and gravity references, the
  projection of a pose onto the canvas;
* OpenGL and SDL drawing, BMP and EDID parsing, choosing a display by its name,
  printing, the setup scripts, the layout of USB frames and the command wrappers:
  arithmetic, pure output, or run once; none has interleavings;
* the orientation demo and the simple example: one thread each, whose only shared
  state is the SDK's, modelled as a caller; the demo calibrates as `Tracker` does;
* the descriptor walk of `Rayneo_Start`, which finds an endpoint or does not;
* changing the target or the callback of a context, and on macOS the event callback
  and concurrent `Stop`s;
* several mode flags at once, and a center desktop from the environment.

## 7. Plan

1. The composition of `RayneoService` and `EventQueue`: that what `OneEmitter` says
   of the service's event numbers is what the proofs about the queue assume.
2. What the liveness properties rest on and can be proved without fairness: that a
   viewer which waits can go on, which actions only bring it nearer its end.
3. The orientation demo's fusion of two sample streams, if its counters and ticks can
   be separated from its arithmetic; the descriptor walk as a function against a
   declarative definition of the interface it should find.
