--------------------------- MODULE DriverSession ---------------------------
(***************************************************************************)
(* The OpenVR driver while vrserver has it loaded: the device provider     *)
(* (src/openvr_driver/src/device_provider.cpp) with its event thread, and  *)
(* the HMD device (hmd_device_driver.cpp) with its pose thread.            *)
(*                                                                         *)
(* vrserver's thread calls Init, Activate, RunFrame, Deactivate and        *)
(* Cleanup in the order OpenVR gives: the device is deactivated before     *)
(* Cleanup, and Init follows Init only after a Cleanup.  The SDK is what   *)
(* EventQueue shows it to be, a queue that drops its oldest event at the   *)
(* limit.  IMU samples move a floating-point quaternion under imu_mutex_   *)
(* and are modelled for the room they take in the queue only.              *)
(***************************************************************************)
EXTENDS Naturals, Sequences

CONSTANTS
    MaxQueue,      \* events the SDK keeps
    MaxSessions,   \* bound: how often vrserver calls Init
    MaxEvents      \* bound: events the glasses send in one session

ASSUME DriverAssumption ==
    MaxQueue \in Nat \ {0} /\ MaxSessions \in Nat /\ MaxEvents \in Nat

VARIABLES
    vpc,        \* where vrserver's thread is
    ctx,        \* is rayneo_ctx_ non-null (and started)?
    queue,      \* events of the context that were not polled yet
    running,    \* rayneo_event_thread_running_
    epc,        \* rayneo_event_thread_: "none" when not joinable
    event,      \* the event its loop has just polled
    sleeping,   \* sleeping_
    button,     \* button_notify_pending_
    device,     \* is my_hmd_device_ non-null?
    provider,   \* is g_device_provider_instance non-null?
    active,     \* is_active_
    inputs,     \* are my_input_handles_ valid?
    ppc,        \* my_pose_update_thread_: "none" when not joinable
    posed,      \* poseIsValid of the pose reported last
    terminated, \* has a joinable thread been overwritten or destroyed?
    sessions,   \* number of Inits
    emitted,    \* events of this session
    told,       \* history: the last sleep or wake that was not dropped
    owed        \* history: a button press was handled and not clicked yet

sdk == <<ctx, queue, emitted>>
loop == <<running, epc, event, sleeping, button>>
hmd == <<device, active, inputs, ppc, posed>>
past == <<told, owed>>
vars == <<vpc, sdk, loop, hmd, provider, terminated, sessions, past>>

Events == {"attached", "imu", "info", "sleep", "wake", "button", "detached"}

SdkOK == ctx \in BOOLEAN /\ queue \in Seq(Events) /\ emitted \in Nat
LoopOK ==
    /\ running \in BOOLEAN /\ sleeping \in BOOLEAN /\ button \in BOOLEAN
    /\ epc \in {"none", "check", "poll", "handle", "leave", "exited"}
    /\ event \in Events
HmdOK ==
    /\ device \in BOOLEAN /\ active \in BOOLEAN /\ inputs \in BOOLEAN
    /\ ppc \in {"none", "check", "pose", "exited"}
    /\ posed \in BOOLEAN
ServerOK ==
    /\ vpc \in {"unloaded", "create", "spawn", "add", "added", "frames",
                "joinPose", "deactivated", "signal", "join", "stop", "clear"}
    /\ provider \in BOOLEAN /\ terminated \in BOOLEAN
    /\ sessions \in Nat
PastOK == told \in {"none", "sleep", "wake"} /\ owed \in BOOLEAN

\* Every variable has its type.
TypeOK == SdkOK /\ LoopOK /\ HmdOK /\ ServerOK /\ PastOK

Init ==
    /\ vpc = "unloaded"
    /\ ctx = FALSE /\ queue = <<>> /\ emitted = 0
    /\ running = FALSE /\ epc = "none" /\ event = "imu"
    /\ sleeping = FALSE /\ button = FALSE
    /\ device = FALSE /\ active = FALSE /\ inputs = FALSE
    /\ ppc = "none" /\ posed = TRUE
    /\ provider = FALSE /\ terminated = FALSE /\ sessions = 0
    /\ told = "none" /\ owed = FALSE

----------------------------------------------------------------------------
(* vrserver's thread: Init, Activate, RunFrame *)

Load ==
    /\ vpc = "unloaded" /\ sessions < MaxSessions
    /\ sessions' = sessions + 1
    /\ provider' = TRUE
    /\ vpc' = "create"
    /\ UNCHANGED <<sdk, loop, hmd, terminated, past>>

\* InitRayneo: Rayneo_Create or Rayneo_Start fails, Init goes on without.
CreateFails ==
    /\ vpc = "create"
    /\ vpc' = "add"
    /\ UNCHANGED <<sdk, loop, hmd, provider, terminated, sessions, past>>

Create ==
    /\ vpc = "create"
    /\ ctx' = TRUE /\ queue' = <<"attached">> /\ emitted' = 0
    /\ told' = "none"
    /\ vpc' = "spawn"
    /\ UNCHANGED <<loop, hmd, provider, terminated, sessions, owed>>

StartRayneoEventThread ==
    /\ vpc = "spawn"
    /\ IF running
         THEN UNCHANGED <<running, epc, terminated>>
         ELSE /\ running' = TRUE
              /\ epc' = "check"
              /\ terminated' = (terminated \/ epc # "none")
    /\ vpc' = "add"
    /\ UNCHANGED <<sdk, event, sleeping, button, hmd, provider, sessions, past>>

\* make_unique, whose constructor clears is_active_, and TrackedDeviceAdded; when that fails Init does, and the
\* driver is unloaded.
AddDevice ==
    /\ vpc = "add"
    /\ device' = TRUE
    /\ active' = FALSE
    /\ vpc' \in {"added", "deactivated"}
    /\ UNCHANGED <<sdk, loop, inputs, ppc, posed, provider, terminated, sessions, past>>

Activate ==
    /\ vpc = "added"
    /\ active' = TRUE
    /\ inputs' = TRUE
    /\ terminated' = (terminated \/ ppc # "none")
    /\ ppc' = "check"
    /\ vpc' = "frames"
    /\ UNCHANGED <<sdk, loop, device, posed, provider, sessions, past>>

\* ConsumeButtonNotifyPending is an exchange; a pending press becomes a click
\* when the click component exists.
RunFrame ==
    /\ vpc \in {"added", "frames", "deactivated"} /\ button
    /\ button' = FALSE
    /\ owed' = (owed /\ ~inputs)
    /\ UNCHANGED <<vpc, sdk, running, epc, event, sleeping, hmd, provider,
                   terminated, sessions, told>>

\* A careless Deactivate that does not wait for the pose thread.
DeactivateAtOnce ==
    /\ vpc = "frames"
    /\ active' = FALSE
    /\ vpc' = "deactivated"
    /\ UNCHANGED <<sdk, loop, device, inputs, ppc, posed, provider, terminated,
                   sessions, past>>

\* is_active_.exchange(false), then join: the pose thread may take a last turn
\* between the two.
Deactivate ==
    /\ vpc = "frames"
    /\ active' = FALSE
    /\ vpc' = "joinPose"
    /\ UNCHANGED <<sdk, loop, device, inputs, ppc, posed, provider, terminated,
                   sessions, past>>

JoinPose ==
    /\ vpc = "joinPose" /\ ppc = "exited"
    /\ ppc' = "none"
    /\ vpc' = "deactivated"
    /\ UNCHANGED <<sdk, loop, device, active, inputs, posed, provider,
                   terminated, sessions, past>>

----------------------------------------------------------------------------
(* Cleanup and StopRayneo *)

Cleanup ==
    /\ vpc = "deactivated"
    /\ terminated' = (terminated \/ ppc # "none")
    /\ device' = FALSE
    /\ inputs' = FALSE
    /\ owed' = FALSE
    /\ vpc' = "signal"
    /\ UNCHANGED <<sdk, loop, active, ppc, posed, provider, sessions, told>>

StopSignal ==
    /\ vpc = "signal"
    /\ running' = FALSE
    /\ vpc' = "join"
    /\ UNCHANGED <<sdk, epc, event, sleeping, button, hmd, provider, terminated,
                   sessions, past>>

StopJoin ==
    /\ vpc = "join"
    /\ epc \in {"none", "exited"}
    /\ epc' = "none"
    /\ vpc' = "stop"
    /\ UNCHANGED <<sdk, running, event, sleeping, button, hmd, provider,
                   terminated, sessions, past>>

\* Rayneo_Stop and Rayneo_Destroy.
StopDestroys ==
    /\ vpc = "stop"
    /\ ctx' = FALSE /\ queue' = <<>>
    /\ vpc' = "clear"
    /\ UNCHANGED <<emitted, loop, hmd, provider, terminated, sessions, past>>

Unload ==
    /\ vpc = "clear"
    /\ provider' = FALSE
    /\ vpc' = "unloaded"
    /\ UNCHANGED <<sdk, loop, hmd, terminated, sessions, past>>

----------------------------------------------------------------------------
(* RayneoEventLoop *)

\* A careless loop that only ends with a DETACHED event.
LoopForever ==
    /\ epc = "check"
    /\ epc' = IF ctx THEN "poll" ELSE "leave"
    /\ UNCHANGED <<vpc, sdk, running, event, sleeping, button, hmd, provider,
                   terminated, sessions, past>>

LoopCheck ==
    /\ epc = "check"
    /\ epc' = IF running /\ ctx THEN "poll" ELSE "leave"
    /\ UNCHANGED <<vpc, sdk, running, event, sleeping, button, hmd, provider,
                   terminated, sessions, past>>

\* Rayneo_PollEvent returns an event, or TIMEOUT after half a second.
Poll ==
    /\ epc = "poll" /\ queue # <<>>
    /\ event' = Head(queue) /\ queue' = Tail(queue)
    /\ epc' = "handle"
    /\ UNCHANGED <<vpc, ctx, emitted, running, sleeping, button, hmd, provider,
                   terminated, sessions, past>>
\* A careless loop with a state for time-outs that nothing leaves.
PollTimesOutOddly ==
    /\ epc = "poll" /\ queue = <<>>
    /\ epc' = "timeout"
    /\ UNCHANGED <<vpc, sdk, running, event, sleeping, button, hmd, provider,
                   terminated, sessions, past>>

PollTimesOut ==
    /\ epc = "poll" /\ queue = <<>>
    /\ epc' = "check"
    /\ UNCHANGED <<vpc, sdk, running, event, sleeping, button, hmd, provider,
                   terminated, sessions, past>>

\* Careless handlers: a wake-up that is taken for one only while the device is
\* active; a press that is dropped while the glasses sleep.
HandleWakeIfActive ==
    /\ epc = "handle"
    /\ sleeping' = CASE event = "sleep" -> TRUE
                     [] event = "wake" /\ active -> FALSE
                     [] OTHER -> sleeping
    /\ button' = (button \/ event = "button")
    /\ owed' = (owed \/ (event = "button" /\ inputs))
    /\ epc' = IF event = "detached" THEN "leave" ELSE "check"
    /\ UNCHANGED <<vpc, sdk, running, event, hmd, provider, terminated, sessions, told>>
HandleButtonAwake ==
    /\ epc = "handle"
    /\ sleeping' = CASE event = "sleep" -> TRUE
                     [] event = "wake" -> FALSE
                     [] OTHER -> sleeping
    /\ button' = (button \/ (event = "button" /\ ~sleeping))
    /\ owed' = (owed \/ (event = "button" /\ inputs))
    /\ epc' = IF event = "detached" THEN "leave" ELSE "check"
    /\ UNCHANGED <<vpc, sdk, running, event, hmd, provider, terminated, sessions, told>>

Handle ==
    /\ epc = "handle"
    /\ sleeping' = CASE event = "sleep" -> TRUE
                     [] event = "wake" -> FALSE
                     [] OTHER -> sleeping
    /\ button' = (button \/ event = "button")
    /\ owed' = (owed \/ (event = "button" /\ inputs))
    /\ epc' = IF event = "detached" THEN "leave" ELSE "check"
    /\ UNCHANGED <<vpc, sdk, running, event, hmd, provider, terminated, sessions, told>>

Leave ==
    /\ epc = "leave"
    /\ running' = FALSE
    /\ epc' = "exited"
    /\ UNCHANGED <<vpc, sdk, event, sleeping, button, hmd, provider, terminated,
                   sessions, past>>

----------------------------------------------------------------------------
(* MyPoseUpdateThread *)

PoseCheck ==
    /\ ppc = "check"
    /\ ppc' = IF active THEN "pose" ELSE "exited"
    /\ UNCHANGED <<vpc, sdk, loop, device, active, inputs, posed, provider,
                   terminated, sessions, past>>

\* GetPose asks the provider, if there is one, whether the glasses sleep.
GetPose ==
    /\ ppc = "pose"
    /\ posed' = ~(provider /\ sleeping)
    /\ ppc' = "check"
    /\ UNCHANGED <<vpc, sdk, loop, device, active, inputs, provider, terminated,
                   sessions, past>>

----------------------------------------------------------------------------
(* The glasses, through the SDK *)

\* The sleep or wake notification the queue still holds or the loop has seen.
Notified(q, fallback) ==
    LET Naps == {i \in 1 .. Len(q) : q[i] \in {"sleep", "wake"}}
    IN  IF Naps = {} THEN fallback ELSE q[CHOOSE i \in Naps : \A j \in Naps : j <= i]

\* The newest event is kept; at the limit the oldest one goes, and with it
\* perhaps the only notice of a sleep.
Emit(e) ==
    /\ ctx /\ emitted < MaxEvents
    /\ e = "detached" => emitted = MaxEvents - 1
    /\ emitted' = emitted + 1
    /\ queue' = Append(IF Len(queue) >= MaxQueue THEN Tail(queue) ELSE queue, e)
    /\ told' = IF e \in {"sleep", "wake"} THEN e
               ELSE IF /\ Len(queue) >= MaxQueue
                       /\ Head(queue) \in {"sleep", "wake"}
                       /\ Notified(Tail(queue), "none") = "none"
                 THEN "none" ELSE told
    /\ UNCHANGED <<vpc, ctx, loop, hmd, provider, terminated, sessions, owed>>

----------------------------------------------------------------------------
Server ==
    \/ CreateFails
    \/ Create
    \/ StartRayneoEventThread
    \/ AddDevice
    \/ Activate
    \/ JoinPose
    \/ Cleanup
    \/ StopSignal
    \/ StopJoin
    \/ StopDestroys
    \/ Unload

EventLoop ==
    \/ LoopCheck
    \/ Poll
    \/ PollTimesOut
    \/ Handle
    \/ Leave

PoseLoop == PoseCheck \/ GetPose

\* A driver that is not loaded again.
Finished == vpc = "unloaded" /\ UNCHANGED vars

Next ==
    \/ Load
    \/ Server
    \/ RunFrame
    \/ Deactivate
    \/ EventLoop
    \/ PoseLoop
    \/ \E e \in Events \ {"attached"} : Emit(e)
    \/ Finished

Spec == Init /\ [][Next]_vars

\* The threads run, and vrserver finishes the call it is in.  It need not load
\* or deactivate the driver or run frames, and the glasses need not send.
FairSpec ==
    /\ Spec
    /\ WF_vars(Server) /\ WF_vars(EventLoop) /\ WF_vars(PoseLoop)

----------------------------------------------------------------------------
\* No thread outlives what it uses: the event thread polls a context only while
\* it exists, because StopRayneo joins it before Rayneo_Destroy wherever the loop
\* was; the pose thread reads a device and asks a provider that exist, because
\* Deactivate joins it before Cleanup destroys them.  An unloaded driver holds no
\* thread, no context and no device, and it never got there by destroying or
\* overwriting a joinable thread.
ThreadsAreContained ==
    /\ epc \in {"poll", "handle"} => ctx
    /\ ppc # "none" => device /\ provider
    /\ vpc = "unloaded" =>
        epc = "none" /\ ppc = "none" /\ ~ctx /\ ~device /\ ~provider /\ ~running
    /\ ~terminated

\* A button press that is handled while the inputs exist is clicked, or still
\* pending for the next frame: presses may collapse, the last is not lost
\* between the event thread and vrserver's.
PressIsKept == owed => button

\* When the event thread has caught up, the driver's sleep state is that of the
\* last notification that reached the queue's reader.
SleepFollows ==
    (told # "none" /\ queue = <<>> /\ epc \in {"check", "poll"}) =>
        sleeping = (told = "sleep")

\* Cleanup returns: the event thread ends within one poll, also when the glasses
\* are silent.
CleanupReturns == vpc = "signal" ~> vpc = "unloaded"
=============================================================================
