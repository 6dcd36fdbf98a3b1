-------------------------- MODULE WorkspaceSwitch --------------------------
(***************************************************************************)
(* How the pinned viewport turns head poses into KDE desktops              *)
(* (src/examples/pinned_viewport/main.cpp): the two-workspace mode with    *)
(* its debounce, retry and cooldown on SDL's wrapping millisecond counter, *)
(* the 3x3 grid, the helper process that asks KWin, and the way back to the *)
(* center when the viewer ends.                                            *)
(*                                                                         *)
(* A frame reads the counter and the tracker's orientation once and waits  *)
(* for the helper it starts.  A helper switches and says so ("done"),      *)
(* fails, or is cut short: it is killed, or exits with an error, after     *)
(* KWin has switched ("cut").                                              *)
(***************************************************************************)
EXTENDS ViewerState

VARIABLES
    yaw, pitch,     \* tracker.orientation()
    workspaceSlot,  \* the slot the viewer believes in
    pending,        \* pendingWorkspaceSlot, and pendingWorkspaceSince
    failed,         \* failedWorkspaceSlot, and lastWorkspaceAttempt
    cooldownUntil,  \* workspaceCooldownUntil
    desktop,        \* the desktop KWin shows
    wanted, asked,  \* history: the slot the pose asks for, and for how long
    rested,         \* history: ticks since the last switch
    turned,         \* history: has the head moved since the last switch?
    astray          \* history: may KWin show another desktop, and the viewer
                    \* remember no failed switch?

pose == <<yaw, pitch>>
belief == <<workspaceSlot, pending, failed, cooldownUntil>>
history == <<wanted, asked, rested, turned, astray>>
switch == <<pose, belief, desktop, history>>

EnterAngle == 18
ReturnAngle == 10
None == -1

\* A slot and when it was first wanted, or last tried.  Without a slot the
\* code never reads the time, so the model forgets it.
At(slot, t) == [slot |-> slot, since |-> t]
Nothing == At(None, 0)

Switching == mode \in {"two", "grid"}
Slots == IF mode = "grid" THEN 0 .. 8 ELSE 0 .. 1

\* Every variable has its type.
TypeOK ==
    /\ yaw \in Angles /\ pitch \in Angles
    /\ workspaceSlot \in Slots /\ wanted \in Slots \union {None}
    /\ {pending, failed} \subseteq [slot : Slots, since : Ticks] \union {Nothing}
    /\ cooldownUntil \in Ticks
    /\ desktop \in 1 .. 9
    /\ asked \in 0 .. Debounce /\ rested \in 0 .. Cooldown
    /\ {turned, astray} \subseteq BOOLEAN

\* centerDesktop, unless RAYNEO_KDE_CENTER_DESKTOP says otherwise.
CenterDesktop == IF mode = "grid" THEN 5 ELSE 1

\* The viewer starts without asking KWin where it is.
Init ==
    /\ yaw = 0 /\ pitch = 0
    /\ workspaceSlot = 0
    /\ pending = Nothing /\ failed = Nothing /\ cooldownUntil = 0
    /\ desktop \in IF mode = "two" THEN {1, 2} ELSE {CenterDesktop}
    /\ wanted = None /\ asked = 0 /\ rested = Cooldown
    /\ turned = TRUE
    /\ astray = (desktop # CenterDesktop)

----------------------------------------------------------------------------
Abs(x) == IF x < 0 THEN -x ELSE x

\* Looking right is a negative yaw.
DesiredOfTwo ==
    IF workspaceSlot = 0 /\ yaw <= -EnterAngle THEN 1
    ELSE IF workspaceSlot = 1 /\ yaw > -ReturnAngle THEN 0
    ELSE workspaceSlot

\* The slot a pose selects from the center of the grid.
GridSlot(horizontal, vertical) ==
    LET across == Abs(horizontal) >= EnterAngle
        along == Abs(vertical) >= EnterAngle
    IN  CASE across /\ along /\ horizontal > 0 -> IF vertical > 0 THEN 7 ELSE 5
          [] across /\ along /\ horizontal < 0 -> IF vertical > 0 THEN 8 ELSE 6
          [] across /\ ~along -> IF horizontal > 0 THEN 1 ELSE 2
          [] ~across /\ along -> IF vertical > 0 THEN 4 ELSE 3
          [] ~across /\ ~along -> 0

\* Mutant of DesiredOfGrid: one small angle is enough to go back.
ReturnOnEither ==
    IF workspaceSlot = 0 THEN GridSlot(-yaw, -pitch)
    ELSE IF Abs(yaw) < ReturnAngle \/ Abs(pitch) < ReturnAngle THEN 0
    ELSE workspaceSlot

DesiredOfGrid ==
    IF workspaceSlot = 0 THEN GridSlot(-yaw, -pitch)
    ELSE IF Abs(yaw) < ReturnAngle /\ Abs(pitch) < ReturnAngle THEN 0
    ELSE workspaceSlot

Desired == IF mode = "grid" THEN DesiredOfGrid ELSE DesiredOfTwo

DesktopOffsets == <<0, -1, 1, -3, 3, -4, -2, 2, 4>>
TargetDesktop(slot) ==
    CenterDesktop + IF mode = "grid" THEN DesktopOffsets[slot + 1] ELSE slot

----------------------------------------------------------------------------
\* The SDK events of a frame, or a recentering, leave a new orientation.
Look(y, p) ==
    /\ Switching /\ phase = "frame"
    /\ <<y, p>> # pose /\ (mode = "two" => p = 0)
    /\ yaw' = y /\ pitch' = p
    /\ turned' = TRUE
    /\ UNCHANGED <<viewer, now, belief, desktop,
                   wanted, asked, rested, astray>>

\* Mutant of RetryAllowed: a failed attempt is never repeated.
RetryNever(t) == Desired # failed.slot

\* A failed attempt may be repeated when Retry is over.
RetryAllowed(t) == Desired # failed.slot \/ Elapsed(failed.since, t) >= Retry

\* Only the two-workspace mode debounces.
Pended(t) ==
    IF mode = "grid" \/ Desired = pending.slot THEN pending ELSE At(Desired, t)
StableLongEnough(t) == Elapsed(Pended(t).since, t) >= Debounce
CooldownExpired(t) == t >= cooldownUntil
MaySwitch(t) ==
    /\ RetryAllowed(t)
    /\ mode = "two" => StableLongEnough(t) /\ CooldownExpired(t)

\* The histories of one frame: how long the pose has asked, and time passing.
Asked(lag) == IF Desired = workspaceSlot \/ Desired # wanted THEN 0
              ELSE AtMost(Debounce, asked + lag)
Observe(lag) ==
    /\ wanted' = IF mode = "two" THEN Desired ELSE None
    /\ asked' = Asked(lag)

Wait(lag) ==
    /\ Observe(lag)
    /\ rested' = AtMost(Cooldown, rested + lag)
    /\ UNCHANGED <<pose, workspaceSlot, failed, cooldownUntil, desktop,
                   turned, astray>>

\* Mutant of FrameSettled: the pending slot stays, and with it its time.
FrameSettledKeeps(lag) ==
    /\ Switching /\ Desired = workspaceSlot
    /\ EndFrame(lag) /\ Wait(lag)
    /\ UNCHANGED pending

\* Mutant of FrameSettled: with the pending slot, the failed one is forgotten.
FrameSettledForgets(lag) ==
    /\ Switching /\ Desired = workspaceSlot
    /\ EndFrame(lag) /\ Observe(lag)
    /\ rested' = AtMost(Cooldown, rested + lag)
    /\ pending' = Nothing /\ failed' = Nothing
    /\ UNCHANGED <<pose, workspaceSlot, cooldownUntil, desktop, turned, astray>>

\* Nothing to switch: a pending slot is forgotten.
FrameSettled(lag) ==
    /\ Switching /\ Desired = workspaceSlot
    /\ EndFrame(lag) /\ Wait(lag)
    /\ pending' = Nothing

\* The pose asks for another slot, but it is too early to switch.
FrameWaits(lag) ==
    /\ Switching /\ Desired # workspaceSlot /\ ~MaySwitch(After(lag))
    /\ EndFrame(lag) /\ Wait(lag)
    /\ pending' = Pended(After(lag))

Attempt(lag) ==
    /\ Switching /\ Desired # workspaceSlot /\ MaySwitch(After(lag))
    /\ EndFrame(lag) /\ Observe(lag)
    /\ UNCHANGED pose

\* switchKdeDesktop says that KWin has switched.
FrameSwitches(lag) ==
    /\ Attempt(lag)
    /\ workspaceSlot' = Desired /\ desktop' = TargetDesktop(Desired)
    /\ pending' = Nothing /\ failed' = Nothing
    /\ cooldownUntil' = IF mode = "two" THEN (After(lag) + Cooldown) % TickModulus
                        ELSE cooldownUntil
    /\ rested' = IF mode = "two" THEN 0 ELSE rested
    /\ turned' = FALSE
    /\ astray' = FALSE

\* It says that it failed, whatever KWin has done.  A viewer that is told to stop
\* meanwhile does not remember the failure.
FrameFails(lag, outcome) ==
    /\ Attempt(lag)
    /\ pending' = Pended(After(lag))
    /\ failed' = IF stop THEN failed ELSE At(Desired, After(lag))
    /\ desktop' = IF outcome = "cut" THEN TargetDesktop(Desired) ELSE desktop
    /\ astray' = (astray \/ (outcome = "cut" /\ stop))
    /\ rested' = AtMost(Cooldown, rested + lag)
    /\ UNCHANGED <<workspaceSlot, cooldownUntil, turned>>

\* After the loop: back to the center, whatever the helper answers.
Restore(outcome) ==
    /\ LET back == mode = "two" /\ workspaceSlot # 0
       IN  /\ desktop' = IF back /\ outcome # "failed" THEN CenterDesktop ELSE desktop
           /\ astray' = IF back THEN outcome = "failed" ELSE astray
    /\ UNCHANGED <<pose, belief, wanted, asked, rested, turned>>

----------------------------------------------------------------------------
(* What the switching promises. *)

\* A switch in the two-workspace mode is deliberate: the pose has asked for it
\* for the whole debounce, and the last switch is a cooldown ago.  Only a
\* cooldown that wraps the counter is cut short.
CooldownWrapped == cooldownUntil < Cooldown
SwitchIsDeliberate ==
    [][\A lag \in Lags :
         Attempt(lag) /\ mode = "two" =>
           /\ Asked(lag) >= Debounce
           /\ rested + lag >= Cooldown \/ CooldownWrapped]_<<switch, viewer, now>>

\* A head that rests, at any angle, switches at most once: entering and
\* leaving a slot do not feed each other.
RestSwitchesOnce ==
    [][workspaceSlot' # workspaceSlot => turned]_<<switch, viewer>>

\* A helper may switch and yet report a failure, and the head may turn back before
\* it is tried again.  While KWin shows another desktop than that of the viewer's
\* slot, failedWorkspaceSlot remembers a failure: whatever the frames since then
\* did, a viewer without one is where it believes to be.  A two-workspace viewer
\* that ends in the right slot leaves the center even so.
DesktopIsKnown ==
    LET ended2 == mode = "two" /\ phase = "over"
    IN  ~astray /\ (failed = Nothing \/ (ended2 /\ workspaceSlot # 0)) =>
          desktop = IF ended2 THEN CenterDesktop ELSE TargetDesktop(workspaceSlot)

\* A pose that is held ends in its slot, however often helpers fail before
\* one works, and though the counter wraps: only a cooldown that ends just
\* before the counter wraps may, with a debounce and a retry, block it.
HeldPoseIsReached ==
    (/\ <>[](Switching /\ phase \in LoopPhases
              /\ cooldownUntil + Retry + Debounce < TickModulus)
     /\ <>[][UNCHANGED pose]_pose)
        => <>[](workspaceSlot = Desired)

\* README.md: "Looking right now activates Right".  Leaving the center of the
\* grid with the head turned right (a negative yaw), the viewer asks for a
\* desktop of the right column, 3, 6 or 9.
RightIsRight ==
    [][\A lag \in Lags :
         FrameSwitches(lag) /\ mode = "grid" /\ workspaceSlot = 0 /\ yaw <= -EnterAngle
           => desktop' \in {3, 6, 9}]_<<switch, viewer, now>>
=============================================================================
