------------------------------- MODULE Viewer -------------------------------
(***************************************************************************)
(* The pinned viewport as a whole (main() of                               *)
(* src/examples/pinned_viewport/main.cpp): the start-up that may fail at   *)
(* every step, the loop with its SDL events, its picture and its frame,    *)
(* the two ways to end it, and the teardown.  Each mode drives its part:   *)
(* the demo the head tracker, the portal mode the pointer, the pan mode    *)
(* the live capture, the two workspace modes the desktop switching.        *)
(***************************************************************************)
EXTENDS ViewerState

CONSTANT ModesUsed  \* bound: the modes this instance starts in

ASSUME ModesAssumption == ModesUsed \subseteq Modes

VARIABLES
    holding,  \* what main() has acquired and not given back
    yaw, pitch, workspaceSlot, pending, failed, cooldownUntil, desktop,
    wanted, asked, rested, turned, astray,
    calibrated, calibrationSamples, stillSamples, level, quiet,
    content, capturer, grabbed, mailbox, ready, shown, stored,
    refreshed,
    confinable, haveRegion, relative, region, view, mouse, passthrough,
    chromeActive, dirty, button, suppressing, pictured, echoes, held,
    pointer, down, lost

Switch == INSTANCE WorkspaceSwitch
Tracker == INSTANCE HeadTracker
Live == INSTANCE LiveCapture
Portal == INSTANCE PortalPointer

switch == <<yaw, pitch, workspaceSlot, pending, failed, cooldownUntil, desktop,
            wanted, asked, rested, turned, astray>>
tracker == <<calibrated, calibrationSamples, stillSamples, level, quiet>>
capture == <<content, capturer, grabbed, mailbox, ready, shown,
             stored, refreshed>>
portal == <<confinable, haveRegion, relative, region, view, mouse, passthrough,
            chromeActive, dirty, button, suppressing, pictured, echoes, held, pointer, down, lost>>
parts == <<switch, tracker, capture, portal>>
vars == <<viewer, now, holding, parts>>

\* Every variable has its type.
TypeOK ==
    /\ mode \in Modes /\ phase \in Phases
    /\ {running, stop, ended} \subseteq BOOLEAN
    /\ now \in Ticks
    /\ holding \subseteq {"sdl", "portal", "window", "gl", "sdk"}
    /\ Switch!TypeOK /\ Tracker!TypeOK /\ Live!TypeOK /\ Portal!TypeOK

Init ==
    /\ mode \in ModesUsed /\ phase = "sdl"
    /\ running = TRUE /\ stop = FALSE /\ ended = FALSE
    /\ now \in IF mode \in {"two", "grid"} THEN Ticks ELSE {0}
    /\ holding = {}
    /\ Switch!Init /\ Tracker!Init /\ Live!Init /\ Portal!Init

----------------------------------------------------------------------------
(* The start-up.  A failing step gives back what it names and returns;     *)
(* main()'s own PortalCapture is destroyed by the return, and SDL_Quit     *)
(* gives a confined pointer back.                                          *)

Starts(from, to, got) ==
    /\ phase = from /\ phase' = to
    /\ holding' = holding \union got
    /\ UNCHANGED <<mode, running, stop, ended, now>>

Returns(from, given) ==
    /\ phase = from /\ phase' = "over"
    /\ holding' = holding \ (given \union {"portal"})
    /\ Portal!Release
    /\ UNCHANGED <<mode, running, stop, ended, now, switch, tracker, capture>>

StartSdl == Starts("sdl", "picture", {"sdl"}) /\ UNCHANGED parts

\* SDL fails, or a mode that needs a source monitor has none.
SdlFails == Returns("sdl", {})

\* The portal session with its two streams, or the first picture.
StartPicture ==
    /\ Starts("picture", "window", IF mode = "portal" THEN {"portal"} ELSE {})
    /\ IF mode \in {"demo", "portal"} THEN UNCHANGED capture ELSE Live!FirstPicture
    /\ UNCHANGED <<switch, tracker, portal>>

PictureFails == mode # "demo" /\ Returns("picture", {"sdl"})

OpenWindow ==
    /\ Starts("window", "gl", {"window"})
    /\ Portal!Confine
    /\ UNCHANGED <<switch, tracker, capture>>

WindowFails == Returns("window", {"sdl"})

OpenGl == Starts("gl", "sdk", {"gl"}) /\ UNCHANGED parts
\* Mutant of GlFails: the window is forgotten.
GlFailsLeaky == Returns("gl", {"sdl"})

GlFails == Returns("gl", {"window", "sdl"})

\* The SDK starts, then the capture thread; then comes the loop's first test.
StartSdk ==
    /\ phase = "sdk" /\ phase' = IF stop THEN "join" ELSE "events"
    /\ ended' = stop
    /\ holding' = holding \union {"sdk"}
    /\ Live!Launch
    /\ UNCHANGED <<mode, running, stop, now>>
    /\ UNCHANGED <<switch, tracker, portal>>

SdkFails == Returns("sdk", {"gl", "window", "sdl"})

StartUp ==
    \/ StartSdl \/ SdlFails \/ StartPicture \/ PictureFails
    \/ OpenWindow \/ WindowFails \/ OpenGl \/ GlFails \/ StartSdk \/ SdkFails

----------------------------------------------------------------------------
(* The loop. *)

\* SIGINT or SIGTERM.  Nobody looks at stopRequested after the loop.
Signal ==
    /\ phase \in StartPhases \union LoopPhases /\ ~stop /\ stop' = TRUE
    /\ UNCHANGED <<mode, phase, running, ended, now, holding, parts>>

\* Escape or the window's close button.
Quit ==
    /\ phase = "events" /\ running /\ running' = FALSE
    /\ UNCHANGED <<mode, phase, stop, ended, now, holding, parts>>

\* The SDK reports the glasses detached.
Detached ==
    /\ phase = "frame" /\ running /\ running' = FALSE
    /\ UNCHANGED <<mode, phase, stop, ended, now, holding, parts>>

\* The last SDL event is handled: the loop takes what the thread has stored.
EndEvents ==
    /\ phase = "events" /\ phase' = "frame"
    /\ Live!Take
    /\ UNCHANGED <<mode, running, stop, ended, now, holding, switch, tracker, portal>>

SwitchFrame ==
    /\ \E lag \in Lags :
         \/ Switch!FrameSettled(lag) \/ Switch!FrameWaits(lag)
         \/ \E outcome \in {"failed", "cut"} : Switch!FrameFails(lag, outcome)
    /\ UNCHANGED <<holding, tracker, capture, portal>>

SwitchWorks ==
    /\ \E lag \in Lags : Switch!FrameSwitches(lag)
    /\ UNCHANGED <<holding, tracker, capture, portal>>

HeadTurns ==
    /\ \E y, p \in Angles : Switch!Look(y, p)
    /\ UNCHANGED <<holding, tracker, capture, portal>>

\* The demo and the pan mode only draw; they read no counter.
DrawFrame ==
    /\ mode \in {"demo", "pan"} /\ EndFrame(0)
    /\ UNCHANGED <<holding, parts>>

TrackerSamples ==
    /\ Tracker!Sample
    /\ UNCHANGED <<holding, switch, capture, portal>>

RecenterKey ==
    /\ Tracker!Recenter
    /\ UNCHANGED <<holding, switch, capture, portal>>

RefreshKey ==
    /\ Live!Refresh
    /\ UNCHANGED <<holding, switch, tracker, portal>>

Mouse ==
    /\ \/ Portal!SuppressionEnds
       \/ \E column \in 0 .. Width - 1 :
            \/ \E step \in {-1, 1} :
                 Portal!UserMoves(step, column) \/ Portal!EchoArrives(step, column)
            \/ \E code \in Buttons :
                 Portal!UserPresses(code, column) \/ Portal!UserReleases(code, column)
            \/ Portal!OtherButton(column)
    /\ UNCHANGED <<holding, switch, tracker, capture>>

PortalLooks ==
    /\ Portal!FirstFrame \/ \E column \in Views : Portal!LookAt(column)
    /\ UNCHANGED <<holding, switch, tracker, capture>>

PortalFrame ==
    /\ Portal!PointerFrame
    /\ UNCHANGED <<holding, switch, tracker, capture>>

CaptureThread ==
    /\ Live!CaptureThread
    /\ UNCHANGED <<holding, switch, tracker, portal>>

DesktopChanges ==
    /\ Live!Redraw
    /\ UNCHANGED <<holding, switch, tracker, portal>>

----------------------------------------------------------------------------
(* The teardown. *)

\* The thread is joined, the desktop goes back to the center, then main() gives
\* back everything it holds.
Close ==
    /\ phase = "join" /\ ~Live!CaptureLives
    /\ phase' = "over"
    /\ \E outcome \in {"done", "failed"} : Switch!Restore(outcome)
    /\ holding' = holding \ {"sdk", "portal", "gl", "window", "sdl"}
    /\ Portal!Release
    /\ UNCHANGED <<mode, running, stop, ended, now, tracker, capture>>

----------------------------------------------------------------------------
Main ==
    \/ StartUp \/ EndEvents \/ DrawFrame \/ PortalFrame
    \/ SwitchFrame \/ SwitchWorks \/ Close

Environment ==
    \/ Signal \/ Quit \/ Detached \/ HeadTurns \/ TrackerSamples \/ RecenterKey
    \/ RefreshKey \/ Mouse \/ PortalLooks \/ DesktopChanges

Next == Main \/ CaptureThread \/ Environment

Spec == Init /\ [][Next]_vars

\* main() goes on: the portal answers, spectacle and qdbus6 end.  A helper or a
\* capture that is tried again and again works at last.
FairSpec ==
    /\ Spec
    /\ WF_vars(Main) /\ WF_vars(CaptureThread)
    /\ SF_vars(SwitchWorks)
    /\ SF_vars(CaptureThread /\ capturer = "grab" /\ grabbed' = content)

----------------------------------------------------------------------------
(* What the viewer promises, and what its parts promise within it. *)

\* Whatever step of the start-up fails, and however the loop ends, main()
\* returns with nothing acquired and no thread; the capture thread, which
\* uses main()'s variables, lives only inside the loop and its join.
LeavesNothing ==
    /\ phase = "over" => holding = {}
    /\ Live!CaptureLives => phase \in LoopPhases \union {"join"}

\* A viewer asked to stop, by a signal, a key or the glasses' unplugging, ends.
StoppedViewerExits == (stop \/ ~running) ~> (phase = "over")

PointerIsOwned == Portal!PointerIsOwned
ButtonsAgree == Portal!ButtonsAgree
RestSwitchesOnce == Switch!RestSwitchesOnce
DesktopIsKnown == Switch!DesktopIsKnown
SwitchIsDeliberate == Switch!SwitchIsDeliberate
HeldPoseIsReached == Switch!HeldPoseIsReached
RightIsRight == Switch!RightIsRight
CalibrationIsStill == Tracker!CalibrationIsStill
PictureGoesForward == Live!PictureGoesForward
PictureCatchesUp == Live!PictureCatchesUp
=============================================================================
