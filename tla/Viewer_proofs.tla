---------------------------- MODULE Viewer_proofs ----------------------------
(***************************************************************************)
(* The viewer gives back all it has acquired; its calibrations are still;  *)
(* the pointer has one owner and the buttons agree; the desktop is the one *)
(* the viewer believes in, and is switched deliberately and once; pictures *)
(* go forward.  For any counter, delays, angles and sizes the assumptions  *)
(* allow.                                                                  *)
(***************************************************************************)
EXTENDS Viewer, TLAPS

USE DEF vars, viewer, parts, switch, tracker, capture, portal

----------------------------------------------------------------------------
(* Which steps touch which part *)

\* The steps of the viewer, one disjunct each.
LEMMA Moves ==
    ASSUME [Next]_vars
    PROVE  \/ StartSdl \/ SdlFails \/ StartPicture \/ PictureFails
           \/ OpenWindow \/ WindowFails \/ OpenGl \/ GlFails \/ StartSdk \/ SdkFails
           \/ EndEvents \/ DrawFrame \/ PortalFrame
           \/ SwitchFrame \/ SwitchWorks \/ Close
           \/ CaptureThread
           \/ Signal \/ Quit \/ Detached \/ HeadTurns \/ TrackerSamples \/ RecenterKey
           \/ RefreshKey \/ Mouse \/ PortalLooks \/ DesktopChanges
           \/ UNCHANGED vars
BY DEF Next, Main, StartUp, Environment

\* A failing step of the start-up, whichever it is.
Failing == SdlFails \/ PictureFails \/ WindowFails \/ GlFails \/ SdkFails

\* The steps that touch the switching.
LEMMA SwitchMoves ==
    ASSUME [Next]_vars
    PROVE  SwitchFrame \/ SwitchWorks \/ HeadTurns \/ Close \/ UNCHANGED switch
<1> USE DEF StartSdl, SdlFails, StartPicture, PictureFails, OpenWindow,
            WindowFails, OpenGl, GlFails, StartSdk, SdkFails, Starts, Returns,
            EndEvents, DrawFrame, PortalFrame, CaptureThread, Signal, Quit, Detached,
            TrackerSamples, RecenterKey, RefreshKey, Mouse, PortalLooks, DesktopChanges
<1> QED BY Moves

\* The steps that touch the tracker.
LEMMA TrackerMoves ==
    ASSUME [Next]_vars
    PROVE  TrackerSamples \/ RecenterKey \/ UNCHANGED tracker
<1> USE DEF StartSdl, SdlFails, StartPicture, PictureFails, OpenWindow,
            WindowFails, OpenGl, GlFails, StartSdk, SdkFails, Starts, Returns,
            EndEvents, DrawFrame, PortalFrame, SwitchFrame, SwitchWorks, Close,
            CaptureThread, Signal, Quit, Detached, HeadTurns,
            RefreshKey, Mouse, PortalLooks, DesktopChanges
<1> QED BY Moves

\* The steps that touch the live picture.
LEMMA LiveMoves ==
    ASSUME [Next]_vars
    PROVE  \/ StartPicture \/ StartSdk \/ EndEvents \/ RefreshKey
           \/ CaptureThread \/ DesktopChanges \/ UNCHANGED capture
<1> USE DEF StartSdl, SdlFails, PictureFails, OpenWindow,
            WindowFails, OpenGl, GlFails, SdkFails, Starts, Returns,
            DrawFrame, PortalFrame, SwitchFrame, SwitchWorks, Close,
            Signal, Quit, Detached, HeadTurns, TrackerSamples, RecenterKey,
            Mouse, PortalLooks
<1> QED BY Moves

\* The steps that touch the pointer.
LEMMA PortalMoves ==
    ASSUME [Next]_vars
    PROVE  \/ Failing /\ Portal!Release
           \/ OpenWindow \/ Mouse \/ PortalLooks \/ PortalFrame \/ Close
           \/ UNCHANGED portal
<1> USE DEF Failing, StartSdl, SdlFails, StartPicture, PictureFails,
            WindowFails, OpenGl, GlFails, StartSdk, SdkFails, Starts, Returns,
            EndEvents, DrawFrame, SwitchFrame, SwitchWorks,
            CaptureThread, Signal, Quit, Detached, HeadTurns, TrackerSamples,
            RecenterKey, RefreshKey, DesktopChanges
<1> QED BY Moves
\* The end of an iteration, in whichever mode.
FrameEnds == \E lag \in Nat : EndFrame(lag) /\ holding' = holding

\* The steps that touch what main() itself keeps.
LEMMA MainMoves ==
    ASSUME [Next]_vars
    PROVE  /\ mode' = mode
           /\ \/ StartUp \/ EndEvents \/ FrameEnds \/ Close
              \/ Signal \/ Quit \/ Detached
              \/ UNCHANGED <<viewer, now, holding>>
<1> USE DEF Starts, Returns
<1>1. CASE DrawFrame
  BY <1>1 DEF DrawFrame, FrameEnds, EndFrame
<1>2. CASE PortalFrame
  BY <1>2 DEF PortalFrame, Portal!PointerFrame, Portal!EndFrame, Portal!After,
              FrameEnds, EndFrame, After
<1>3. CASE SwitchFrame \/ SwitchWorks
  <2>1. PICK lag \in Lags : Switch!EndFrame(lag) /\ holding' = holding
    BY <1>3 DEF SwitchFrame, SwitchWorks, Switch!FrameSettled, Switch!FrameWaits,
                Switch!FrameFails, Switch!FrameSwitches, Switch!Attempt,
                Lags, Switch!Lags
  <2> QED BY <2>1, TickAssumption DEF Switch!EndFrame, Switch!After, FrameEnds, EndFrame, After, Lags
<1>4. CASE StartUp
  BY <1>4 DEF StartUp, StartSdl, SdlFails, StartPicture, PictureFails, OpenWindow,
              WindowFails, OpenGl, GlFails, StartSdk, SdkFails
<1>5. CASE EndEvents \/ Close \/ Signal \/ Quit \/ Detached
  BY <1>5 DEF EndEvents, Close, Signal, Quit, Detached
<1>6. CASE HeadTurns \/ TrackerSamples \/ RecenterKey
  BY <1>6 DEF HeadTurns, TrackerSamples, RecenterKey, Switch!Look, Switch!viewer,
              Tracker!Sample, Tracker!Calibrate, Tracker!Update, Tracker!Sampled,
              Tracker!Recenter, Tracker!viewer
<1>7. CASE RefreshKey \/ DesktopChanges \/ CaptureThread
  BY <1>7 DEF RefreshKey, DesktopChanges, CaptureThread, Live!Refresh, Live!Redraw,
              Live!CaptureThread, Live!CaptureCheck, Live!CaptureGrab, Live!CaptureFails,
              Live!CapturePaused, Live!CaptureStore, Live!viewer
<1>8. CASE Mouse
  BY <1>8 DEF Mouse, Portal!SuppressionEnds, Portal!UserMoves, Portal!EchoArrives,
              Portal!UserPresses, Portal!UserReleases, Portal!OtherButton,
              Portal!ButtonEvent, Portal!InEvents, Portal!viewer
<1>9. CASE PortalLooks
  BY <1>9 DEF PortalLooks, Portal!FirstFrame, Portal!LookAt, Portal!viewer
<1> QED BY <1>1, <1>2, <1>3, <1>4, <1>5, <1>6, <1>7, <1>8, <1>9, Moves DEF StartUp
----------------------------------------------------------------------------
(* Type correctness *)

MainOK ==
    /\ mode \in Modes /\ phase \in Phases
    /\ running \in BOOLEAN /\ stop \in BOOLEAN /\ ended \in BOOLEAN
    /\ now \in Ticks
    /\ holding \subseteq {"sdl", "portal", "window", "gl", "sdk"}

\* The type invariant, part by part.
LEMMA Parts ==
    TypeOK <=> /\ MainOK
               /\ Switch!TypeOK /\ Tracker!TypeOK /\ Live!TypeOK /\ Portal!TypeOK
<1>1. {running, stop, ended} \subseteq BOOLEAN <=>
        running \in BOOLEAN /\ stop \in BOOLEAN /\ ended \in BOOLEAN
  BY Zenon
<1> QED BY <1>1, Zenon DEF TypeOK, MainOK

\* Ticks are closed under the passing of time.
LEMMA TicksGoOn ==
    ASSUME now \in Ticks, NEW lag \in Nat
    PROVE  After(lag) \in Ticks
BY TickAssumption DEF After, Ticks

\* A step keeps the types of what main() keeps.
LEMMA MainTyped ==
    ASSUME MainOK, [Next]_vars
    PROVE  MainOK'
<1>1. mode' \in Modes
  BY MainMoves DEF MainOK
<1>2. CASE StartUp
  BY <1>2, <1>1 DEF StartUp, Starts, Returns, StartSdl, SdlFails, StartPicture,
                    PictureFails, OpenWindow, WindowFails, OpenGl, GlFails, StartSdk,
                    SdkFails, MainOK, Phases, StartPhases, LoopPhases
<1>3. CASE FrameEnds
  <2>1. ended' \in BOOLEAN
    BY <1>3, Zenon DEF FrameEnds, EndFrame
  <2>2. PICK lag \in Nat : EndFrame(lag) /\ holding' = holding
    BY <1>3 DEF FrameEnds
  <2>3. now' \in Ticks
    BY <2>2, TicksGoOn DEF EndFrame, MainOK
  <2> QED BY <1>1, <2>1, <2>2, <2>3 DEF EndFrame, MainOK, Phases, LoopPhases
<1>4. CASE EndEvents \/ Close
  BY <1>4, <1>1 DEF EndEvents, Close, MainOK, Phases, LoopPhases
<1>5. CASE Signal \/ Quit \/ Detached
  <2>1. running' \in BOOLEAN /\ stop' \in BOOLEAN
    BY <1>5, Zenon DEF Signal, Quit, Detached, MainOK
  <2> QED BY <1>1, <1>5, <2>1 DEF Signal, Quit, Detached, MainOK
<1>6. CASE UNCHANGED <<viewer, now, holding>>
  BY <1>6 DEF MainOK
<1> QED BY <1>2, <1>3, <1>4, <1>5, <1>6, MainMoves

\* A step keeps the types of the tracker.
LEMMA TrackerTyped ==
    ASSUME Tracker!TypeOK, Tracker!CalibrationIsStill,
           ~calibrated => calibrationSamples < CalibrationLength, [Next]_vars
    PROVE  /\ Tracker!TypeOK' /\ Tracker!CalibrationIsStill'
           /\ (~calibrated => calibrationSamples < CalibrationLength)'
<1> USE DEF Tracker!TypeOK, Tracker!CalibrationIsStill
<1> USE TrackerAssumption
<1>1. CASE RecenterKey
  <2>1. calibrated' = FALSE /\ level' = TRUE /\ calibrationSamples' = 0
        /\ stillSamples' = 0 /\ quiet' = 0
    BY <1>1 DEF RecenterKey, Tracker!Recenter
  <2>2. calibrated' \in BOOLEAN /\ level' \in BOOLEAN
    BY <2>1, Zenon
  <2> QED BY <2>1, <2>2
<1>2. ASSUME NEW speed \in Tracker!Speeds, Tracker!Calibrate(speed)
      PROVE  /\ Tracker!TypeOK' /\ Tracker!CalibrationIsStill'
             /\ (~calibrated => calibrationSamples < CalibrationLength)'
  <2>1. /\ calibrationSamples' \in 0 .. CalibrationLength
        /\ quiet' \in 0 .. CalibrationLength
        /\ calibrationSamples' <= quiet'
    BY <1>2 DEF Tracker!Calibrate, Tracker!Sampled, Tracker!AtMost
  <2>2. calibrated' = (calibrationSamples' >= CalibrationLength)
        /\ ~calibrated /\ UNCHANGED <<stillSamples, level>>
    BY <1>2 DEF Tracker!Calibrate
  <2>3. calibrated' \in BOOLEAN
    BY <2>1, <2>2
  <2>4. calibrated' <=> calibrationSamples' >= CalibrationLength
    BY <2>2
  <2>5. level' /\ stillSamples' = 0 /\ level' \in BOOLEAN
    BY <2>2
  <2>6. Tracker!TypeOK'
    BY <2>1, <2>3, <2>5
  <2>7. Tracker!CalibrationIsStill'
    BY <2>1, <2>4, <2>5
  <2> QED BY <2>1, <2>4, <2>6, <2>7
<1>3. ASSUME NEW speed \in Tracker!Speeds, Tracker!Update(speed)
      PROVE  /\ Tracker!TypeOK' /\ Tracker!CalibrationIsStill'
             /\ (~calibrated => calibrationSamples < CalibrationLength)'
  <2>1. level' \in BOOLEAN
    BY <1>3, Zenon DEF Tracker!Update
  <2> QED BY <1>3, <2>1 DEF Tracker!Update, Tracker!Sampled, Tracker!Still, Tracker!AtMost
<1>4. CASE TrackerSamples
  BY <1>2, <1>3, <1>4 DEF TrackerSamples, Tracker!Sample
<1>5. CASE UNCHANGED tracker
  BY <1>5
<1> QED BY <1>1, <1>4, <1>5, TrackerMoves
\* A step keeps the types of the live picture.
LEMMA LiveTyped ==
    ASSUME Live!TypeOK, [Next]_vars
    PROVE  Live!TypeOK'
<1> USE CaptureAssumption
<1> USE DEF Live!TypeOK, Live!Pictures, Live!None, Live!Misfit
<1>1. CASE StartPicture \/ StartSdk
  BY <1>1 DEF StartPicture, StartSdk, Live!FirstPicture, Live!Launch
<1>2. CASE EndEvents
  <2>1. ready' = FALSE /\ content' = content /\ capturer' = capturer
    BY <1>2 DEF EndEvents, Live!Take
  <2>2. {grabbed', mailbox', shown', stored', refreshed'} \subseteq Live!Pictures
    BY <1>2 DEF EndEvents, Live!Take, Live!Applied
  <2>3. ready' \in BOOLEAN
    BY <2>1, Zenon
  <2> QED BY <2>1, <2>2, <2>3
<1>3. CASE RefreshKey
  <2>1. Live!Taken \subseteq Live!Pictures
    BY DEF Live!Taken
  <2>2. UNCHANGED <<content, capturer, grabbed, mailbox, ready, stored>>
    BY <1>3 DEF RefreshKey, Live!Refresh
  <2>3. PICK picture \in Live!Taken : shown' = Live!Applied(picture) /\ refreshed' = shown'
    BY <1>3 DEF RefreshKey, Live!Refresh
  <2> QED BY <2>1, <2>2, <2>3 DEF Live!Applied
<1>4. CASE CaptureThread
  <2>1. CASE Live!CaptureGrab
    <3>1. grabbed' \in Live!Pictures
      BY <2>1 DEF Live!CaptureGrab, Live!Taken
    <3> QED BY <2>1, <3>1 DEF Live!CaptureGrab
  <2>2. CASE Live!CaptureStore
    <3>1. ready' \in BOOLEAN
      BY <2>2, Zenon DEF Live!CaptureStore
    <3> QED BY <2>2, <3>1 DEF Live!CaptureStore
  <2>3. CASE Live!CaptureCheck \/ Live!CaptureFails \/ Live!CapturePaused
    BY <2>3 DEF Live!CaptureCheck, Live!CaptureFails, Live!CapturePaused
  <2> QED BY <1>4, <2>1, <2>2, <2>3 DEF CaptureThread, Live!CaptureThread
<1>5. CASE DesktopChanges
  BY <1>5 DEF DesktopChanges, Live!Redraw
<1>6. CASE UNCHANGED capture
  BY <1>6
<1> QED BY <1>1, <1>2, <1>3, <1>4, <1>5, <1>6, LiveMoves

\* The slot a pose asks for exists, and so does its desktop.
LEMMA SlotsExist ==
    ASSUME mode \in Modes, Switch!TypeOK
    PROVE  /\ Switch!Desired \in Switch!Slots
           /\ \A slot \in Switch!Slots : Switch!TargetDesktop(slot) \in 1 .. 9
           /\ Switch!CenterDesktop \in 1 .. 9
           /\ Switch!TargetDesktop(0) = Switch!CenterDesktop
<1>1. yaw \in Int /\ pitch \in Int
  BY SwitchAssumption DEF Switch!TypeOK
<1>2. ASSUME NEW h \in Int, NEW v \in Int
      PROVE  Switch!GridSlot(h, v) \in 0 .. 8
  BY <1>2 DEF Switch!GridSlot, Switch!Abs, Switch!EnterAngle
<1>3. Switch!Desired \in Switch!Slots
  <2>1. Switch!GridSlot(-yaw, -pitch) \in 0 .. 8
    BY <1>1, <1>2
  <2> QED BY <2>1 DEF Switch!Desired, Switch!DesiredOfGrid, Switch!DesiredOfTwo,
                      Switch!Slots, Switch!TypeOK
<1>4. \A slot \in Switch!Slots : Switch!TargetDesktop(slot) \in 1 .. 9
  BY DEF Switch!TargetDesktop, Switch!CenterDesktop, Switch!DesktopOffsets, Switch!Slots
<1> QED BY <1>3, <1>4 DEF Switch!TargetDesktop, Switch!CenterDesktop,
                          Switch!DesktopOffsets
\* What the pieces of a frame of the switching leave.
LEMMA SwitchPieces ==
    ASSUME mode \in Modes, now \in Ticks, Switch!TypeOK, NEW lag \in Lags
    PROVE  /\ After(lag) \in Ticks /\ Switch!After(lag) = After(lag)
           /\ Switch!Pended(After(lag)) \in
                [slot : Switch!Slots, since : Ticks] \union {Switch!Nothing}
           /\ Switch!At(Switch!Desired, After(lag)) \in
                [slot : Switch!Slots, since : Ticks]
           /\ Switch!Asked(lag) \in 0 .. Debounce
           /\ Switch!AtMost(Cooldown, rested + lag) \in 0 .. Cooldown
<1> USE TickAssumption, SwitchAssumption
<1>1. lag \in Nat
  BY DEF Lags
<1>2. After(lag) \in Ticks /\ Switch!After(lag) = After(lag)
  BY <1>1, TicksGoOn DEF Switch!After, After
<1>3. Switch!At(Switch!Desired, After(lag)) \in [slot : Switch!Slots, since : Ticks]
  BY <1>2, SlotsExist DEF Switch!At
<1>4. Switch!Pended(After(lag)) \in
        [slot : Switch!Slots, since : Ticks] \union {Switch!Nothing}
  BY <1>3 DEF Switch!Pended, Switch!TypeOK, Switch!Ticks, Ticks
<1>5. Switch!Asked(lag) \in 0 .. Debounce
  BY <1>1 DEF Switch!Asked, Switch!AtMost, Switch!TypeOK
<1>6. Switch!AtMost(Cooldown, rested + lag) \in 0 .. Cooldown
  BY <1>1 DEF Switch!AtMost, Switch!TypeOK
<1> QED BY <1>2, <1>3, <1>4, <1>5, <1>6

\* A step keeps the types of the switching.
LEMMA SwitchTyped ==
    ASSUME MainOK, Switch!TypeOK, [Next]_vars
    PROVE  Switch!TypeOK'
<1> USE TickAssumption, SwitchAssumption
<1> DEFINE Waits == [slot : Switch!Slots, since : Ticks] \union {Switch!Nothing}
<1>0. /\ mode' = mode /\ mode \in Modes /\ now \in Ticks
      /\ Switch!Slots' = Switch!Slots /\ Switch!Ticks = Ticks /\ Switch!Lags = Lags
  BY MainMoves DEF MainOK, Switch!Slots, Switch!Ticks, Ticks, Switch!Lags, Lags
<1>1. /\ yaw \in Angles /\ pitch \in Angles
      /\ workspaceSlot \in Switch!Slots /\ wanted \in Switch!Slots \union {Switch!None}
      /\ pending \in Waits /\ failed \in Waits
      /\ cooldownUntil \in Ticks /\ desktop \in 1 .. 9
      /\ asked \in 0 .. Debounce /\ rested \in 0 .. Cooldown
  BY <1>0 DEF Switch!TypeOK
<1>2. turned \in BOOLEAN /\ astray \in BOOLEAN
  BY Zenon DEF Switch!TypeOK
<1> DEFINE Typed ==
       /\ yaw' \in Angles /\ pitch' \in Angles
       /\ workspaceSlot' \in Switch!Slots
       /\ wanted' \in Switch!Slots \union {Switch!None}
       /\ pending' \in Waits /\ failed' \in Waits
       /\ cooldownUntil' \in Ticks /\ desktop' \in 1 .. 9
       /\ asked' \in 0 .. Debounce /\ rested' \in 0 .. Cooldown
       /\ turned' \in BOOLEAN /\ astray' \in BOOLEAN
<1>3. Typed => Switch!TypeOK'
  <2> SUFFICES ASSUME Typed PROVE Switch!TypeOK'
    OBVIOUS
  <2>1. {turned', astray'} \subseteq BOOLEAN
    BY Zenon
  <2>2. {pending', failed'} \subseteq
          ([slot : Switch!Slots, since : Switch!Ticks] \union {Switch!Nothing})'
    BY <1>0 DEF Switch!Ticks, Switch!Nothing, Switch!At, Switch!None
  <2> QED BY <1>0, <2>1, <2>2 DEF Switch!TypeOK, Switch!None, Switch!Ticks, Ticks
<1>4. Switch!Desired \in Switch!Slots /\ Switch!TargetDesktop(Switch!Desired) \in 1 .. 9
      /\ Switch!CenterDesktop \in 1 .. 9
  BY <1>0, SlotsExist
<1>5. Switch!Nothing \in Waits
  OBVIOUS
<1>6. ASSUME NEW lag \in Lags, Switch!FrameSettled(lag) \/ Switch!FrameWaits(lag)
      PROVE  Typed
  <2>1. UNCHANGED <<yaw, pitch, workspaceSlot, failed, cooldownUntil, desktop,
                    turned, astray>>
    BY <1>6 DEF Switch!FrameSettled, Switch!FrameWaits, Switch!Wait, Switch!pose
  <2>2. wanted' \in {Switch!Desired, Switch!None} /\ asked' = Switch!Asked(lag)
        /\ rested' = Switch!AtMost(Cooldown, rested + lag)
        /\ pending' \in {Switch!Nothing, Switch!Pended(Switch!After(lag))}
    BY <1>6 DEF Switch!FrameSettled, Switch!FrameWaits, Switch!Wait, Switch!Observe
  <2> QED BY <1>0, <1>1, <1>2, <1>4, <1>5, <2>1, <2>2, SwitchPieces
<1>7. ASSUME NEW lag \in Lags, NEW outcome, Switch!FrameFails(lag, outcome)
      PROVE  Typed
  <2>1. UNCHANGED <<yaw, pitch, workspaceSlot, cooldownUntil, turned>>
        /\ desktop' \in {desktop, Switch!TargetDesktop(Switch!Desired)}
    BY <1>7 DEF Switch!FrameFails, Switch!Attempt, Switch!pose
  <2>2. wanted' \in {Switch!Desired, Switch!None} /\ asked' = Switch!Asked(lag)
        /\ rested' = Switch!AtMost(Cooldown, rested + lag)
        /\ pending' = Switch!Pended(Switch!After(lag))
        /\ failed' \in {failed, Switch!At(Switch!Desired, Switch!After(lag))}
    BY <1>7 DEF Switch!FrameFails, Switch!Attempt, Switch!Observe
  <2>3. astray' \in BOOLEAN
    BY <1>7, Zenon DEF Switch!FrameFails
  <2> QED BY <1>0, <1>1, <1>2, <1>4, <1>5, <2>1, <2>2, <2>3, SwitchPieces
<1>8. ASSUME NEW lag \in Lags, Switch!FrameSwitches(lag)
      PROVE  Typed
  <2>1. UNCHANGED <<yaw, pitch>>
        /\ desktop' = Switch!TargetDesktop(Switch!Desired)
        /\ workspaceSlot' = Switch!Desired
        /\ pending' = Switch!Nothing /\ failed' = Switch!Nothing
    BY <1>8 DEF Switch!FrameSwitches, Switch!Attempt, Switch!pose
  <2>2. wanted' \in {Switch!Desired, Switch!None} /\ asked' = Switch!Asked(lag)
        /\ rested' \in {0, rested}
        /\ cooldownUntil' \in
             {cooldownUntil, (Switch!After(lag) + Cooldown) % TickModulus}
    BY <1>8 DEF Switch!FrameSwitches, Switch!Attempt, Switch!Observe
  <2>3. turned' \in BOOLEAN /\ astray' \in BOOLEAN
    BY <1>8, Zenon DEF Switch!FrameSwitches
  <2>4. cooldownUntil' \in Ticks
    BY <1>0, <1>1, <2>2, SwitchPieces DEF Ticks
  <2> QED BY <1>0, <1>1, <1>2, <1>4, <1>5, <2>1, <2>2, <2>3, <2>4, SwitchPieces
<1>9. ASSUME HeadTurns PROVE Typed
  <2>1. turned' \in BOOLEAN
    BY <1>9, Zenon DEF HeadTurns, Switch!Look
  <2> QED BY <1>1, <1>2, <1>9, <2>1 DEF HeadTurns, Switch!Look, Switch!belief
<1>10. ASSUME Close PROVE Typed
  <2>1. PICK outcome \in {"done", "failed"} : Switch!Restore(outcome)
    BY <1>10 DEF Close
  <2>2. astray' \in BOOLEAN
    BY <2>1, <1>2 DEF Switch!Restore
  <2> QED BY <1>1, <1>2, <1>4, <2>1, <2>2 DEF Switch!Restore, Switch!belief, Switch!pose
<1>11. ASSUME UNCHANGED switch PROVE Typed
  BY <1>1, <1>2, <1>11
<1>12. ASSUME SwitchFrame \/ SwitchWorks PROVE Typed
  BY <1>6, <1>7, <1>8, <1>12 DEF SwitchFrame, SwitchWorks
<1> QED BY <1>3, <1>9, <1>10, <1>11, <1>12, SwitchMoves
PortalFlags ==
    /\ confinable \in BOOLEAN /\ haveRegion \in BOOLEAN /\ relative \in BOOLEAN
    /\ passthrough \in BOOLEAN /\ chromeActive \in BOOLEAN /\ dirty \in BOOLEAN
    /\ suppressing \in BOOLEAN /\ pictured \in BOOLEAN /\ echoes \in BOOLEAN

\* A pending button is a real one, or there is none.
PortalPlaces ==
    /\ region \in {"whole", "strip"}
    /\ view \in 0 .. 2 * Width /\ mouse \in 0 .. Width - 1
    /\ button \in [code : Buttons, pressed : BOOLEAN] \union {Portal!NoButton}
    /\ held \subseteq Buttons /\ down \subseteq Buttons /\ lost \subseteq Buttons
    /\ pointer \in Portal!Columns \union {Portal!None}

\* The pointer's types, flags and places apart.
LEMMA PortalParts == PortalFlags /\ PortalPlaces => Portal!TypeOK
<1>1. {confinable, haveRegion, relative, passthrough, chromeActive, dirty,
       suppressing, pictured, echoes} \subseteq BOOLEAN <=> PortalFlags
  BY Zenon DEF PortalFlags
<1>2. PortalPlaces => button \in [code : Buttons \union {"none"}, pressed : BOOLEAN]
  <2>1. [code : Buttons, pressed : BOOLEAN]
          \subseteq [code : Buttons \union {"none"}, pressed : BOOLEAN]
    OBVIOUS
  <2>2. [code |-> "none", pressed |-> FALSE]
          \in [code : Buttons \union {"none"}, pressed : BOOLEAN]
    OBVIOUS
  <2> QED BY <2>1, <2>2 DEF PortalPlaces, Portal!NoButton
<1> QED BY <1>1, <1>2, Zenon DEF Portal!TypeOK, PortalPlaces

\* The mouse events and the frames of the pointer.
LEMMA MouseMoves ==
    ASSUME Mouse
    PROVE  \/ Portal!SuppressionEnds
           \/ \E column \in 0 .. Width - 1 :
                \/ \E step \in {-1, 1} :
                     Portal!UserMoves(step, column) \/ Portal!EchoArrives(step, column)
                \/ \E code \in Buttons : \/ Portal!UserPresses(code, column)
                                        \/ Portal!UserReleases(code, column)
                \/ Portal!OtherButton(column)
BY DEF Mouse

\* A step keeps the types of the pointer's flags.
LEMMA FlagsTyped ==
    ASSUME PortalFlags, [Next]_vars
    PROVE  PortalFlags'
<1> USE DEF PortalFlags
<1>1. CASE Portal!Release
  BY <1>1, Zenon DEF Portal!Release
<1>2. CASE OpenWindow
  BY <1>2, Zenon DEF OpenWindow, Portal!Confine
<1>3. CASE Portal!SuppressionEnds
  BY <1>3, Zenon DEF Portal!SuppressionEnds
<1>4. ASSUME NEW step, NEW column, Portal!Moved(step, column) \/ Portal!Unmoved
      PROVE  /\ relative' \in BOOLEAN /\ passthrough' \in BOOLEAN
             /\ chromeActive' \in BOOLEAN /\ dirty' \in BOOLEAN
  BY <1>4 DEF Portal!Moved, Portal!Unmoved
<1>5. ASSUME NEW step, NEW column,
             Portal!UserMoves(step, column) \/ Portal!EchoArrives(step, column)
      PROVE  PortalFlags'
  <2>1. Portal!Moved(step, column) \/ Portal!Unmoved
    BY <1>5 DEF Portal!UserMoves, Portal!EchoArrives
  <2>2. echoes' \in BOOLEAN
    BY <1>5, Zenon DEF Portal!UserMoves, Portal!EchoArrives
  <2> QED BY <1>4, <1>5, <2>1, <2>2
             DEF Portal!UserMoves, Portal!EchoArrives, Portal!InEvents
<1>6. ASSUME NEW code, NEW pressed, NEW column, Portal!ButtonEvent(code, pressed, column)
      PROVE  PortalFlags'
  <2>1. dirty' \in BOOLEAN
    BY <1>6, Zenon DEF Portal!ButtonEvent
  <2>2. /\ confinable' = confinable /\ haveRegion' = haveRegion
        /\ relative' = relative /\ passthrough' = passthrough
        /\ chromeActive' = chromeActive /\ suppressing' = suppressing
        /\ pictured' = pictured /\ echoes' = echoes
    BY <1>6 DEF Portal!ButtonEvent, Portal!InEvents
  <2> QED BY <2>1, <2>2
<1>7. CASE PortalLooks
  <2>1. pictured' \in {TRUE, pictured}
    BY <1>7 DEF PortalLooks, Portal!FirstFrame, Portal!LookAt
  <2> QED BY <1>7, <2>1 DEF PortalLooks, Portal!FirstFrame, Portal!LookAt
<1>8. CASE PortalFrame
  <2>1. passthrough' \in BOOLEAN /\ chromeActive' \in BOOLEAN /\ relative' \in BOOLEAN
    <3>1. passthrough' \in BOOLEAN
      BY <1>8, Zenon DEF PortalFrame, Portal!PointerFrame, Portal!SwitchPassthrough
    <3>2. chromeActive' \in BOOLEAN
      BY <1>8, Zenon DEF PortalFrame, Portal!PointerFrame, Portal!SwitchPassthrough,
                         Portal!OnChrome
    <3>3. relative' \in {FALSE, confinable, relative}
      BY <1>8, Zenon DEF PortalFrame, Portal!PointerFrame, Portal!SwitchPassthrough
    <3> QED BY <3>1, <3>2, <3>3
  <2>2. suppressing' \in {TRUE, suppressing} /\ echoes' \in {TRUE, echoes}
    BY <1>8 DEF PortalFrame, Portal!PointerFrame
  <2>3. dirty' \in BOOLEAN
    BY <1>8, Zenon DEF PortalFrame, Portal!PointerFrame
  <2>4. UNCHANGED <<confinable, haveRegion, pictured>>
    BY <1>8 DEF PortalFrame, Portal!PointerFrame
  <2> QED BY <2>1, <2>2, <2>3, <2>4
<1>9. CASE UNCHANGED portal
  BY <1>9
<1>10. CASE Mouse
  BY <1>3, <1>5, <1>6, <1>10, MouseMoves
     DEF Portal!UserPresses, Portal!UserReleases, Portal!OtherButton
<1> QED BY <1>1, <1>2, <1>7, <1>8, <1>9, <1>10, PortalMoves DEF Close
\* A step keeps the types of the pointer's places.
LEMMA PlacesTyped ==
    ASSUME PortalPlaces, [Next]_vars
    PROVE  PortalPlaces'
<1> USE PointerAssumption
<1> USE DEF PortalPlaces
<1>1. CASE Portal!Release
  BY <1>1 DEF Portal!Release
<1>2. CASE OpenWindow
  BY <1>2 DEF OpenWindow, Portal!Confine, Portal!desk
<1>3. CASE Portal!SuppressionEnds
  BY <1>3 DEF Portal!SuppressionEnds, Portal!desk
<1>4. ASSUME NEW step \in {-1, 1}, NEW column \in 0 .. Width - 1,
             Portal!UserMoves(step, column) \/ Portal!EchoArrives(step, column)
      PROVE  PortalPlaces'
  <2>1. Portal!Moved(step, column) \/ Portal!Unmoved
    BY <1>4 DEF Portal!UserMoves, Portal!EchoArrives
  <2>2. mouse' \in 0 .. Width - 1 /\ region' \in {"whole", "strip"}
    BY <2>1 DEF Portal!Moved, Portal!Unmoved, Portal!Clamped, Portal!AtMost
  <2>3. UNCHANGED <<view, button, held, pointer, down, lost>>
    BY <1>4 DEF Portal!UserMoves, Portal!EchoArrives, Portal!InEvents, Portal!desk
  <2> QED BY <2>2, <2>3
<1>5. ASSUME NEW code \in Buttons \union {"other"}, NEW pressed \in BOOLEAN,
             NEW column \in 0 .. Width - 1,
             Portal!ButtonEvent(code, pressed, column), down' \subseteq Buttons
      PROVE  PortalPlaces'
  <2>1. mouse' \in 0 .. Width - 1 /\ UNCHANGED <<region, view, held, pointer>>
    BY <1>5 DEF Portal!ButtonEvent, Portal!InEvents, Portal!desk
  <2>2. button' \in [code : Buttons, pressed : BOOLEAN] \union {Portal!NoButton}
    BY <1>5 DEF Portal!ButtonEvent, Portal!NoButton
  <2>3. lost' \subseteq Buttons
    BY <1>5 DEF Portal!ButtonEvent, Portal!Pending
  <2> QED BY <1>5, <2>1, <2>2, <2>3
<1>6. CASE PortalLooks
  <2>1. view' \in 0 .. 2 * Width
    BY <1>6 DEF PortalLooks, Portal!FirstFrame, Portal!LookAt
  <2> QED BY <1>6, <2>1 DEF PortalLooks, Portal!FirstFrame, Portal!LookAt, Portal!desk
<1>7. CASE PortalFrame
  <2>1. region' \in {"whole", "strip"} /\ UNCHANGED <<view, mouse, down>>
    BY <1>7 DEF PortalFrame, Portal!PointerFrame, Portal!SwitchPassthrough
  <2>2. pointer' \in {Portal!Place, pointer}
    BY <1>7 DEF PortalFrame, Portal!PointerFrame
  <2>3. Portal!Place \in Portal!Columns
    BY DEF Portal!Place, Portal!Columns
  <2>4. button' = Portal!NoButton
        /\ held' \in {held, held \union {button.code}, held \ {button.code}}
        /\ (held' # held => button # Portal!NoButton)
    BY <1>7 DEF PortalFrame, Portal!PointerFrame, Portal!Forwards
  <2>5. lost' \subseteq Buttons
    BY <1>7 DEF PortalFrame, Portal!PointerFrame, Portal!Pending
  <2> QED BY <2>1, <2>2, <2>3, <2>4, <2>5
<1>8. CASE UNCHANGED portal
  BY <1>8
<1>9. CASE Mouse
  BY <1>3, <1>4, <1>5, <1>9, MouseMoves
     DEF Portal!UserPresses, Portal!UserReleases, Portal!OtherButton
<1> QED BY <1>1, <1>2, <1>6, <1>7, <1>8, <1>9, PortalMoves DEF Close
----------------------------------------------------------------------------
(* Every type, and the calibration that needs the head still *)

Typed ==
    /\ MainOK /\ Switch!TypeOK /\ Tracker!TypeOK /\ Live!TypeOK
    /\ PortalFlags /\ PortalPlaces

\* An unfinished calibration has samples to go.
StillInv ==
    /\ Tracker!CalibrationIsStill
    /\ ~calibrated => calibrationSamples < CalibrationLength

\* The viewer starts with its types, uncalibrated.
LEMMA InitTyped ==
    ASSUME Init
    PROVE  Typed /\ StillInv
<1> USE TickAssumption, SwitchAssumption, TrackerAssumption, CaptureAssumption,
        PointerAssumption, ModesAssumption
<1>1. MainOK
  <2>1. running \in BOOLEAN /\ stop \in BOOLEAN /\ ended \in BOOLEAN
    BY Zenon DEF Init
  <2>2. mode \in Modes /\ now \in Ticks
    BY DEF Init, Ticks
  <2> QED BY <2>1, <2>2 DEF Init, MainOK, Phases, StartPhases
<1>2. Switch!TypeOK
  <2>1. {turned, astray} \subseteq BOOLEAN
    BY Zenon DEF Init, Switch!Init
  <2>2. desktop \in 1 .. 9
    BY DEF Init, Switch!Init, Switch!CenterDesktop
  <2>3. yaw \in Angles /\ pitch \in Angles /\ cooldownUntil \in Switch!Ticks
        /\ asked \in 0 .. Debounce /\ rested \in 0 .. Cooldown
    BY DEF Init, Switch!Init, Switch!Ticks
  <2>4. workspaceSlot \in Switch!Slots /\ wanted \in Switch!Slots \union {Switch!None}
        /\ {pending, failed} \subseteq
             [slot : Switch!Slots, since : Switch!Ticks] \union {Switch!Nothing}
    BY DEF Init, Switch!Init, Switch!Slots
  <2> QED BY <2>1, <2>2, <2>3, <2>4 DEF Switch!TypeOK
<1>3. Tracker!TypeOK /\ StillInv
  <2>1. calibrated \in BOOLEAN /\ level \in BOOLEAN
    BY Zenon DEF Init, Tracker!Init
  <2> QED BY <2>1 DEF Init, Tracker!Init, Tracker!TypeOK, StillInv,
                      Tracker!CalibrationIsStill
<1>4. Live!TypeOK
  <2>1. ready \in BOOLEAN
    BY Zenon DEF Init, Live!Init
  <2> QED BY <2>1 DEF Init, Live!Init, Live!TypeOK, Live!Pictures, Live!None
<1>5. PortalFlags
  BY Zenon DEF Init, Portal!Init, PortalFlags, Portal!Pointing
<1>6. PortalPlaces
  BY DEF Init, Portal!Init, PortalPlaces
<1> QED BY <1>1, <1>2, <1>3, <1>4, <1>5, <1>6 DEF Typed

\* Every state has its types, and its calibration.
LEMMA AlwaysTyped == Spec => [](Typed /\ StillInv)
<1>1. Typed /\ StillInv /\ [Next]_vars => Typed' /\ StillInv'
  BY MainTyped, SwitchTyped, TrackerTyped, LiveTyped, FlagsTyped, PlacesTyped
     DEF Typed, StillInv
<1> QED BY <1>1, InitTyped, PTL DEF Spec

\* Every variable of main() and of its parts keeps its type.
THEOREM TypeCorrect == Spec => []TypeOK
<1>1. Typed => TypeOK
  BY Parts, PortalParts DEF Typed
<1> QED BY <1>1, AlwaysTyped, PTL

\* The tracker moves the view only after one unbroken run of still samples.
THEOREM CalibratedAtRest == Spec => []CalibrationIsStill
<1>1. StillInv => CalibrationIsStill
  BY DEF StillInv, CalibrationIsStill
<1> QED BY <1>1, AlwaysTyped, PTL

----------------------------------------------------------------------------
(* Nothing is left behind *)

\* What main() may hold at each step of its start-up.
Acquired ==
    CASE phase = "sdl" -> {}
      [] phase = "picture" -> {"sdl"}
      [] phase = "window" -> {"sdl", "portal"}
      [] phase = "gl" -> {"sdl", "portal", "window"}
      [] phase = "sdk" -> {"sdl", "portal", "window", "gl"}
      [] phase \in {"events", "frame", "join"} -> {"sdl", "portal", "window", "gl", "sdk"}
      [] phase = "over" -> {}

HeldInv ==
    /\ holding \subseteq Acquired
    /\ Live!CaptureLives => phase \in LoopPhases \union {"join"}

\* A step acquires and gives back in step with the phase.
LEMMA HeldStep ==
    ASSUME Typed, HeldInv, [Next]_vars
    PROVE  HeldInv'
<1> USE DEF HeldInv, Acquired
<1>1. holding' \subseteq Acquired'
  <2>1. CASE StartUp
    BY <2>1 DEF StartUp, Starts, Returns, StartSdl, SdlFails, StartPicture,
                PictureFails, OpenWindow, WindowFails, OpenGl, GlFails, StartSdk, SdkFails
  <2>2. CASE FrameEnds
    BY <2>2 DEF FrameEnds, EndFrame
  <2>3. CASE EndEvents
    BY <2>3 DEF EndEvents
  <2>4. CASE Close
    BY <2>4 DEF Close
  <2>5. CASE UNCHANGED <<phase, holding>>
    BY <2>5
  <2>6. Signal \/ Quit \/ Detached => UNCHANGED <<phase, holding>>
    BY DEF Signal, Quit, Detached
  <2> QED BY <2>1, <2>2, <2>3, <2>4, <2>5, <2>6, MainMoves
<1>2. (Live!CaptureLives => phase \in LoopPhases \union {"join"})'
  <2> USE DEF Live!CaptureLives, LoopPhases
  <2>1. CASE StartSdk
    BY <2>1 DEF StartSdk
  <2>2. CASE EndEvents
    BY <2>2 DEF EndEvents
  <2>3. CASE Close
    BY <2>3 DEF Close
  <2>4. CASE FrameEnds /\ UNCHANGED capturer
    BY <2>4 DEF FrameEnds, EndFrame
  <2>5. CASE CaptureThread
    BY <2>5 DEF CaptureThread, Live!CaptureThread, Live!CaptureCheck,
                Live!CaptureGrab, Live!CaptureFails, Live!CapturePaused,
                Live!CaptureStore, Live!viewer
  <2>6. CASE UNCHANGED <<phase, capturer>>
    BY <2>6
  <2>7. CASE StartUp /\ ~StartSdk
    <3>1. phase \notin LoopPhases \union {"join"} /\ capturer' = capturer
      BY <2>7 DEF StartUp, Starts, Returns, StartSdl, SdlFails, StartPicture,
                  PictureFails, OpenWindow, WindowFails, OpenGl, GlFails, SdkFails,
                  Live!FirstPicture
    <3> QED BY <3>1
  <2>8. Signal \/ Quit \/ Detached => UNCHANGED <<phase, capturer>>
    BY DEF Signal, Quit, Detached
  <2>9. RefreshKey \/ DesktopChanges => UNCHANGED <<phase, capturer>>
    BY DEF RefreshKey, DesktopChanges, Live!Refresh, Live!Redraw, Live!viewer
  <2>10. StartPicture => StartUp /\ ~StartSdk
    BY DEF StartPicture, StartUp, StartSdk, Starts
  <2>11. UNCHANGED capture => UNCHANGED capturer
    OBVIOUS
  <2> QED BY <2>1, <2>2, <2>3, <2>4, <2>5, <2>6, <2>7, <2>8, <2>9, <2>10, <2>11,
             MainMoves, LiveMoves
<1> QED BY <1>1, <1>2

\* Whatever step of the start-up fails and however the loop ends, main() returns
\* with nothing acquired, and the capture thread never outlives the loop's join.
THEOREM NothingLeftBehind == Spec => []LeavesNothing
<1>1. Init => HeldInv
  BY DEF Init, Live!Init, HeldInv, Acquired, Live!CaptureLives
<1>2. Typed /\ HeldInv /\ [Next]_vars => HeldInv'
  BY HeldStep
<1>3. HeldInv => LeavesNothing
  BY DEF HeldInv, Acquired, LeavesNothing
<1> QED BY <1>1, <1>2, <1>3, AlwaysTyped, PTL DEF Spec
----------------------------------------------------------------------------
(* Who has the pointer, and the buttons *)

\* The strip, the passthrough and the confinement agree in the loop, as in
\* PointerIsOwned; before it the pointer is the desktop's, then confined.
OwnInv ==
    /\ phase \in StartPhases => ~passthrough /\ region = "whole"
    /\ phase \in {"sdl", "picture", "window"} => ~relative
    /\ phase \in {"gl", "sdk", "events", "frame", "join"} =>
         (relative <=> mode = "portal" /\ confinable /\ ~passthrough)
    /\ phase \in {"events", "frame", "join"} =>
         /\ passthrough <=> region = "strip"
         /\ passthrough => haveRegion /\ chromeActive
    /\ phase = "over" => region = "whole" /\ ~relative /\ held = {}

\* What the desktop will hold when the pending button has been passed on.
Settled == IF button = Portal!NoButton THEN held
           ELSE IF button.pressed THEN held \union {button.code}
           ELSE held \ {button.code}

ButtonInv ==
    phase # "over" => \A code \in Buttons \ lost : code \in Settled <=> code \in down

\* The steps that leave the pointer and its buttons alone.
LEMMA PointerRests ==
    ASSUME Typed, OwnInv, ButtonInv, [Next]_vars, UNCHANGED portal
    PROVE  OpenWindow \/ Failing \/ Close \/ (OwnInv' /\ ButtonInv')
<1>1. Settled' = Settled
  BY DEF Settled
<1>2. mode' = mode
  BY MainMoves
<1>3. CASE StartSdl \/ StartPicture \/ OpenGl \/ StartSdk
  BY <1>1, <1>2, <1>3 DEF StartSdl, StartPicture, OpenGl, StartSdk, Starts, OwnInv,
                          ButtonInv, StartPhases
<1>4. CASE EndEvents \/ FrameEnds
  BY <1>1, <1>2, <1>4 DEF EndEvents, FrameEnds, EndFrame, OwnInv, ButtonInv, StartPhases
<1>5. CASE UNCHANGED phase
  BY <1>1, <1>2, <1>5 DEF OwnInv, ButtonInv
<1>6. Signal \/ Quit \/ Detached => UNCHANGED phase
  BY DEF Signal, Quit, Detached
<1>7. StartUp => \/ StartSdl \/ StartPicture \/ OpenGl \/ StartSdk
                 \/ OpenWindow \/ Failing
  BY DEF StartUp, Failing
<1> QED BY <1>3, <1>4, <1>5, <1>6, <1>7, MainMoves

\* A frame keeps the pointer's records agreeing, and passes its button on.
LEMMA PointerFrames ==
    ASSUME Typed, OwnInv, ButtonInv, PortalFrame
    PROVE  OwnInv' /\ ButtonInv'
<1>1. /\ phase = "frame" /\ phase' \in {"events", "join"}
      /\ mode = "portal" /\ mode' = mode
  BY DEF PortalFrame, Portal!PointerFrame, Portal!EndFrame, Portal!Pointing
<1>2. UNCHANGED <<confinable, haveRegion, down>>
  BY DEF PortalFrame, Portal!PointerFrame
<1>3. PortalFlags
  BY DEF Typed
<1>4. OwnInv'
  <2> DEFINE E == Portal!Enters
             L == Portal!Leaves
             C == Portal!OnChrome
  <2>1. /\ passthrough' <=> E \/ (passthrough /\ ~L)
        /\ region' = IF E THEN "strip" ELSE IF L THEN "whole" ELSE region
        /\ relative' = IF E THEN FALSE ELSE IF L THEN confinable ELSE relative
        /\ chromeActive' <=> C
    BY DEF PortalFrame, Portal!PointerFrame, Portal!SwitchPassthrough
  <2>2. E => haveRegion /\ C /\ ~passthrough
    BY DEF Portal!Enters
  <2>3. L <=> passthrough /\ ~C
    BY DEF Portal!Leaves
  <2>4. /\ relative <=> confinable /\ ~passthrough
        /\ passthrough <=> region = "strip"
        /\ passthrough => haveRegion
    BY <1>1 DEF OwnInv
  <2> HIDE DEF E, L, C
  <2>5. relative' <=> confinable /\ ~passthrough'
    BY <1>3, <2>1, <2>2, <2>3, <2>4 DEF PortalFlags
  <2>6. /\ passthrough' <=> region' = "strip"
        /\ passthrough' => haveRegion /\ chromeActive'
    BY <2>1, <2>2, <2>3, <2>4
  <2> QED BY <1>1, <1>2, <2>5, <2>6 DEF OwnInv, StartPhases
<1>5. ButtonInv'
  <2>1. button' = Portal!NoButton
    BY DEF PortalFrame, Portal!PointerFrame
  <2>2. ASSUME NEW code \in Buttons \ lost'
        PROVE  code \notin lost /\ (code \in held' <=> code \in Settled)
    <3>1. CASE Portal!OnPanel
      BY <2>2, <3>1 DEF PortalFrame, Portal!PointerFrame, Portal!Forwards, Settled
    <3>2. CASE ~Portal!OnPanel
      <4>1. held' = held /\ code \notin lost /\ code # button.code
        BY <2>2, <3>2 DEF PortalFrame, Portal!PointerFrame, Portal!Forwards, Portal!Pending
      <4> QED BY <4>1 DEF Settled
    <3> QED BY <3>1, <3>2
  <2>3. Settled' = held'
    BY <2>1 DEF Settled
  <2> QED BY <1>1, <1>2, <2>2, <2>3 DEF ButtonInv
<1> QED BY <1>4, <1>5

\* A mouse event does the same.
LEMMA MouseSteps ==
    ASSUME Typed, OwnInv, ButtonInv, Mouse
    PROVE  OwnInv' /\ ButtonInv'
<1>1. PortalFlags /\ PortalPlaces
  BY DEF Typed
<1>2. CASE Portal!SuppressionEnds
  <2>1. UNCHANGED <<mode, phase, confinable, haveRegion, relative, region, passthrough,
                    chromeActive, button, held, down, lost>>
    BY <1>2 DEF Portal!SuppressionEnds, Portal!viewer, Portal!desk
  <2> QED BY <2>1 DEF OwnInv, ButtonInv, Settled
<1>3. ASSUME NEW step, NEW column,
             Portal!UserMoves(step, column) \/ Portal!EchoArrives(step, column)
      PROVE  OwnInv' /\ ButtonInv'
  <2>1. /\ UNCHANGED <<mode, phase, confinable, haveRegion, button, held, down, lost>>
        /\ mode = "portal" /\ phase = "events"
    BY <1>3 DEF Portal!UserMoves, Portal!EchoArrives, Portal!InEvents, Portal!viewer,
                Portal!desk, Portal!Pointing
  <2>2. \/ UNCHANGED <<region, relative, passthrough, chromeActive>>
        \/ /\ region' = "whole" /\ relative' = confinable
           /\ passthrough' = FALSE /\ passthrough
    BY <1>3 DEF Portal!UserMoves, Portal!EchoArrives, Portal!Moved, Portal!Unmoved
  <2>3. OwnInv'
    BY <2>1, <2>2 DEF OwnInv, StartPhases
  <2> QED BY <2>1, <2>3 DEF ButtonInv, Settled
<1>4. ASSUME NEW code, NEW pressed, NEW column, Portal!ButtonEvent(code, pressed, column)
      PROVE  /\ OwnInv'
             /\ phase = "events" /\ UNCHANGED <<phase, held>>
             /\ \A other \in Buttons \ (lost' \union {code}) :
                  /\ other \notin lost /\ other # button.code
                  /\ other \in held <=> other \in down
             /\ button' = IF code = "other" THEN Portal!NoButton
                          ELSE [code |-> code, pressed |-> pressed]
  <2>1. /\ UNCHANGED <<mode, phase, confinable, haveRegion, held, region, relative,
                       passthrough, chromeActive>>
        /\ phase = "events"
    BY <1>4 DEF Portal!ButtonEvent, Portal!InEvents, Portal!viewer, Portal!desk
  <2>2. OwnInv'
    BY <2>1 DEF OwnInv
  <2>3. ASSUME NEW other \in Buttons \ (lost' \union {code})
        PROVE  other \notin lost /\ other # button.code /\ (other \in held <=> other \in down)
    <3>1. other \notin lost /\ other # button.code
      BY <1>4, <2>3 DEF Portal!ButtonEvent, Portal!Pending
    <3> QED BY <2>1, <2>3, <3>1 DEF ButtonInv, Settled
  <2> QED BY <1>4, <2>1, <2>2, <2>3 DEF Portal!ButtonEvent
<1>5. ASSUME NEW column, NEW code \in Buttons, Portal!UserPresses(code, column)
      PROVE  OwnInv' /\ ButtonInv'
  <2>1. Portal!ButtonEvent(code, TRUE, column) /\ down' = down \union {code}
    BY <1>5 DEF Portal!UserPresses
  <2>2. button'.pressed /\ button'.code = code /\ button' # Portal!NoButton
    <3>1. button' = [code |-> code, pressed |-> TRUE]
      BY <1>4, <2>1, PointerAssumption
    <3>2. button'.code = code /\ button'.pressed = TRUE
      BY <3>1
    <3> QED BY <3>2 DEF Portal!NoButton
  <2>3. Settled' = held \union {code}
    BY <1>4, <2>1, <2>2 DEF Settled
  <2>4. ASSUME NEW other \in Buttons \ lost' PROVE other \in Settled' <=> other \in down'
    BY <1>4, <2>1, <2>3
  <2> QED BY <1>4, <2>1, <2>4 DEF ButtonInv
<1>6. ASSUME NEW column, NEW code \in Buttons, Portal!UserReleases(code, column)
      PROVE  OwnInv' /\ ButtonInv'
  <2>1. Portal!ButtonEvent(code, FALSE, column) /\ down' = down \ {code}
    BY <1>6 DEF Portal!UserReleases
  <2>2. ~button'.pressed /\ button'.code = code /\ button' # Portal!NoButton
    <3>1. button' = [code |-> code, pressed |-> FALSE]
      BY <1>4, <2>1, PointerAssumption
    <3>2. button'.code = code /\ button'.pressed = FALSE
      BY <3>1
    <3> QED BY <3>2, PointerAssumption DEF Portal!NoButton
  <2>3. Settled' = held \ {code}
    BY <1>4, <2>1, <2>2 DEF Settled
  <2>4. ASSUME NEW other \in Buttons \ lost' PROVE other \in Settled' <=> other \in down'
    BY <1>4, <2>1, <2>3
  <2> QED BY <1>4, <2>1, <2>4 DEF ButtonInv
<1>7. ASSUME NEW column, Portal!OtherButton(column)
      PROVE  OwnInv' /\ ButtonInv'
  <2>1. Portal!ButtonEvent("other", TRUE, column) /\ down' = down
    BY <1>7 DEF Portal!OtherButton
  <2>2. Settled' = held
    BY <1>4, <2>1 DEF Settled
  <2>3. "other" \notin Buttons
    BY PointerAssumption
  <2>4. ASSUME NEW other \in Buttons \ lost' PROVE other \in Settled' <=> other \in down'
    BY <1>4, <2>1, <2>2, <2>3
  <2> QED BY <1>4, <2>1, <2>4 DEF ButtonInv
<1> QED BY <1>2, <1>3, <1>5, <1>6, <1>7, MouseMoves

\* A step keeps the pointer owned and the buttons agreeing.
LEMMA PointerStep ==
    ASSUME Typed, OwnInv, ButtonInv, [Next]_vars
    PROVE  OwnInv' /\ ButtonInv'
<1>1. CASE OpenWindow
  <2>1. /\ phase = "window" /\ phase' = "gl" /\ mode' = mode
        /\ relative' <=> mode = "portal" /\ confinable
        /\ UNCHANGED <<confinable, region, passthrough, button, held, down, lost>>
    BY <1>1 DEF OpenWindow, Starts, Portal!Confine, Portal!Pointing, Portal!desk
  <2> QED BY <2>1 DEF OwnInv, ButtonInv, Settled, StartPhases
<1>2. CASE (Failing /\ Portal!Release) \/ Close
  <2>1. phase' = "over"
    BY <1>2 DEF Failing, SdlFails, PictureFails, WindowFails, GlFails, SdkFails,
                Returns, Close
  <2>2. region' = "whole" /\ ~relative' /\ held' = {}
    BY <1>2 DEF Close, Portal!Release
  <2> QED BY <2>1, <2>2 DEF OwnInv, ButtonInv, StartPhases
<1>3. CASE PortalLooks
  <2>1. UNCHANGED <<mode, phase, confinable, haveRegion, relative, region, passthrough,
                    chromeActive, button, held, down, lost>>
    BY <1>3 DEF PortalLooks, Portal!FirstFrame, Portal!LookAt, Portal!viewer, Portal!desk
  <2> QED BY <2>1 DEF OwnInv, ButtonInv, Settled
<1>4. Failing => Portal!Release
  BY DEF Failing, SdlFails, PictureFails, WindowFails, GlFails, SdkFails, Returns
<1> QED BY <1>1, <1>2, <1>3, <1>4, PointerRests, PointerFrames, MouseSteps, PortalMoves

\* The pointer is free and nothing is held when the viewer starts.
LEMMA InitPointer ==
    ASSUME Init
    PROVE  OwnInv /\ ButtonInv
<1>1. /\ passthrough = FALSE /\ relative = FALSE /\ lost = {}
      /\ phase = "sdl" /\ region = "whole" /\ held = {} /\ down = {}
      /\ button = Portal!NoButton
  BY DEF Init, Portal!Init
<1> QED BY <1>1 DEF OwnInv, ButtonInv, Settled, StartPhases

\* The four records of who has the pointer agree throughout the loop, and a
\* viewer that has ended holds neither the pointer nor a button.
THEOREM PointerHasOneOwner == Spec => []PointerIsOwned
<1>1. Typed /\ OwnInv => PointerIsOwned
  <2> SUFFICES ASSUME Typed, OwnInv PROVE PointerIsOwned
    OBVIOUS
  <2>1. relative \in BOOLEAN
    BY DEF Typed, PortalFlags
  <2>2. phase \in {"events", "frame", "join"} =>
          relative = (mode = "portal" /\ confinable /\ ~passthrough)
    BY <2>1 DEF OwnInv
  <2> QED BY <2>2 DEF OwnInv, PointerIsOwned, Portal!PointerIsOwned, Portal!LoopPhases,
                      Portal!Pointing
<1>2. Typed /\ OwnInv /\ ButtonInv /\ [Next]_vars => OwnInv' /\ ButtonInv'
  BY PointerStep
<1> QED BY <1>1, <1>2, InitPointer, AlwaysTyped, PTL DEF Spec

\* The desktop agrees with the user about every button whose last event was
\* neither overwritten nor dropped, whatever was lost before.
THEOREM ButtonsAreTheUsers == Spec => []ButtonsAgree
<1>1. ButtonInv => ButtonsAgree
  BY DEF ButtonInv, Settled, ButtonsAgree, Portal!ButtonsAgree, Portal!Pending
<1>2. Typed /\ OwnInv /\ ButtonInv /\ [Next]_vars => OwnInv' /\ ButtonInv'
  BY PointerStep
<1> QED BY <1>1, <1>2, InitPointer, AlwaysTyped, PTL DEF Spec
----------------------------------------------------------------------------
(* The desktop is the one the viewer believes in *)

DesktopInv ==
    /\ DesktopIsKnown
    /\ phase \in StartPhases => workspaceSlot = 0

\* The desktop of a slot depends on the mode, which never changes.
LEMMA TargetStays ==
    ASSUME mode' = mode
    PROVE  /\ Switch!CenterDesktop' = Switch!CenterDesktop
           /\ (Switch!TargetDesktop(workspaceSlot))' = Switch!TargetDesktop(workspaceSlot')
BY DEF Switch!CenterDesktop, Switch!TargetDesktop, Switch!DesktopOffsets

\* Where a step of main() that is not a frame of the switching leads.
LEMMA PhaseSteps ==
    ASSUME [Next]_vars
    PROVE  /\ phase' \in StartPhases => phase \in StartPhases
           /\ phase' = "over" => phase \in StartPhases \/ phase = "over" \/ Close
           /\ phase \in LoopPhases => phase' \in LoopPhases \union {"join"}
<1> USE DEF StartPhases, LoopPhases
<1>1. CASE StartUp
  BY <1>1 DEF StartUp, Starts, Returns, StartSdl, SdlFails, StartPicture,
              PictureFails, OpenWindow, WindowFails, OpenGl, GlFails, StartSdk, SdkFails
<1>2. CASE FrameEnds \/ EndEvents
  BY <1>2 DEF FrameEnds, EndFrame, EndEvents
<1>3. CASE Close
  BY <1>3 DEF Close
<1>4. Signal \/ Quit \/ Detached => UNCHANGED phase
  BY DEF Signal, Quit, Detached
<1> QED BY <1>1, <1>2, <1>3, <1>4, MainMoves
\* A frame of the switching leaves the desktop it was left with, brings the one
\* of the slot it chooses, or remembers that it failed.
LEMMA DesktopFrames ==
    ASSUME Typed, DesktopInv, SwitchFrame \/ SwitchWorks \/ HeadTurns
    PROVE  DesktopInv'
<1>1. phase = "frame" /\ phase' \in {"events", "frame", "join"} /\ mode' = mode
  <2>1. CASE HeadTurns
    BY <2>1 DEF HeadTurns, Switch!Look, Switch!viewer
  <2>2. CASE SwitchFrame \/ SwitchWorks
    BY <2>2 DEF SwitchFrame, SwitchWorks, Switch!FrameSettled, Switch!FrameWaits,
                Switch!FrameFails, Switch!FrameSwitches, Switch!Attempt, Switch!EndFrame
  <2> QED BY <2>1, <2>2
<1>2. \/ UNCHANGED <<workspaceSlot, desktop, failed, astray>>
      \/ UNCHANGED <<workspaceSlot, desktop, failed>> /\ (~astray' => ~astray)
      \/ astray' \/ failed' # Switch!Nothing
      \/ desktop' = Switch!TargetDesktop(workspaceSlot')
  <2>1. CASE HeadTurns
    BY <2>1 DEF HeadTurns, Switch!Look, Switch!belief
  <2>2. ASSUME NEW lag, Switch!FrameSettled(lag) \/ Switch!FrameWaits(lag)
        PROVE  UNCHANGED <<workspaceSlot, desktop, failed, astray>>
    BY <2>2 DEF Switch!FrameSettled, Switch!FrameWaits, Switch!Wait
  <2>3. ASSUME NEW lag, NEW outcome, Switch!FrameFails(lag, outcome)
        PROVE  \/ UNCHANGED <<workspaceSlot, desktop, failed>> /\ (~astray' => ~astray)
               \/ astray' \/ failed' # Switch!Nothing
    <3>1. CASE stop
      BY <2>3, <3>1 DEF Switch!FrameFails
    <3>2. CASE ~stop
      <4>1. failed' = Switch!At(Switch!Desired, Switch!After(lag))
        BY <2>3, <3>2 DEF Switch!FrameFails
      <4>2. Switch!Desired \in Switch!Slots
        BY SlotsExist DEF Typed, MainOK
      <4>3. failed'.slot # Switch!None
        BY <4>1, <4>2 DEF Switch!At, Switch!None, Switch!Slots
      <4> QED BY <4>3 DEF Switch!Nothing, Switch!At
    <3> QED BY <3>1, <3>2
  <2>4. ASSUME NEW lag, Switch!FrameSwitches(lag)
        PROVE  desktop' = Switch!TargetDesktop(workspaceSlot')
    <3>1. workspaceSlot' = Switch!Desired /\ desktop' = Switch!TargetDesktop(Switch!Desired)
      BY <2>4 DEF Switch!FrameSwitches
    <3> QED BY <3>1
  <2> QED BY <2>1, <2>2, <2>3, <2>4 DEF SwitchFrame, SwitchWorks
<1>3. ~astray /\ failed = Switch!Nothing => desktop = Switch!TargetDesktop(workspaceSlot)
  BY <1>1 DEF DesktopInv, DesktopIsKnown, Switch!DesktopIsKnown
<1>4. ~astray' /\ failed' = Switch!Nothing =>
        desktop' = Switch!TargetDesktop(workspaceSlot')
  BY <1>2, <1>3
<1> QED BY <1>1, <1>4, TargetStays DEF DesktopInv, DesktopIsKnown,
           Switch!DesktopIsKnown, StartPhases

\* A step keeps the desktop known.
LEMMA DesktopStep ==
    ASSUME Typed, DesktopInv, [Next]_vars
    PROVE  DesktopInv'
<1>0. mode' = mode /\ mode \in Modes
  BY MainMoves DEF Typed, MainOK
<1>1. CASE UNCHANGED switch /\ ~Close
  <2>1. /\ UNCHANGED <<workspaceSlot, desktop, failed, astray>>
        /\ Switch!TargetDesktop(0) = Switch!CenterDesktop
    BY <1>0, <1>1, SlotsExist DEF Typed
  <2>2. \/ ~astray /\ failed = Switch!Nothing =>
             desktop = Switch!TargetDesktop(workspaceSlot)
        \/ phase = "over"
    BY DEF DesktopInv, DesktopIsKnown, Switch!DesktopIsKnown
  <2>3. phase = "over" => phase' = "over"
    BY MainMoves DEF StartUp, Starts, Returns, StartSdl, SdlFails, StartPicture,
            PictureFails, OpenWindow, WindowFails, OpenGl, GlFails, StartSdk, SdkFails,
            FrameEnds, EndFrame, EndEvents, Close, Signal, Quit, Detached
  <2>4. phase \in StartPhases => workspaceSlot = 0
    BY DEF DesktopInv
  <2>5. phase \in StartPhases => phase # "over"
    BY DEF StartPhases
  <2> QED BY <1>0, <1>1, <2>1, <2>2, <2>3, <2>4, <2>5, PhaseSteps, TargetStays
             DEF DesktopInv, DesktopIsKnown, Switch!DesktopIsKnown
<1>2. CASE Close
  <2>1. phase = "join" /\ phase' = "over"
    BY <1>2 DEF Close
  <2>2. PICK outcome \in {"done", "failed"} : Switch!Restore(outcome)
    BY <1>2 DEF Close
  <2>3. ~astray /\ failed = Switch!Nothing => desktop = Switch!TargetDesktop(workspaceSlot)
    BY <2>1 DEF DesktopInv, DesktopIsKnown, Switch!DesktopIsKnown
  <2>4. workspaceSlot' = workspaceSlot /\ failed' = failed
    BY <2>2 DEF Switch!Restore, Switch!belief
  <2>5. Switch!TargetDesktop(0) = Switch!CenterDesktop
    BY <1>0, SlotsExist DEF Typed
  <2>6. ~astray' /\ (failed = Switch!Nothing \/ (mode = "two" /\ workspaceSlot # 0)) =>
          desktop' = IF mode = "two" THEN Switch!CenterDesktop
                     ELSE Switch!TargetDesktop(workspaceSlot)
    <3>1. CASE mode = "two" /\ workspaceSlot # 0
      BY <2>2, <3>1 DEF Switch!Restore
    <3>2. CASE ~(mode = "two" /\ workspaceSlot # 0)
      <4>1. desktop' = desktop /\ astray' = astray
        BY <2>2, <3>2 DEF Switch!Restore
      <4> QED BY <2>3, <2>5, <3>2, <4>1
    <3> QED BY <3>1, <3>2
  <2> QED BY <1>0, <2>1, <2>4, <2>6, TargetStays
             DEF DesktopInv, DesktopIsKnown, Switch!DesktopIsKnown, StartPhases
<1> QED BY <1>1, <1>2, DesktopFrames, SwitchMoves

\* Although a helper may switch and report a failure, a viewer that remembers no
\* failed switch is on the desktop of its slot, and one that ends in the right slot
\* of two leaves the center.
THEOREM DesktopIsTheViewers == Spec => []DesktopIsKnown
<1>1. ASSUME Init PROVE DesktopInv
  <2>1. phase = "sdl" /\ workspaceSlot = 0 /\ (~astray => desktop = Switch!CenterDesktop)
    BY <1>1 DEF Init, Switch!Init
  <2>2. Switch!TargetDesktop(0) = Switch!CenterDesktop
    BY <1>1, InitTyped, SlotsExist DEF Typed, MainOK
  <2> QED BY <2>1, <2>2 DEF DesktopInv, DesktopIsKnown, Switch!DesktopIsKnown
<1>2. Typed /\ DesktopInv /\ [Next]_vars => DesktopInv'
  BY DesktopStep
<1>3. DesktopInv => DesktopIsKnown
  BY DEF DesktopInv
<1> QED BY <1>1, <1>2, <1>3, AlwaysTyped, PTL DEF Spec
\* Every slot has a desktop of its own, and the slots of the grid are all nine
\* desktops: the table of offsets leaves none out and gives none twice.
THEOREM SlotsAreDesktops ==
    ASSUME mode \in {"two", "grid"}
    PROVE  /\ \A s, t \in Switch!Slots :
                Switch!TargetDesktop(s) = Switch!TargetDesktop(t) => s = t
           /\ \A d \in (IF mode = "grid" THEN 1 .. 9 ELSE 1 .. 2) :
                \E s \in Switch!Slots : Switch!TargetDesktop(s) = d
<1>1. CASE mode = "two"
  <2>1. Switch!Slots = 0 .. 1 /\ \A s \in 0 .. 1 : Switch!TargetDesktop(s) = 1 + s
    BY <1>1 DEF Switch!Slots, Switch!TargetDesktop, Switch!CenterDesktop
  <2>2. \A d \in 1 .. 2 : d - 1 \in 0 .. 1 /\ 1 + (d - 1) = d
    OBVIOUS
  <2> QED BY <1>1, <2>1, <2>2
<1>2. CASE mode = "grid"
  <2> DEFINE T(s) == Switch!TargetDesktop(s)
  <2>1. /\ T(0) = 5 /\ T(1) = 4 /\ T(2) = 6 /\ T(3) = 2 /\ T(4) = 8
        /\ T(5) = 1 /\ T(6) = 3 /\ T(7) = 7 /\ T(8) = 9
    BY <1>2 DEF Switch!TargetDesktop, Switch!CenterDesktop, Switch!DesktopOffsets
  <2>2. Switch!Slots = {0, 1, 2, 3, 4, 5, 6, 7, 8}
    BY <1>2 DEF Switch!Slots
  <2>3. 1 .. 9 = {1, 2, 3, 4, 5, 6, 7, 8, 9}
    OBVIOUS
  <2> HIDE DEF T
  <2>4. \A s, t \in {0, 1, 2, 3, 4, 5, 6, 7, 8} : T(s) = T(t) => s = t
    BY <2>1
  <2>5. \A d \in {1, 2, 3, 4, 5, 6, 7, 8, 9} :
            \E s \in {0, 1, 2, 3, 4, 5, 6, 7, 8} : T(s) = d
    BY <2>1
  <2> QED BY <1>2, <2>2, <2>3, <2>4, <2>5 DEF T
<1> QED BY <1>1, <1>2

----------------------------------------------------------------------------
(* A head that rests switches at most once *)

\* Since the last switch without a movement the pose asks for nothing.
RestInv == ~turned => Switch!Desired = workspaceSlot

\* Entering and leaving a slot do not feed each other: the slot a pose asks for
\* is the one it goes on asking for.
LEMMA Hysteresis ==
    ASSUME Typed, mode' = mode, UNCHANGED <<yaw, pitch>>,
           workspaceSlot' \in {Switch!Desired, workspaceSlot},
           workspaceSlot' = workspaceSlot => Switch!Desired = workspaceSlot
    PROVE  Switch!Desired' = workspaceSlot'
<1>1. yaw \in Int /\ pitch \in Int /\ workspaceSlot \in 0 .. 8
  BY SwitchAssumption DEF Typed, Switch!TypeOK, Switch!Slots
<1>2. workspaceSlot' = Switch!Desired
  OBVIOUS
<1>3. CASE mode # "grid"
  BY <1>1, <1>2, <1>3 DEF Switch!Desired, Switch!DesiredOfTwo, Switch!EnterAngle,
                          Switch!ReturnAngle
<1>4. CASE mode = "grid"
  <2>1. workspaceSlot' = Switch!DesiredOfGrid /\ Switch!Desired' = Switch!DesiredOfGrid'
    BY <1>2, <1>4 DEF Switch!Desired
  <2>2. (Switch!GridSlot(-yaw, -pitch))' = Switch!GridSlot(-yaw, -pitch)
    BY DEF Switch!GridSlot, Switch!Abs
  <2> DEFINE Small == Switch!Abs(yaw) < Switch!ReturnAngle
                        /\ Switch!Abs(pitch) < Switch!ReturnAngle
             G == Switch!GridSlot(-yaw, -pitch)
  <2>3. Small' <=> Small
    BY DEF Switch!Abs
  <2>4. Small => G = 0
    BY <1>1 DEF Switch!GridSlot, Switch!Abs, Switch!EnterAngle, Switch!ReturnAngle
  <2>5. Switch!DesiredOfGrid = IF workspaceSlot = 0 THEN G
                               ELSE IF Small THEN 0 ELSE workspaceSlot
    BY DEF Switch!DesiredOfGrid
  <2>6. Switch!DesiredOfGrid' = IF workspaceSlot' = 0 THEN G
                                ELSE IF Small THEN 0 ELSE workspaceSlot'
    BY <2>2, <2>3 DEF Switch!DesiredOfGrid
  <2> HIDE DEF Small, G
  <2> QED BY <2>1, <2>4, <2>5, <2>6
<1> QED BY <1>3, <1>4

\* A step that leaves the pose, the slot and the mode leaves what is asked for.
LEMMA DesiredStays ==
    ASSUME mode' = mode, UNCHANGED <<yaw, pitch, workspaceSlot>>
    PROVE  Switch!Desired' = Switch!Desired
BY DEF Switch!Desired, Switch!DesiredOfGrid, Switch!DesiredOfTwo, Switch!GridSlot,
       Switch!Abs

\* What a step of the switching does to the slot, the pose and the movement.
LEMMA SlotSteps ==
    ASSUME [Next]_vars
    PROVE  \/ turned'
           \/ UNCHANGED <<yaw, pitch, workspaceSlot, turned>>
           \/ /\ SwitchWorks /\ UNCHANGED <<yaw, pitch>>
              /\ workspaceSlot' = Switch!Desired /\ Switch!Desired # workspaceSlot
<1>1. CASE SwitchWorks
  BY <1>1 DEF SwitchWorks, Switch!FrameSwitches, Switch!Attempt, Switch!pose
<1>2. CASE SwitchFrame
  <2>1. ASSUME NEW lag, Switch!FrameSettled(lag) \/ Switch!FrameWaits(lag)
        PROVE  UNCHANGED <<yaw, pitch, workspaceSlot, turned>>
    BY <2>1 DEF Switch!FrameSettled, Switch!FrameWaits, Switch!Wait, Switch!pose
  <2>2. ASSUME NEW lag, NEW outcome, Switch!FrameFails(lag, outcome)
        PROVE  UNCHANGED <<yaw, pitch, workspaceSlot, turned>>
    BY <2>2 DEF Switch!FrameFails, Switch!Attempt, Switch!pose
  <2> QED BY <1>2, <2>1, <2>2 DEF SwitchFrame
<1>3. CASE HeadTurns
  BY <1>3 DEF HeadTurns, Switch!Look
<1>4. CASE Close
  BY <1>4 DEF Close, Switch!Restore, Switch!pose, Switch!belief
<1>5. CASE UNCHANGED switch
  BY <1>5
<1> QED BY <1>1, <1>2, <1>3, <1>4, <1>5, SwitchMoves

\* After one switch a head that rests asks for no other.
LEMMA RestStep ==
    ASSUME Typed, RestInv, [Next]_vars
    PROVE  RestInv' /\ (workspaceSlot' # workspaceSlot => turned)
<1>0. mode' = mode
  BY MainMoves
<1>1. CASE UNCHANGED <<yaw, pitch, workspaceSlot, turned>>
  BY <1>0, <1>1, DesiredStays DEF RestInv
<1>2. CASE /\ UNCHANGED <<yaw, pitch>>
           /\ workspaceSlot' = Switch!Desired /\ Switch!Desired # workspaceSlot
  BY <1>0, <1>2, Hysteresis DEF RestInv
<1>3. CASE turned' /\ ~SwitchWorks
  <2>1. workspaceSlot' = workspaceSlot
    <3>1. CASE SwitchFrame
      BY <3>1 DEF SwitchFrame, Switch!FrameSettled, Switch!FrameWaits, Switch!Wait,
                  Switch!FrameFails
    <3>2. CASE HeadTurns \/ Close \/ UNCHANGED switch
      BY <3>2 DEF HeadTurns, Switch!Look, Switch!belief, Close, Switch!Restore
    <3> QED BY <1>3, <3>1, <3>2, SwitchMoves
  <2> QED BY <1>3, <2>1 DEF RestInv
<1>4. CASE SwitchWorks
  <2>1. ~turned'
    BY <1>4 DEF SwitchWorks, Switch!FrameSwitches
  <2> QED BY <1>1, <1>2, <2>1, SlotSteps
<1> QED BY <1>1, <1>2, <1>3, <1>4, SlotSteps

\* A head that rests, at whatever angle, switches the desktop at most once.
THEOREM RestingHeadRests == Spec => RestSwitchesOnce
<1>1. Init => RestInv
  <2> SUFFICES ASSUME Init PROVE RestInv
    OBVIOUS
  <2>1. turned
    BY Zenon DEF Init, Switch!Init
  <2> QED BY <2>1 DEF RestInv
<1>2. Typed /\ RestInv /\ [Next]_vars => RestInv'
  BY RestStep
<1>3. Typed /\ RestInv /\ [Next]_vars =>
        [workspaceSlot' # workspaceSlot => turned]_<<Switch!switch, Switch!viewer>>
  BY RestStep
<1> QED BY <1>1, <1>2, <1>3, AlwaysTyped, PTL DEF Spec, RestSwitchesOnce,
           Switch!RestSwitchesOnce
----------------------------------------------------------------------------
(* A switch of the two-workspace mode is deliberate *)

\* The wrapping counter: time that passes makes a moment older by no more than
\* the time that passed.
LEMMA Ageing ==
    ASSUME NEW since \in Ticks, now \in Ticks, NEW lag \in Lags
    PROVE  /\ Switch!Elapsed(since, now) \in Nat
           /\ Switch!Elapsed(since, After(lag)) <= Switch!Elapsed(since, now) + lag
           /\ Switch!Elapsed(After(lag), After(lag)) = 0
           /\ After(lag) <= now + lag
<1> USE TickAssumption DEF Ticks, Lags
<1>1. After(lag) = IF now + lag < TickModulus THEN now + lag ELSE now + lag - TickModulus
  BY DEF After
<1>2. ASSUME NEW a \in (-TickModulus) .. (TickModulus - 1)
      PROVE  a % TickModulus = IF a < 0 THEN a + TickModulus ELSE a
  OBVIOUS
<1>3. /\ now - since \in (-TickModulus) .. (TickModulus - 1)
      /\ After(lag) - since \in (-TickModulus) .. (TickModulus - 1)
      /\ After(lag) - After(lag) = 0
  BY <1>1
<1>4. Switch!Elapsed(since, now) =
        IF now - since < 0 THEN now - since + TickModulus ELSE now - since
  BY <1>2, <1>3 DEF Switch!Elapsed
<1>5. Switch!Elapsed(since, After(lag)) =
        IF After(lag) - since < 0 THEN After(lag) - since + TickModulus
        ELSE After(lag) - since
  BY <1>2, <1>3 DEF Switch!Elapsed
<1>6. Switch!Elapsed(After(lag), After(lag)) = 0
  BY <1>3 DEF Switch!Elapsed
<1> QED BY <1>1, <1>4, <1>5, <1>6

\* What a pending slot and a running cooldown say about the histories: a pending
\* slot has been asked for since its time at least, and a cooldown that did not
\* wrap has been running no longer than the rest.
DeliberateInv ==
    mode = "two" =>
      /\ pending.slot # Switch!None =>
           /\ wanted = pending.slot
           /\ asked = Debounce \/ Switch!Elapsed(pending.since, now) <= asked
      /\ cooldownUntil >= Cooldown =>
           rested = Cooldown \/ now - (cooldownUntil - Cooldown) <= rested

\* The slot a frame leaves pending has been asked for since its time.
LEMMA PendedAge ==
    ASSUME Typed, DeliberateInv, mode = "two", NEW lag \in Lags,
           Switch!Desired # workspaceSlot
    PROVE  LET p == Switch!Pended(After(lag))
           IN  /\ p.slot = Switch!Desired
               /\ \/ Switch!Asked(lag) = Debounce
                  \/ Switch!Elapsed(p.since, After(lag)) <= Switch!Asked(lag)
<1> USE SwitchAssumption, TickAssumption
<1>0. /\ mode \in Modes /\ now \in Ticks /\ lag \in Nat /\ asked \in 0 .. Debounce
      /\ Switch!Desired \in Switch!Slots /\ Switch!TypeOK
  BY SlotsExist DEF Typed, MainOK, Switch!TypeOK, Lags
<1>1. CASE Switch!Desired = pending.slot
  <2>1. Switch!Pended(After(lag)) = pending
    BY <1>1 DEF Switch!Pended
  <2>2. pending.slot # Switch!None
    BY <1>0, <1>1 DEF Switch!Slots, Switch!None
  <2>3. pending.since \in Ticks
    BY <1>0, <2>2 DEF Switch!TypeOK, Switch!Nothing, Switch!At, Switch!Ticks, Ticks
  <2>4. Switch!Asked(lag) = IF asked + lag > Debounce THEN Debounce ELSE asked + lag
    BY <1>1, <2>2 DEF DeliberateInv, Switch!Asked, Switch!AtMost
  <2>5. asked = Debounce \/ Switch!Elapsed(pending.since, now) <= asked
    BY <2>2 DEF DeliberateInv
  <2>6. Switch!Elapsed(pending.since, After(lag)) \in Int
    BY <1>0, <2>3, SwitchPieces DEF Switch!Elapsed, Ticks
  <2> QED BY <1>0, <1>1, <2>1, <2>3, <2>4, <2>5, <2>6, Ageing
<1>2. CASE Switch!Desired # pending.slot
  <2>1. Switch!Pended(After(lag)) = [slot |-> Switch!Desired, since |-> After(lag)]
    BY <1>2 DEF Switch!Pended, Switch!At
  <2>2. After(lag) \in Ticks /\ Switch!Asked(lag) \in 0 .. Debounce
    BY <1>0, SwitchPieces
  <2> QED BY <1>0, <2>1, <2>2, Ageing
<1> QED BY <1>1, <1>2

\* In the two-workspace mode only a frame of the switching moves the counter.
LEMMA CounterSteps ==
    ASSUME [Next]_vars, mode = "two"
    PROVE  SwitchFrame \/ SwitchWorks \/ now' = now
<1>1. ~DrawFrame /\ ~PortalFrame
  BY DEF DrawFrame, PortalFrame, Portal!PointerFrame, Portal!Pointing
<1>2. CASE StartUp
  BY <1>2 DEF StartUp, Starts, Returns, StartSdl, SdlFails, StartPicture,
              PictureFails, OpenWindow, WindowFails, OpenGl, GlFails, StartSdk, SdkFails
<1>3. CASE EndEvents \/ Close \/ Signal \/ Quit \/ Detached
  BY <1>3 DEF EndEvents, Close, Signal, Quit, Detached
<1>4. CASE HeadTurns \/ TrackerSamples \/ RecenterKey
  BY <1>4 DEF HeadTurns, TrackerSamples, RecenterKey, Switch!Look,
              Tracker!Sample, Tracker!Calibrate, Tracker!Update, Tracker!Sampled,
              Tracker!Recenter
<1>5. CASE RefreshKey \/ DesktopChanges \/ CaptureThread
  BY <1>5 DEF RefreshKey, DesktopChanges, CaptureThread, Live!Refresh, Live!Redraw,
              Live!CaptureThread, Live!CaptureCheck, Live!CaptureGrab, Live!CaptureFails,
              Live!CapturePaused, Live!CaptureStore
<1>6. CASE Mouse \/ PortalLooks
  BY <1>6 DEF Mouse, PortalLooks, Portal!SuppressionEnds, Portal!UserMoves,
              Portal!EchoArrives, Portal!UserPresses, Portal!UserReleases,
              Portal!OtherButton, Portal!ButtonEvent, Portal!InEvents,
              Portal!FirstFrame, Portal!LookAt
<1> QED BY <1>1, <1>2, <1>3, <1>4, <1>5, <1>6, Moves DEF StartUp
\* A frame that does not switch ages the debounce and the cooldown alike.
LEMMA FrameAges ==
    ASSUME Typed, DeliberateInv, mode = "two", mode' = mode, NEW lag \in Lags,
           now' = After(lag), wanted' = Switch!Desired, asked' = Switch!Asked(lag),
           rested' = Switch!AtMost(Cooldown, rested + lag),
           cooldownUntil' = cooldownUntil,
           \/ pending' = Switch!Nothing
           \/ Switch!Desired # workspaceSlot /\ pending' = Switch!Pended(After(lag))
    PROVE  DeliberateInv'
<1> USE SwitchAssumption, TickAssumption
<1>0. /\ mode \in Modes /\ now \in Ticks /\ lag \in Nat /\ rested \in 0 .. Cooldown
      /\ cooldownUntil \in Ticks /\ now \in Int /\ cooldownUntil \in Int
  BY DEF Typed, MainOK, Switch!TypeOK, Lags, Ticks, Switch!Ticks
<1>1. pending'.slot # Switch!None =>
        /\ wanted' = pending'.slot
        /\ asked' = Debounce \/ Switch!Elapsed(pending'.since, now') <= asked'
  <2>1. CASE pending' = Switch!Nothing
    BY <2>1 DEF Switch!Nothing, Switch!At
  <2>2. CASE Switch!Desired # workspaceSlot /\ pending' = Switch!Pended(After(lag))
    BY <2>2, PendedAge
  <2> QED BY <2>1, <2>2
<1>2. cooldownUntil' >= Cooldown =>
        rested' = Cooldown \/ now' - (cooldownUntil' - Cooldown) <= rested'
  <2>1. After(lag) <= now + lag /\ After(lag) \in Int
    BY <1>0, Ageing, TicksGoOn DEF Ticks
  <2>2. cooldownUntil >= Cooldown =>
          rested = Cooldown \/ now - (cooldownUntil - Cooldown) <= rested
    BY DEF DeliberateInv
  <2>3. rested' = IF rested + lag > Cooldown THEN Cooldown ELSE rested + lag
    BY DEF Switch!AtMost
  <2> QED BY <1>0, <2>1, <2>2, <2>3
<1>3. (Switch!Elapsed(pending.since, now))' = Switch!Elapsed(pending'.since, now')
  BY DEF Switch!Elapsed
<1> QED BY <1>1, <1>2, <1>3 DEF DeliberateInv

\* A step keeps a pending slot and a cooldown accounted for.
LEMMA DeliberateStep ==
    ASSUME Typed, DeliberateInv, [Next]_vars
    PROVE  DeliberateInv'
<1> USE SwitchAssumption, TickAssumption
<1> SUFFICES ASSUME mode' = "two" PROVE DeliberateInv'
  BY DEF DeliberateInv
<1>0. mode' = mode /\ mode = "two" /\ mode \in Modes /\ now \in Ticks
  BY MainMoves DEF Typed, MainOK
<1>1. CASE SwitchFrame
  <2>1. PICK lag \in Lags :
          \/ Switch!FrameSettled(lag) \/ Switch!FrameWaits(lag)
          \/ \E outcome \in {"failed", "cut"} : Switch!FrameFails(lag, outcome)
    BY <1>1 DEF SwitchFrame
  <2>2. Switch!After(lag) = After(lag)
    BY DEF Switch!After, After
  <2>3. /\ now' = After(lag) /\ asked' = Switch!Asked(lag) /\ wanted' = Switch!Desired
        /\ rested' = Switch!AtMost(Cooldown, rested + lag)
        /\ cooldownUntil' = cooldownUntil
    BY <1>0, <2>1, <2>2 DEF Switch!FrameSettled, Switch!FrameWaits, Switch!FrameFails,
            Switch!Wait, Switch!Attempt, Switch!Observe, Switch!EndFrame
  <2>4. \/ pending' = Switch!Nothing
        \/ Switch!Desired # workspaceSlot /\ pending' = Switch!Pended(After(lag))
    BY <2>1, <2>2 DEF Switch!FrameSettled, Switch!FrameWaits, Switch!FrameFails,
                      Switch!Attempt
  <2> QED BY <1>0, <2>3, <2>4, FrameAges
<1>2. CASE SwitchWorks
  <2>1. PICK lag \in Lags : Switch!FrameSwitches(lag)
    BY <1>2 DEF SwitchWorks
  <2>2. Switch!After(lag) = After(lag) /\ After(lag) \in Ticks
    BY <1>0, TicksGoOn DEF Switch!After, After, Lags
  <2>3. /\ pending' = Switch!Nothing /\ rested' = 0 /\ now' = After(lag)
        /\ cooldownUntil' = (After(lag) + Cooldown) % TickModulus
    BY <1>0, <2>1, <2>2 DEF Switch!FrameSwitches, Switch!Attempt, Switch!EndFrame
  <2>4. cooldownUntil' = IF now' + Cooldown < TickModulus THEN now' + Cooldown
                         ELSE now' + Cooldown - TickModulus
    BY <2>2, <2>3 DEF Ticks
  <2>5. cooldownUntil' >= Cooldown => now' - (cooldownUntil' - Cooldown) <= rested'
    BY <2>2, <2>3, <2>4 DEF Ticks
  <2>6. ~(pending'.slot # Switch!None)
    BY <2>3 DEF Switch!Nothing, Switch!At
  <2> QED BY <2>5, <2>6 DEF DeliberateInv
<1>3. CASE UNCHANGED <<pending, wanted, asked, rested, cooldownUntil, now>>
  BY <1>0, <1>3 DEF DeliberateInv, Switch!Elapsed
<1>4. HeadTurns \/ Close \/ UNCHANGED switch =>
        UNCHANGED <<pending, wanted, asked, rested, cooldownUntil>>
  BY DEF HeadTurns, Switch!Look, Switch!belief, Close, Switch!Restore
<1> QED BY <1>0, <1>1, <1>2, <1>3, <1>4, SwitchMoves, CounterSteps

\* Whatever the counter, the two-workspace mode tries a switch only after the
\* pose has asked for it for the whole debounce and when the last switch is a
\* cooldown ago, unless the end of that cooldown has wrapped the counter.
THEOREM SwitchesAreDeliberate == Spec => SwitchIsDeliberate
<1> DEFINE Deliberate == \A lag \in Switch!Lags :
             Switch!Attempt(lag) /\ mode = "two" =>
               /\ Switch!Asked(lag) >= Debounce
               /\ rested + lag >= Cooldown \/ Switch!CooldownWrapped
<1>1. ASSUME Init PROVE DeliberateInv
  <2>1. pending = Switch!Nothing /\ cooldownUntil = 0
    BY <1>1 DEF Init, Switch!Init
  <2> QED BY <2>1, SwitchAssumption DEF DeliberateInv, Switch!Nothing, Switch!At
<1>2. Typed /\ DeliberateInv /\ [Next]_vars => DeliberateInv'
  BY DeliberateStep
<1>3. ASSUME Typed, DeliberateInv PROVE Deliberate
  <2> SUFFICES ASSUME NEW lag \in Switch!Lags, Switch!Attempt(lag), mode = "two"
               PROVE  /\ Switch!Asked(lag) >= Debounce
                      /\ rested + lag >= Cooldown \/ Switch!CooldownWrapped
    OBVIOUS
  <2> USE SwitchAssumption, TickAssumption
  <2>0. /\ mode \in Modes /\ now \in Ticks /\ now \in Int /\ cooldownUntil \in Int
        /\ rested \in 0 .. Cooldown /\ lag \in Lags /\ lag \in Nat
        /\ Switch!After(lag) = After(lag) /\ Switch!TypeOK
    BY <1>3 DEF Typed, MainOK, Ticks, Switch!Ticks, Switch!TypeOK, Switch!Lags, Lags,
                Switch!After, After
  <2>1. /\ Switch!Desired # workspaceSlot
        /\ Switch!Elapsed(Switch!Pended(After(lag)).since, After(lag)) >= Debounce
        /\ After(lag) >= cooldownUntil
    BY <2>0 DEF Switch!Attempt, Switch!MaySwitch, Switch!StableLongEnough,
                Switch!CooldownExpired
  <2>2. Switch!Asked(lag) >= Debounce
    <3>1. Switch!Asked(lag) \in 0 .. Debounce
      BY <2>0, SwitchPieces
    <3>2. Switch!Pended(After(lag)).since \in Ticks /\ After(lag) \in Ticks
      <4>1. Switch!Pended(After(lag)) \in
              [slot : Switch!Slots, since : Ticks] \union {Switch!Nothing}
            /\ After(lag) \in Ticks
        BY <2>0, SwitchPieces
      <4> QED BY <4>1 DEF Switch!Nothing, Switch!At, Ticks
    <3>3. Switch!Elapsed(Switch!Pended(After(lag)).since, After(lag)) \in Int
      BY <3>2 DEF Switch!Elapsed, Ticks
    <3> QED BY <1>3, <2>0, <2>1, <3>1, <3>3, PendedAge
  <2>3. ~Switch!CooldownWrapped => rested + lag >= Cooldown
    <3>1. After(lag) <= now + lag /\ After(lag) \in Int
      BY <2>0, Ageing, TicksGoOn DEF Ticks
    <3>2. cooldownUntil >= Cooldown =>
            rested = Cooldown \/ now - (cooldownUntil - Cooldown) <= rested
      BY <1>3 DEF DeliberateInv
    <3> QED BY <2>0, <2>1, <3>1, <3>2 DEF Switch!CooldownWrapped
  <2> QED BY <2>2, <2>3
<1>4. Typed /\ DeliberateInv => [Deliberate]_<<Switch!switch, Switch!viewer, now>>
  BY <1>3
<1> HIDE DEF Deliberate
<1>5. Spec => [][Deliberate]_<<Switch!switch, Switch!viewer, now>>
  BY <1>1, <1>2, <1>4, AlwaysTyped, PTL DEF Spec
<1> QED BY <1>5 DEF Deliberate, SwitchIsDeliberate, Switch!SwitchIsDeliberate
----------------------------------------------------------------------------
(* The picture goes forward *)

\* Before the capture thread there is no picture of its, and none is newer than
\* the desktop.  A picture under way (in the thread's hands, or in the mailbox)
\* is newer than the one shown, unless the C key has taken that one since.
LiveInv ==
    /\ phase \in StartPhases => capturer = "none"
    /\ capturer = "none" => ~ready
    /\ shown # Live!Misfit
    /\ shown <= content /\ mailbox <= content /\ grabbed <= content
    /\ ready => mailbox = stored
    /\ ready /\ mailbox # Live!Misfit => shown = refreshed \/ shown <= mailbox
    /\ capturer = "store" /\ grabbed # Live!Misfit =>
         /\ shown = refreshed \/ shown <= grabbed
         /\ ready /\ mailbox # Live!Misfit => mailbox <= grabbed

\* The numbers of the pictures.
LEMMA PicturesTyped ==
    ASSUME Typed
    PROVE  /\ content \in Int /\ grabbed \in Int /\ mailbox \in Int /\ shown \in Int
           /\ stored \in Int /\ refreshed \in Int /\ -1 <= content
           /\ Live!Taken \subseteq {content, -1}
BY CaptureAssumption DEF Typed, Live!TypeOK, Live!Pictures, Live!None, Live!Misfit, Live!Taken

\* Only the picture of the C key is newer than one that is still to come.
LEMMA LiveStep ==
    ASSUME Typed, LiveInv, [Next]_vars
    PROVE  /\ LiveInv'
           /\ shown' < shown => shown = refreshed /\ shown' = stored
<1> USE DEF Live!Misfit
<1>1. CASE StartPicture
  <2>1. phase = "picture" /\ phase' = "window"
        /\ UNCHANGED <<content, capturer, grabbed, mailbox, ready, stored, refreshed>>
        /\ shown' \in {content, shown}
    BY <1>1 DEF StartPicture, Starts, Live!FirstPicture
  <2>2. capturer = "none" /\ ~ready
    BY <2>1 DEF LiveInv, StartPhases
  <2> QED BY <2>1, <2>2, PicturesTyped, CaptureAssumption
             DEF LiveInv, StartPhases, Typed, Live!TypeOK
<1>2. CASE StartSdk
  <2>1. phase = "sdk" /\ phase' \in {"events", "join"} /\ capturer' \in {"check", capturer}
        /\ UNCHANGED <<content, grabbed, mailbox, ready, shown, stored, refreshed>>
    BY <1>2 DEF StartSdk, Live!Launch
  <2>2. capturer = "none" /\ ~ready
    BY <2>1 DEF LiveInv, StartPhases
  <2> QED BY <2>1, <2>2, PicturesTyped DEF LiveInv, StartPhases
<1>3. CASE EndEvents
  <2>1. phase = "events" /\ phase' = "frame" /\ ready' = FALSE
        /\ UNCHANGED <<content, capturer, grabbed, stored, refreshed>>
    BY <1>3 DEF EndEvents, Live!Take
  <2>2. CASE ready
    <3>1. mailbox' = 0 /\ shown' = IF mailbox = -1 THEN shown ELSE mailbox
      BY <1>3, <2>2 DEF EndEvents, Live!Take, Live!Applied, Live!None
    <3>2. 0 <= content
      BY CaptureAssumption DEF Typed, Live!TypeOK
    <3> QED BY <2>1, <2>2, <3>1, <3>2, PicturesTyped DEF LiveInv, StartPhases
  <2>3. CASE ~ready
    <3>1. mailbox' = mailbox /\ shown' = shown
      BY <1>3, <2>3 DEF EndEvents, Live!Take
    <3> QED BY <2>1, <2>3, <3>1, PicturesTyped DEF LiveInv, StartPhases
  <2> QED BY <2>2, <2>3
<1>4. CASE RefreshKey
  <2>1. /\ phase = "events" /\ phase' = phase
        /\ UNCHANGED <<content, capturer, grabbed, mailbox, ready, stored>>
        /\ refreshed' = shown'
    BY <1>4 DEF RefreshKey, Live!Refresh, Live!viewer
  <2>2. PICK picture \in Live!Taken : shown' = Live!Applied(picture)
    BY <1>4 DEF RefreshKey, Live!Refresh
  <2>3. shown' \in {content, shown} /\ shown' # -1
    BY <2>2, PicturesTyped DEF Live!Applied, LiveInv
  <2> QED BY <2>1, <2>3, PicturesTyped DEF LiveInv, StartPhases
<1>5. CASE CaptureThread
  <2>1. phase' = phase /\ UNCHANGED <<content, shown, refreshed>> /\ capturer' # "none"
        /\ capturer # "none"
    BY <1>5 DEF CaptureThread, Live!CaptureThread, Live!CaptureCheck, Live!CaptureGrab,
                Live!CaptureFails, Live!CapturePaused, Live!CaptureStore, Live!viewer
  <2>2. phase \notin StartPhases
    BY <2>1 DEF LiveInv
  <2>3. CASE Live!CaptureGrab
    <3>1. grabbed' \in {content, -1} /\ UNCHANGED <<mailbox, ready, stored>>
      BY <2>3, PicturesTyped DEF Live!CaptureGrab
    <3> QED BY <2>1, <2>2, <3>1, PicturesTyped DEF LiveInv
  <2>4. CASE Live!CaptureStore
    <3>1. /\ mailbox' = grabbed /\ stored' = grabbed /\ grabbed' = 0
          /\ capturer = "store" /\ capturer' = "check"
      BY <2>4 DEF Live!CaptureStore, Live!None
    <3>2. 0 <= content
      BY CaptureAssumption DEF Typed, Live!TypeOK
    <3> QED BY <2>1, <2>2, <3>1, <3>2, PicturesTyped DEF LiveInv
  <2>5. CASE Live!CaptureCheck \/ Live!CaptureFails \/ Live!CapturePaused
    <3>1. UNCHANGED <<grabbed, mailbox, ready, stored>> /\ capturer' # "store"
      BY <2>5 DEF Live!CaptureCheck, Live!CaptureFails, Live!CapturePaused
    <3> QED BY <2>1, <2>2, <3>1, PicturesTyped DEF LiveInv
  <2> QED BY <1>5, <2>3, <2>4, <2>5 DEF CaptureThread, Live!CaptureThread
<1>6. CASE DesktopChanges
  <2>1. content' = content + 1 /\ phase' = phase
        /\ UNCHANGED <<capturer, grabbed, mailbox, ready, shown, stored, refreshed>>
    BY <1>6 DEF DesktopChanges, Live!Redraw, Live!viewer
  <2> QED BY <2>1, PicturesTyped DEF LiveInv
<1>7. CASE UNCHANGED capture
  <2>1. phase' \in StartPhases => phase \in StartPhases
    BY PhaseSteps
  <2> QED BY <1>7, <2>1, PicturesTyped DEF LiveInv
<1> QED BY <1>1, <1>2, <1>3, <1>4, <1>5, <1>6, <1>7, LiveMoves

\* The picture goes back only from one the C key took, to one the capture
\* thread was already carrying.
THEOREM PicturesGoForward == Spec => PictureGoesForward
<1>1. ASSUME Init PROVE LiveInv
  <2>1. ~ready
    BY <1>1, Zenon DEF Init, Live!Init
  <2> QED BY <1>1, <2>1 DEF Init, Live!Init, LiveInv, Live!None, Live!Misfit
<1>2. Typed /\ LiveInv /\ [Next]_vars => LiveInv'
  BY LiveStep
<1>3. Typed /\ LiveInv /\ [Next]_vars =>
        [shown' < shown => shown = refreshed /\ shown' = stored]_<<Live!capture, Live!viewer, now>>
  BY LiveStep
<1> QED BY <1>1, <1>2, <1>3, AlwaysTyped, PTL DEF Spec, PictureGoesForward,
           Live!PictureGoesForward
=============================================================================
