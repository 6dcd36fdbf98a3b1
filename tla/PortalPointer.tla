--------------------------- MODULE PortalPointer ---------------------------
(***************************************************************************)
(* The pointer of the viewer's portal mode                                 *)
(* (src/examples/pinned_viewport/main.cpp and portal_capture.cpp): mouse   *)
(* events move the viewer's pointer, a frame passes its place and at most  *)
(* one button on to the desktop through the RemoteDesktop portal, and on   *)
(* the Chrome panel the viewer lets the real pointer through by shrinking  *)
(* its Wayland input region to a strip.                                    *)
(*                                                                         *)
(* The canvas is counted in columns, Width of them to a panel: nothing,    *)
(* then the Samsung panel, then the Chrome panel.  A head that looks above *)
(* or below them is one that looks at nothing.                             *)
(***************************************************************************)
EXTENDS ViewerState

VARIABLES
    confinable,     \* does SDL_SetRelativeMouseMode(SDL_TRUE) work?
    haveRegion,     \* haveWaylandInputRegion
    relative,       \* SDL_GetRelativeMouseMode()
    region,         \* the surface's input region
    view,           \* viewX, in columns
    mouse,          \* mouseX, in columns
    passthrough,    \* portalPassthrough
    chromeActive,   \* portalChromePanelActive
    dirty,          \* portalPointerDirty
    button,         \* pendingPortalButton, pendingPortalButtonPressed
    suppressing,    \* SDL_GetTicks() < suppressInjectedMotionUntil
    pictured,       \* has the monitor stream delivered a frame?
    echoes,         \* is an echo of an injected motion still to come?
    held,           \* the buttons the desktop believes to be down
    pointer,        \* where on the canvas the desktop's pointer was put
    down,           \* the buttons the user holds
    lost            \* history: the buttons whose last event was not passed on

desk == <<held, pointer>>
portal == <<confinable, haveRegion, relative, region, view, mouse, passthrough,
            chromeActive, dirty, button, suppressing, pictured, echoes, desk, down, lost>>

None == -1
NoButton == [code |-> "none", pressed |-> FALSE]
Columns == 0 .. 3 * Width - 1

Pointing == mode = "portal"

\* Every variable has its type.
TypeOK ==
    /\ {confinable, haveRegion, relative, passthrough, chromeActive, dirty,
        suppressing, pictured, echoes} \subseteq BOOLEAN
    /\ region \in {"whole", "strip"}
    /\ view \in 0 .. 2 * Width /\ mouse \in 0 .. Width - 1
    /\ button \in [code : Buttons \union {"none"}, pressed : BOOLEAN]
    /\ held \subseteq Buttons /\ down \subseteq Buttons /\ lost \subseteq Buttons
    /\ pointer \in Columns \union {None}

Init ==
    /\ confinable \in BOOLEAN /\ haveRegion \in BOOLEAN
    /\ ~Pointing => ~confinable /\ ~haveRegion
    /\ relative = FALSE /\ region = "whole"
    /\ view = Width /\ mouse = Width \div 2
    /\ passthrough = FALSE /\ chromeActive = FALSE
    /\ dirty = Pointing /\ button = NoButton
    /\ suppressing = FALSE /\ echoes = FALSE
    /\ pictured = FALSE
    /\ held = {} /\ pointer = None
    /\ down = {} /\ lost = {}

----------------------------------------------------------------------------
(* SDL's mouse events. *)

InEvents ==
    /\ Pointing /\ phase = "events"
    /\ UNCHANGED <<viewer, now, confinable, haveRegion, view, suppressing, pictured,
                   desk>>

\* Mutant of Clamped: the pointer is not kept on its panel.
MoveUnclamped(column) == column

Clamped(column) == IF column < 0 THEN 0 ELSE AtMost(Width - 1, column)

\* A motion event: a step in relative mode, a column otherwise.  While the real
\* pointer passes through, it can only come from the strip.
Moved(step, column) ==
    /\ IF passthrough
         THEN /\ region' = "whole" /\ relative' = confinable
              /\ passthrough' = FALSE /\ chromeActive' = TRUE
              /\ mouse' = column
         ELSE /\ mouse' = IF relative THEN Clamped(mouse + step) ELSE column
              /\ UNCHANGED <<region, relative, passthrough, chromeActive>>
    /\ dirty' = TRUE

Unmoved == UNCHANGED <<region, relative, passthrough, chromeActive, mouse, dirty>>

UserMoves(step, column) ==
    /\ InEvents
    /\ region = "strip" => column = 0
    /\ IF suppressing THEN Unmoved ELSE Moved(step, column)
    /\ UNCHANGED <<button, echoes, down, lost>>

\* The desktop echoes a motion the viewer has injected: an event like the
\* user's, and 100 ms after the motion treated like one.
EchoArrives(step, column) ==
    /\ InEvents
    /\ echoes /\ echoes' = FALSE
    /\ IF suppressing THEN Unmoved ELSE Moved(step, column)
    /\ UNCHANGED <<button, down, lost>>

\* The 100 ms are over.
SuppressionEnds ==
    /\ Pointing /\ phase = "events"
    /\ suppressing /\ suppressing' = FALSE
    /\ UNCHANGED <<viewer, now, confinable, haveRegion, relative, region, view, mouse,
                   passthrough, chromeActive, dirty, button, pictured, echoes, desk,
                   down, lost>>

\* The button whose event waits for the frame.
Pending == {button.code} \intersect Buttons

\* A button event: the frame's one place for it is overwritten.  A button that
\* is none of the three empties it.
ButtonEvent(code, pressed, column) ==
    /\ InEvents
    /\ mouse' = IF relative THEN mouse ELSE column
    /\ dirty' = TRUE
    /\ button' = IF code = "other" THEN NoButton ELSE [code |-> code, pressed |-> pressed]
    /\ lost' = (lost \union Pending) \ {code}
    /\ UNCHANGED <<region, relative, passthrough, chromeActive, echoes>>

UserPresses(code, column) ==
    /\ code \notin down /\ down' = down \union {code}
    /\ ButtonEvent(code, TRUE, column)

UserReleases(code, column) ==
    /\ code \in down /\ down' = down \ {code}
    /\ ButtonEvent(code, FALSE, column)

OtherButton(column) == ButtonEvent("other", TRUE, column) /\ UNCHANGED down

----------------------------------------------------------------------------
(* The frame. *)

\* takeFrame brings the monitor's first picture, and with it its size.
FirstFrame ==
    /\ Pointing /\ phase = "frame" /\ ~pictured
    /\ pictured' = TRUE
    /\ UNCHANGED <<viewer, now, confinable, haveRegion, relative, region, view, mouse,
                   passthrough, chromeActive, dirty, button, suppressing, echoes,
                   desk, down, lost>>

\* The tracker turns the view.
LookAt(column) ==
    /\ Pointing /\ phase = "frame" /\ view # column
    /\ view' = column
    /\ UNCHANGED <<viewer, now, confinable, haveRegion, relative, region, mouse,
                   passthrough, chromeActive, dirty, button, suppressing, pictured,
                   echoes, desk, down, lost>>

Place == view + mouse
OnChrome == Place \div Width = 2
OnPanel == Place \div Width \in {1, 2}

Enters == haveRegion /\ OnChrome /\ ~chromeActive /\ ~passthrough
Leaves == passthrough /\ ~OnChrome

\* Mutant of SwitchPassthrough: leaving takes the pointer and not its region.
SwitchKeepsStrip ==
    /\ passthrough' = (Enters \/ (passthrough /\ ~Leaves))
    /\ region' = IF Enters THEN "strip" ELSE region
    /\ relative' = IF Enters THEN FALSE ELSE IF Leaves THEN confinable ELSE relative
    /\ chromeActive' = OnChrome

\* Entering the Chrome panel lets the real pointer through, leaving it takes
\* it back.
SwitchPassthrough ==
    /\ passthrough' = (Enters \/ (passthrough /\ ~Leaves))
    /\ region' = IF Enters THEN "strip" ELSE IF Leaves THEN "whole" ELSE region
    /\ relative' = IF Enters THEN FALSE ELSE IF Leaves THEN confinable ELSE relative
    /\ chromeActive' = OnChrome

\* The pointer's place goes to the desktop, then the button.  Outside the
\* panels, or before the first picture, what was pending is dropped.
MovesPointer == (dirty \/ Leaves) /\ OnPanel /\ pictured
\* Mutant of Forwards: only a frame that moves the pointer passes its button on.
ForwardsWithMotion == button # NoButton /\ MovesPointer

Forwards == button # NoButton /\ OnPanel

PointerFrame ==
    /\ Pointing /\ EndFrame(0)
    /\ SwitchPassthrough
    /\ IF MovesPointer
         THEN pointer' = Place /\ suppressing' = TRUE /\ echoes' = TRUE
         ELSE UNCHANGED <<pointer, suppressing, echoes>>
    /\ held' = IF ~Forwards THEN held
               ELSE IF button.pressed THEN held \union {button.code}
               ELSE held \ {button.code}
    /\ lost' = IF OnPanel THEN lost ELSE lost \union Pending
    /\ dirty' = FALSE /\ button' = NoButton
    /\ UNCHANGED <<confinable, haveRegion, view, mouse, pictured, down>>

----------------------------------------------------------------------------
(* Parts of main()'s start-up and of its end. *)

Confine ==
    /\ relative' = (Pointing /\ confinable)
    /\ UNCHANGED <<confinable, haveRegion, region, view, mouse, passthrough,
                   chromeActive, dirty, button, suppressing, pictured, echoes,
                   desk, down, lost>>

\* portalCapture.stop() ends the session and with it what the desktop holds;
\* waylandInput.reset() and SDL give the pointer back.
Release ==
    /\ held' = {}
    /\ region' = "whole" /\ relative' = FALSE
    /\ UNCHANGED <<confinable, haveRegion, view, mouse, passthrough, chromeActive,
                   dirty, button, suppressing, pictured, echoes, pointer,
                   down, lost>>

----------------------------------------------------------------------------
(* What the pointer promises. *)

\* While the viewer runs, the four records of who has the pointer agree:
\* the strip is there exactly in passthrough, which only the Chrome panel of a
\* surface with a region enters; without it the pointer is confined if it can
\* be.  A viewer that has ended holds neither the pointer nor a button.
PointerIsOwned ==
    /\ phase \in LoopPhases \union {"join"} =>
         /\ passthrough <=> region = "strip"
         /\ passthrough => haveRegion /\ chromeActive
         /\ relative = (Pointing /\ confinable /\ ~passthrough)
    /\ phase = "over" => region = "whole" /\ ~relative /\ held = {}

\* A button event is lost when another button's comes before the frame, or the
\* frame looks at no panel.  The desktop disagrees with the user about a button
\* only from then to the frame that passes that button's next event on: no loss
\* spreads to other buttons or outlives the next event, and a press and its release
\* within a frame leave nothing behind.
ButtonsAgree ==
    phase # "over" =>
      \A code \in Buttons \ (lost \union Pending) : code \in held <=> code \in down
=============================================================================
