---------------------------- MODULE ViewerState ----------------------------
(***************************************************************************)
(* What the parts of the pinned viewport share                             *)
(* (src/examples/pinned_viewport/main.cpp): the mode chosen on the command *)
(* line, where main() is, the two flags that end its loop, and SDL's       *)
(* millisecond counter.  The parts EXTEND this module; Viewer composes     *)
(* them.                                                                   *)
(***************************************************************************)
EXTENDS Integers

CONSTANTS
    TickModulus,  \* SDL_GetTicks counts modulo this (2^32 ms)
    MaxLag,       \* bound: ticks from one frame to the next, at least one
    Angles,       \* head angles in whole degrees, as the tracker signs them
    Debounce,     \* 150 ms
    Cooldown,     \* 350 ms
    Retry,        \* 1000 ms
    CalibrationLength,  \* 500 samples
    StillLength,        \* 250 samples
    MaxPictures,    \* bound: versions the source desktop goes through
    CapturedModes,  \* bound: modes whose capture thread is explored
    Buttons,      \* left, right, middle: they behave alike
    Width,        \* columns of the window, and of a panel
    Views         \* columns the window's left edge looks at

ASSUME TickAssumption ==
    /\ TickModulus \in Nat /\ MaxLag \in Nat
    /\ 0 < MaxLag /\ MaxLag < TickModulus

ASSUME SwitchAssumption ==
    /\ Angles \subseteq Int /\ 0 \in Angles
    /\ Debounce \in Nat /\ Cooldown \in Nat /\ Retry \in Nat
    /\ Debounce < Cooldown /\ Cooldown <= Retry /\ Retry < TickModulus

ASSUME TrackerAssumption ==
    CalibrationLength \in Nat \ {0} /\ StillLength \in Nat

ASSUME CaptureAssumption ==
    /\ MaxPictures \in Nat \ {0}
    /\ CapturedModes \subseteq {"pan", "two", "grid"}

ASSUME PointerAssumption ==
    /\ Width \in Nat \ {0}
    /\ Views \subseteq 0 .. 2 * Width
    /\ {"none", "other"} \intersect Buttons = {}

VARIABLES
    mode,     \* what the flags ask for
    phase,    \* where main() is
    running,  \* the loop's own flag
    stop,     \* stopRequested, set by the signal handler
    ended,    \* liveCapture.stop, set when the loop is left
    now       \* SDL_GetTicks() as the last frame read it

viewer == <<mode, phase, running, stop, ended>>

\* --headtracking, --portal-live, --pinned-source (or no flag),
\* --kde-two-workspaces, --kde-workspaces; one flag at a time.
Modes == {"demo", "portal", "pan", "two", "grid"}
StartPhases == {"sdl", "picture", "window", "gl", "sdk"}
LoopPhases == {"events", "frame"}
Phases == StartPhases \union LoopPhases \union {"join", "over"}

Ticks == 0 .. TickModulus - 1
Lags == 1 .. MaxLag
After(lag) == (now + lag) % TickModulus

\* uint32_t subtraction: right even when the counter has wrapped once.
Elapsed(since, t) == (t - since) % TickModulus

\* The end of an iteration: the loop's test, and the first thing after it.
EndFrame(lag) ==
    /\ phase = "frame"
    /\ phase' = IF running /\ ~stop THEN "events" ELSE "join"
    /\ ended' = (phase' = "join")
    /\ now' = After(lag)
    /\ UNCHANGED <<mode, running, stop>>

AtMost(bound, x) == IF x > bound THEN bound ELSE x
=============================================================================
