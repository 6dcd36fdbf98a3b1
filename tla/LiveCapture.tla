---------------------------- MODULE LiveCapture ----------------------------
(***************************************************************************)
(* The live desktop picture of the pinned viewport                         *)
(* (src/examples/pinned_viewport/main.cpp): a thread that runs spectacle,  *)
(* reads its file and leaves the picture in a one-place mailbox; the loop,  *)
(* which takes it once an iteration; and the C key, which takes a picture  *)
(* of its own on the loop's thread.                                        *)
(*                                                                         *)
(* A picture is the version of the desktop it was taken of.  A picture     *)
(* whose size no longer fits the texture is Misfit.                        *)
(***************************************************************************)
EXTENDS ViewerState

VARIABLES
    content,    \* the version the source monitor shows
    capturer,   \* where the capture thread is
    grabbed,    \* the picture in the thread's hands
    mailbox,    \* liveCapture.pending
    ready,      \* liveCapture.ready
    shown,      \* the picture in the texture
    stored,     \* history: the last picture the thread stored
    refreshed   \* history: the last picture of the C key

capture == <<content, capturer, grabbed, mailbox, ready, shown,
             stored, refreshed>>

None == 0
Misfit == -1
Pictures == {None, Misfit} \union (1 .. MaxPictures)

Capturing == mode \in CapturedModes
CaptureLives == capturer \notin {"none", "done"}

\* Every variable has its type.
TypeOK ==
    /\ content \in 1 .. MaxPictures
    /\ capturer \in {"none", "check", "grab", "store", "pause", "done"}
    /\ {grabbed, mailbox, shown, stored, refreshed} \subseteq Pictures
    /\ ready \in BOOLEAN

Init ==
    /\ content = 1
    /\ capturer = "none"
    /\ grabbed = None /\ mailbox = None /\ ready = FALSE
    /\ shown = None /\ stored = None /\ refreshed = None

\* The source monitor goes on changing.
Redraw ==
    /\ Capturing /\ phase \in LoopPhases /\ content < MaxPictures
    /\ content' = content + 1
    /\ UNCHANGED <<viewer, now, capturer, grabbed, mailbox, ready,
                   shown, stored, refreshed>>

\* What one run of spectacle may bring.  Where the picture is cropped to the
\* source monitor it has that monitor's size; the whole desktop of the pan
\* mode may have changed its own.
Taken == {content} \union (IF mode = "pan" THEN {Misfit} ELSE {})

----------------------------------------------------------------------------
(* The loop's thread.  FirstPicture and Launch are parts of main()'s       *)
(* start-up, Take of the step that ends the SDL events.                    *)

FirstPicture ==
    /\ shown' = content
    /\ UNCHANGED <<content, capturer, grabbed, mailbox, ready, stored,
                   refreshed>>

Launch ==
    /\ capturer' = IF Capturing THEN "check" ELSE capturer
    /\ UNCHANGED <<content, grabbed, mailbox, ready, shown, stored,
                   refreshed>>

\* applyLiveFrame refuses a picture that does not fit.
Applied(picture) == IF picture = Misfit THEN shown ELSE picture

Take ==
    /\ ready' = FALSE
    /\ mailbox' = IF ready THEN None ELSE mailbox
    /\ shown' = IF ready THEN Applied(mailbox) ELSE shown
    /\ UNCHANGED <<content, capturer, grabbed, stored, refreshed>>

\* The C key: a picture or, when spectacle or the crop fails, nothing.
Refresh ==
    /\ Capturing /\ phase = "events"
    /\ \E picture \in Taken :
         /\ shown' = Applied(picture)
         /\ refreshed' = shown'
    /\ UNCHANGED <<viewer, now, content, capturer, grabbed, mailbox,
                   ready, stored>>

----------------------------------------------------------------------------
(* The capture thread. *)

\* Mutant of CaptureCheck: nobody tells the thread to stop.
CaptureCheckDeaf ==
    /\ capturer = "check"
    /\ capturer' = "grab"
    /\ UNCHANGED <<viewer, now, content, grabbed, mailbox, ready, shown,
                   stored, refreshed>>

CaptureCheck ==
    /\ capturer = "check"
    /\ capturer' = IF ended THEN "done" ELSE "grab"
    /\ UNCHANGED <<viewer, now, content, grabbed, mailbox, ready, shown,
                   stored, refreshed>>

CaptureGrab ==
    /\ capturer = "grab" /\ capturer' = "store"
    /\ grabbed' \in Taken
    /\ UNCHANGED <<viewer, now, content, mailbox, ready, shown, stored,
                   refreshed>>

\* spectacle, its file or the crop fails: try again in 100 ms.
CaptureFails ==
    /\ capturer = "grab" /\ capturer' = "pause"
    /\ UNCHANGED <<viewer, now, content, grabbed, mailbox, ready, shown,
                   stored, refreshed>>

CapturePaused ==
    /\ capturer = "pause" /\ capturer' = "check"
    /\ UNCHANGED <<viewer, now, content, grabbed, mailbox, ready, shown,
                   stored, refreshed>>

\* Mutant of CaptureStore: a picture nobody took stays in the mailbox.
CaptureStoreFirst ==
    /\ capturer = "store" /\ capturer' = "check"
    /\ mailbox' = IF ready THEN mailbox ELSE grabbed
    /\ ready' = TRUE
    /\ stored' = grabbed
    /\ grabbed' = None
    /\ UNCHANGED <<viewer, now, content, shown, refreshed>>

\* Mutant of CaptureStore: the picture is not announced.
CaptureStoreSilently ==
    /\ capturer = "store" /\ capturer' = "check"
    /\ mailbox' = grabbed
    /\ stored' = grabbed
    /\ grabbed' = None
    /\ UNCHANGED <<viewer, now, content, ready, shown, refreshed>>

\* Under the mutex: a picture nobody took is replaced.
CaptureStore ==
    /\ capturer = "store" /\ capturer' = "check"
    /\ mailbox' = grabbed /\ ready' = TRUE
    /\ stored' = grabbed
    /\ grabbed' = None
    /\ UNCHANGED <<viewer, now, content, shown, refreshed>>

CaptureThread ==
    CaptureCheck \/ CaptureGrab \/ CaptureFails \/ CapturePaused \/ CaptureStore

----------------------------------------------------------------------------
(* What the live picture promises. *)

\* The loop shows pictures in the order they were taken: the picture goes back
\* only from one the C key took, to one the thread was already carrying.
PictureGoesForward ==
    [][shown' < shown => shown = refreshed /\ shown' = stored]_<<capture, viewer, now>>

\* While the viewer runs, spectacle works now and then and its pictures fit, the
\* last picture of the source monitor is shown, and stays.
PictureCatchesUp ==
    <>[](Capturing /\ phase \in LoopPhases /\ content = MaxPictures /\ grabbed # Misfit)
        => <>[](shown = MaxPictures)
=============================================================================
