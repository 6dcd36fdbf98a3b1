--------------------------- MODULE PortalCapture ---------------------------
(***************************************************************************)
(* PortalCapture (src/examples/pinned_viewport/portal_capture.cpp) and the *)
(* way the viewer's main thread uses it: two portal sessions are opened by *)
(* a chain of D-Bus requests, each request is answered by a Response       *)
(* signal, each session yields one PipeWire stream, and from then on the   *)
(* PipeWire thread puts pictures into one mailbox per stream from which    *)
(* the drawing loop takes them.                                            *)
(*                                                                         *)
(* The portal, the user in front of its dialogs, GDBus and PipeWire are    *)
(* the environment.  GDBus hands a signal to the subscriptions it finds    *)
(* when the signal arrives; nobody keeps a signal for a later one.         *)
(* A picture is a number, and copying one takes two steps under the lock.  *)
(***************************************************************************)
EXTENDS Naturals, Sequences

CONSTANT MaxPictures    \* bound: pictures each stream delivers

ASSUME PicturesAssumption == MaxPictures \in Nat

Streams == {"monitor", "window"}

\* The calls of PortalCapture::start, in order: what is asked, and for which
\* session.
Steps == << [ask |-> "create", of |-> "monitor"], [ask |-> "select", of |-> "monitor"],
            [ask |-> "select", of |-> "monitor"], [ask |-> "start", of |-> "monitor"],
            [ask |-> "open", of |-> "monitor"], [ask |-> "create", of |-> "window"],
            [ask |-> "select", of |-> "window"], [ask |-> "start", of |-> "window"],
            [ask |-> "open", of |-> "window"] >>

VARIABLES
    mpc,            \* where the main thread is
    step,           \* the call of start it is at
    asked,          \* does the portal owe a Response?
    result,         \* RequestResult: "none", "granted" or "refused"
    sessions,       \* sessions that are open at the portal
    sessionPaths,   \* Impl::sessionPaths
    listed,         \* Impl::streams: the streams the portal announced
    connected,      \* streams with a non-null Stream::pipewire
    loopStarted,    \* Impl::loopStarted
    format,         \* Stream::haveFormat
    pw,             \* the PipeWire thread: "idle", or the copy it is at
    busy,           \* the stream it copies a picture for
    sent,           \* pictures each stream has delivered
    frame,          \* Stream::frame, the picture each half of it is from
    ready,          \* Stream::ready
    shown,          \* portalFrames of the drawing loop
    stopRequested   \* set by SIGINT and SIGTERM

setup == <<step, asked, result, sessions, sessionPaths, listed, connected>>
capture == <<loopStarted, format, pw, busy, sent, frame, ready>>
vars == <<mpc, setup, capture, shown, stopRequested>>

Setup == {"ask", "subscribe", "wait", "open"}
Stopping == {"stopLoop", "destroy", "close"}
Pictures == 0 .. MaxPictures

MainOK ==
    /\ mpc \in Setup \union Stopping
               \union {"ready", "loop", "takeMonitor", "takeWindow", "exited"}
    /\ shown \in [Streams -> Pictures \X Pictures]
    /\ stopRequested \in BOOLEAN
SetupOK ==
    /\ step \in 1 .. Len(Steps)
    /\ asked \in BOOLEAN
    /\ result \in {"none", "granted", "refused"}
    /\ sessions \subseteq Streams /\ sessionPaths \subseteq Streams
    /\ listed \subseteq Streams /\ connected \subseteq Streams
CaptureOK ==
    /\ loopStarted \in BOOLEAN
    /\ format \subseteq Streams
    /\ pw \in {"idle", "first", "second"} /\ busy \in Streams
    /\ sent \in [Streams -> Pictures]
    /\ frame \in [Streams -> Pictures \X Pictures]
    /\ ready \subseteq Streams

\* Every variable has its type.
TypeOK == MainOK /\ SetupOK /\ CaptureOK

Nothing == [s \in Streams |-> <<0, 0>>]

Init ==
    /\ mpc = "ask" /\ step = 1
    /\ asked = FALSE /\ result = "none"
    /\ sessions = {} /\ sessionPaths = {} /\ listed = {} /\ connected = {}
    /\ loopStarted = FALSE /\ format = {}
    /\ pw = "idle" /\ busy = "monitor"
    /\ sent = [s \in Streams |-> 0]
    /\ frame = Nothing /\ ready = {}
    /\ shown = Nothing
    /\ stopRequested = FALSE

----------------------------------------------------------------------------
(* PortalCapture::start; whatever fails, the viewer exits and the destructor *)
(* runs stop                                                                 *)

Ask == Steps[step].ask
Of == Steps[step].of

\* start returns false: the viewer returns 1.
Fail ==
    /\ mpc \in {"ask", "open"}
    /\ mpc' = "stopLoop"
    /\ UNCHANGED <<setup, capture, shown, stopRequested>>

\* callRequest: the portal has accepted the request and answers later.
CallRequest ==
    /\ mpc = "ask" /\ Ask # "open"
    /\ asked' = TRUE /\ result' = "none"
    /\ mpc' = "subscribe"
    /\ UNCHANGED <<step, sessions, sessionPaths, listed, connected, capture,
                   shown, stopRequested>>

\* waitForRequest subscribes to Response and runs a main loop, which only
\* onRequestResponse quits.
Subscribe ==
    /\ mpc = "subscribe"
    /\ mpc' = "wait"
    /\ UNCHANGED <<setup, capture, shown, stopRequested>>

\* The next call of start: openRemote where the chain has "open".
Proceed ==
    /\ step' = step + 1
    /\ mpc' = IF Steps[step + 1].ask = "open" THEN "open" ELSE "ask"

\* A careless start that treats a refusal as a state of its own.
RefusedOddly ==
    /\ mpc = "wait" /\ result = "refused"
    /\ mpc' = "refused"
    /\ UNCHANGED <<setup, capture, shown, stopRequested>>

\* The answer is no, or a CreateSession's without a session_handle.
Refused ==
    /\ mpc = "wait" /\ result = "refused"
    /\ mpc' = "stopLoop"
    /\ UNCHANGED <<setup, capture, shown, stopRequested>>

Created ==
    /\ mpc = "wait" /\ result = "granted" /\ Ask = "create"
    /\ sessionPaths' = sessionPaths \union {Of}
    /\ Proceed
    /\ UNCHANGED <<asked, result, sessions, listed, connected, capture, shown,
                   stopRequested>>

Selected ==
    /\ mpc = "wait" /\ result = "granted" /\ Ask = "select"
    /\ Proceed
    /\ UNCHANGED <<asked, result, sessions, sessionPaths, listed, connected,
                   capture, shown, stopRequested>>

\* addSingleStream: one stream of the expected type.
Started ==
    /\ mpc = "wait" /\ result = "granted" /\ Ask = "start"
    /\ listed' = listed \union {Of}
    /\ Proceed
    /\ UNCHANGED <<asked, result, sessions, sessionPaths, connected, capture,
                   shown, stopRequested>>

\* The user picked a source of the other kind, or the portal withheld the
\* pointer or announced another number of streams.
StartedWrongly ==
    /\ mpc = "wait" /\ result = "granted" /\ Ask = "start"
    /\ listed' \in {listed, listed \union {Of}}
    /\ mpc' = "stopLoop"
    /\ UNCHANGED <<step, asked, result, sessions, sessionPaths, connected,
                   capture, shown, stopRequested>>

\* openRemote and startPipeWire; the thread starts with the second stream.
Open ==
    /\ mpc = "open"
    /\ connected' = connected \union {Of}
    /\ loopStarted' = (Of = "window")
    /\ IF Of = "window" THEN mpc' = "ready" /\ step' = step ELSE Proceed
    /\ UNCHANGED <<asked, result, sessions, sessionPaths, listed, format, pw,
                   busy, sent, frame, ready, shown, stopRequested>>

\* startPipeWire fails after pw_stream_new.
OpenHalf ==
    /\ mpc = "open"
    /\ connected' = connected \union {Of}
    /\ mpc' = "stopLoop"
    /\ UNCHANGED <<step, asked, result, sessions, sessionPaths, listed, capture,
                   shown, stopRequested>>

----------------------------------------------------------------------------
(* The viewer's main thread after start *)

\* Window, glasses and textures: any of them may fail.
Ready ==
    /\ mpc = "ready"
    /\ mpc' \in {"loop", "stopLoop"}
    /\ UNCHANGED <<setup, capture, shown, stopRequested>>

\* while (running && !stopRequested); Escape and a DETACHED event clear running.
Loop ==
    /\ mpc = "loop"
    /\ mpc' \in IF stopRequested THEN {"stopLoop"} ELSE {"takeMonitor", "stopLoop"}
    /\ UNCHANGED <<setup, capture, shown, stopRequested>>

\* A careless takeFrame that does not lock.
TakeFrameUnlocked(s, next) ==
    /\ IF s \in ready
         THEN shown' = [shown EXCEPT ![s] = frame[s]] /\ ready' = ready \ {s}
         ELSE UNCHANGED <<shown, ready>>
    /\ mpc' = next
    /\ UNCHANGED <<setup, loopStarted, format, pw, busy, sent, frame, stopRequested>>

\* takeFrame, which waits for the stream's lock.
TakeFrame(s, next) ==
    /\ ~(pw = "second" /\ busy = s)
    /\ IF s \in ready
         THEN shown' = [shown EXCEPT ![s] = frame[s]] /\ ready' = ready \ {s}
         ELSE UNCHANGED <<shown, ready>>
    /\ mpc' = next
    /\ UNCHANGED <<setup, loopStarted, format, pw, busy, sent, frame, stopRequested>>

TakeMonitor == mpc = "takeMonitor" /\ TakeFrame("monitor", "takeWindow")
TakeWindow == mpc = "takeWindow" /\ TakeFrame("window", "loop")

----------------------------------------------------------------------------
(* PortalCapture::stop *)

\* A careless stop that does not wait for the PipeWire thread.
StopLoopAtOnce ==
    /\ mpc = "stopLoop"
    /\ loopStarted' = FALSE
    /\ mpc' = "destroy"
    /\ UNCHANGED <<setup, format, pw, busy, sent, frame, ready, shown, stopRequested>>

\* pw_thread_loop_stop joins the thread.
StopLoop ==
    /\ mpc = "stopLoop"
    /\ pw = "idle"
    /\ loopStarted' = FALSE
    /\ mpc' = "destroy"
    /\ UNCHANGED <<setup, format, pw, busy, sent, frame, ready, shown, stopRequested>>

DestroyStreams ==
    /\ mpc = "destroy"
    /\ connected' = {}
    /\ mpc' = "close"
    /\ UNCHANGED <<step, asked, result, sessions, sessionPaths, listed, capture,
                   shown, stopRequested>>

\* A careless stop that closes only sessions with a connected stream.
CloseListed ==
    /\ mpc = "close"
    /\ sessions' = sessions \ listed
    /\ sessionPaths' = {} /\ listed' = {}
    /\ mpc' = "exited"
    /\ UNCHANGED <<step, asked, result, connected, capture, shown, stopRequested>>

CloseSessions ==
    /\ mpc = "close"
    /\ sessions' = sessions \ sessionPaths
    /\ sessionPaths' = {} /\ listed' = {}
    /\ mpc' = "exited"
    /\ UNCHANGED <<step, asked, result, connected, capture, shown, stopRequested>>

----------------------------------------------------------------------------
(* The PipeWire thread *)

\* onParamChanged
ParamChanged(s) ==
    /\ loopStarted /\ pw = "idle" /\ s \in connected
    /\ format' = format \union {s}
    /\ UNCHANGED <<mpc, setup, loopStarted, pw, busy, sent, frame, ready, shown,
                   stopRequested>>

\* onProcess dequeues a buffer; one that comes before the format is dropped.
Process(s) ==
    /\ loopStarted /\ pw = "idle" /\ s \in sessions \intersect connected
    /\ sent[s] < MaxPictures
    /\ sent' = [sent EXCEPT ![s] = @ + 1]
    /\ IF s \in format
         THEN pw' = "first" /\ busy' = s
         ELSE UNCHANGED <<pw, busy>>
    /\ UNCHANGED <<mpc, setup, loopStarted, format, frame, ready, shown, stopRequested>>

\* The copy into Stream::frame, under the stream's lock.
CopyFirst ==
    /\ pw = "first"
    /\ frame' = [frame EXCEPT ![busy][1] = sent[busy]]
    /\ pw' = "second"
    /\ UNCHANGED <<mpc, setup, loopStarted, format, busy, sent, ready, shown, stopRequested>>

CopySecond ==
    /\ pw = "second"
    /\ frame' = [frame EXCEPT ![busy][2] = sent[busy]]
    /\ ready' = ready \union {busy}
    /\ pw' = "idle"
    /\ UNCHANGED <<mpc, setup, loopStarted, format, busy, sent, shown, stopRequested>>

----------------------------------------------------------------------------
(* The portal and the user *)

\* A Response: only a main thread that has subscribed gets it.
Respond(answer) ==
    /\ asked
    /\ asked' = FALSE
    /\ result' = IF mpc = "wait" THEN answer ELSE result
    /\ sessions' = IF answer = "granted" /\ Ask = "create"
                     THEN sessions \union {Of} ELSE sessions
    /\ UNCHANGED <<mpc, step, sessionPaths, listed, connected, capture, shown,
                   stopRequested>>

\* The user ends the sharing; nothing of the viewer listens for that.
Revoke(s) ==
    /\ s \in sessions
    /\ sessions' = sessions \ {s}
    /\ UNCHANGED <<mpc, step, asked, result, sessionPaths, listed, connected,
                   capture, shown, stopRequested>>

\* handleStopSignal
Interrupt ==
    /\ mpc # "exited"
    /\ stopRequested' = TRUE
    /\ UNCHANGED <<mpc, setup, capture, shown>>

----------------------------------------------------------------------------
Start ==
    \/ Fail
    \/ CallRequest
    \/ Subscribe
    \/ Refused
    \/ Created
    \/ Selected
    \/ Started
    \/ StartedWrongly
    \/ Open
    \/ OpenHalf

Main ==
    \/ Ready
    \/ Loop
    \/ TakeMonitor
    \/ TakeWindow
    \/ StopLoop
    \/ DestroyStreams
    \/ CloseSessions

Copying == CopyFirst \/ CopySecond

Finished == mpc = "exited" /\ UNCHANGED vars

Next ==
    \/ Start
    \/ Main
    \/ Finished
    \/ Copying
    \/ \E s \in Streams : ParamChanged(s) \/ Process(s) \/ Revoke(s)
    \/ \E answer \in {"granted", "refused"} : Respond(answer)
    \/ Interrupt

Spec == Init /\ [][Next]_vars

\* The threads run; a lock that is free infinitely often is taken.  Nobody has
\* to answer a dialog, to send a picture or to press Ctrl+C.
FairSpec ==
    /\ Spec
    /\ WF_vars(Start) /\ WF_vars(Copying)
    /\ SF_vars(Main)

----------------------------------------------------------------------------
\* A picture is copied into a stream only while the stream exists: stop has
\* joined the PipeWire thread before it destroys anything.
StreamsOutliveCallbacks == pw # "idle" => busy \in connected

\* Whenever takeFrame says there is a picture, it is one whole picture, not two
\* halves, although the PipeWire thread may be copying while the loop looks, and
\* newer than the one before: none is taken twice and none comes back.
Newer(s) == s \in ready => /\ shown'[s][1] = shown'[s][2]
                           /\ shown'[s][1] > shown[s][1]
Advance == (TakeMonitor => Newer("monitor")) /\ (TakeWindow => Newer("window"))
PicturesAdvance == [][Advance]_vars

\* However far start came, a viewer that has exited leaves nothing behind: no
\* stream, no thread and no open session at the portal.
NothingLeft ==
    mpc = "exited" =>
        connected = {} /\ listed = {} /\ ~loopStarted /\ sessions = {}

\* "Press `Ctrl+C` to stop the viewer" (README.md).
CtrlCStops == stopRequested ~> mpc = "exited"
=============================================================================
