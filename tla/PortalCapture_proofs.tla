------------------------ MODULE PortalCapture_proofs ------------------------
(***************************************************************************)
(* Streams outlive the callbacks that write to them, an exited viewer      *)
(* leaves nothing at the portal, and the pictures taken are whole and go   *)
(* forward, for any number of pictures.                                    *)
(***************************************************************************)
EXTENDS PortalCapture, TLAPS

USE DEF vars, setup, capture
USE PicturesAssumption

----------------------------------------------------------------------------
(* The chain of requests *)

\* The nine calls of start, and that an "open" ends the chain of each session.
LEMMA Chain ==
    ASSUME step \in 1 .. Len(Steps)
    PROVE  /\ Ask \in {"create", "select", "start", "open"}
           /\ Of \in Streams
           /\ ~(Ask = "open" /\ Of = "window") => step + 1 \in 1 .. Len(Steps)
           /\ Ask \in {"create", "select", "start"} =>
                step + 1 \in 1 .. Len(Steps)
<1>1. step \in {1, 2, 3, 4, 5, 6, 7, 8, 9}
  BY DEF Steps
<1>2. Len(Steps) = 9
  BY DEF Steps
<1>3. CASE step \in {1, 2, 3}
  BY <1>2, <1>3 DEF Steps, Ask, Of, Streams
<1>4. CASE step \in {4, 5, 6}
  BY <1>2, <1>4 DEF Steps, Ask, Of, Streams
<1>5. CASE step \in {7, 8, 9}
  BY <1>2, <1>5 DEF Steps, Ask, Of, Streams
<1> QED BY <1>1, <1>3, <1>4, <1>5

\* The actions of Next, one disjunct each.
LEMMA Moves ==
    ASSUME [Next]_vars
    PROVE  \/ Fail \/ CallRequest \/ Subscribe \/ Refused \/ Created \/ Selected
           \/ Started \/ StartedWrongly \/ Open \/ OpenHalf
           \/ Ready \/ Loop \/ TakeMonitor \/ TakeWindow
           \/ StopLoop \/ DestroyStreams \/ CloseSessions
           \/ CopyFirst \/ CopySecond
           \/ (\E s \in Streams : ParamChanged(s) \/ Process(s) \/ Revoke(s))
           \/ (\E answer \in {"granted", "refused"} : Respond(answer))
           \/ Interrupt \/ UNCHANGED vars
BY DEF Next, Start, Main, Copying, Finished

\* The main thread opens a remote exactly where the chain says so.
ChainInv ==
    /\ mpc = "open" => Ask = "open"
    /\ mpc \in {"ask", "subscribe", "wait"} => Ask # "open"

----------------------------------------------------------------------------
(* Type correctness *)

\* One half of a stored picture is replaced, the other stays.
LEMMA HalfReplaced ==
    ASSUME NEW f \in [Streams -> Pictures \X Pictures], NEW s \in Streams,
           NEW n \in Pictures
    PROVE  /\ [f EXCEPT ![s][1] = n] \in [Streams -> Pictures \X Pictures]
           /\ [f EXCEPT ![s][2] = n] \in [Streams -> Pictures \X Pictures]
           /\ [f EXCEPT ![s][1] = n][s] = <<n, f[s][2]>>
           /\ [f EXCEPT ![s][2] = n][s] = <<f[s][1], n>>
           /\ \A t \in Streams \ {s} :
                [f EXCEPT ![s][1] = n][t] = f[t] /\ [f EXCEPT ![s][2] = n][t] = f[t]
OBVIOUS

\* A step keeps the types, and the place in the chain.
LEMMA TypeStep ==
    ASSUME TypeOK, ChainInv, [Next]_vars
    PROVE  TypeOK' /\ ChainInv'
<1> USE DEF Fail, CallRequest, Subscribe, Refused, Created, Selected, Started,
            StartedWrongly, Open, OpenHalf, Proceed, Ready, Loop, TakeMonitor,
            TakeWindow, TakeFrame, StopLoop, DestroyStreams, CloseSessions,
            CopyFirst, CopySecond, ParamChanged, Process, Revoke, Respond, Interrupt
<1>0. /\ Ask \in {"create", "select", "start", "open"} /\ Of \in Streams
      /\ ~(Ask = "open" /\ Of = "window") => step + 1 \in 1 .. Len(Steps)
      /\ Ask \in {"create", "select", "start"} => step + 1 \in 1 .. Len(Steps)
  BY Chain DEF TypeOK, SetupOK
<1>1. MainOK'
  <2>1. mpc' \in Setup \union Stopping
                 \union {"ready", "loop", "takeMonitor", "takeWindow", "exited"}
    BY Moves DEF TypeOK, MainOK, Setup, Stopping
  <2>2. shown' \in [Streams -> Pictures \X Pictures]
    BY Moves DEF TypeOK, MainOK, CaptureOK
  <2>3. stopRequested' \in BOOLEAN
    BY Moves DEF TypeOK, MainOK
  <2> QED BY <2>1, <2>2, <2>3 DEF MainOK
<1>2. SetupOK'
  <2>1. step' \in 1 .. Len(Steps)
    <3>1. step' \in {step, step + 1} /\ (step' # step => step + 1 \in 1 .. Len(Steps))
      BY <1>0, Moves DEF ChainInv
    <3> QED BY <3>1 DEF TypeOK, SetupOK
  <2>2. asked' \in BOOLEAN /\ result' \in {"none", "granted", "refused"}
    BY Moves DEF TypeOK, SetupOK
  <2>3. sessions' \subseteq Streams /\ sessionPaths' \subseteq Streams
    BY <1>0, Moves DEF TypeOK, SetupOK
  <2>4. listed' \subseteq Streams /\ connected' \subseteq Streams
    BY <1>0, Moves DEF TypeOK, SetupOK
  <2> QED BY <2>1, <2>2, <2>3, <2>4 DEF SetupOK
<1>3. CaptureOK'
  <2>1. loopStarted' \in BOOLEAN
    BY Moves DEF TypeOK, CaptureOK
  <2>2. format' \subseteq Streams /\ ready' \subseteq Streams
    BY Moves DEF TypeOK, CaptureOK, Streams
  <2>3. pw' \in {"idle", "first", "second"} /\ busy' \in Streams
    BY Moves DEF TypeOK, CaptureOK
  <2>4. sent' \in [Streams -> Pictures]
    <3>1. ASSUME NEW s \in Streams, Process(s) PROVE sent' \in [Streams -> Pictures]
      BY <3>1 DEF TypeOK, CaptureOK, Pictures
    <3>2. CASE UNCHANGED sent
      BY <3>2 DEF TypeOK, CaptureOK
    <3> QED BY <3>1, <3>2, Moves
  <2>5. frame' \in [Streams -> Pictures \X Pictures]
    <3>1. /\ frame \in [Streams -> Pictures \X Pictures]
          /\ busy \in Streams /\ sent[busy] \in Pictures
      BY DEF TypeOK, CaptureOK
    <3>2. \/ frame' = frame
          \/ frame' = [frame EXCEPT ![busy][1] = sent[busy]]
          \/ frame' = [frame EXCEPT ![busy][2] = sent[busy]]
      BY Moves
    <3>3. /\ [frame EXCEPT ![busy][1] = sent[busy]] \in [Streams -> Pictures \X Pictures]
          /\ [frame EXCEPT ![busy][2] = sent[busy]] \in [Streams -> Pictures \X Pictures]
      BY ONLY <3>1, HalfReplaced
    <3> QED BY ONLY <3>1, <3>2, <3>3, Zenon
  <2> QED BY <2>1, <2>2, <2>3, <2>4, <2>5 DEF CaptureOK
<1>4. ChainInv'
  <2>1. CASE Created \/ Selected \/ Started
    BY <2>1 DEF ChainInv, Ask
  <2>2. CASE Open
    BY <2>2, <1>0 DEF ChainInv, Ask
  <2>3. CASE UNCHANGED step
    <3>1. Ask' = Ask
      BY <2>3 DEF Ask
    <3>2. step + 1 # step
      BY DEF TypeOK, SetupOK
    <3>3. mpc' = "open" => mpc = "open"
      BY <2>3, <3>2, Moves
    <3>4. mpc' \in {"ask", "subscribe", "wait"} =>
            mpc \in {"ask", "subscribe", "wait"} \/ Ask # "open"
      BY <2>3, <3>2, Moves
    <3> QED BY <3>1, <3>3, <3>4 DEF ChainInv
  <2> QED BY <2>1, <2>2, <2>3, Moves
<1> QED BY <1>1, <1>2, <1>3, <1>4 DEF TypeOK

\* Every state has its types and its place in the chain.
LEMMA ChainTyped == Spec => [](TypeOK /\ ChainInv)
<1>1. Init => TypeOK /\ ChainInv
  <2> SUFFICES ASSUME Init PROVE TypeOK /\ ChainInv
    OBVIOUS
  <2>1. asked \in BOOLEAN /\ loopStarted \in BOOLEAN /\ stopRequested \in BOOLEAN
    BY Zenon DEF Init
  <2>2. Nothing \in [Streams -> Pictures \X Pictures]
    BY DEF Nothing, Pictures
  <2>3. MainOK
    BY <2>1, <2>2 DEF Init, MainOK, Setup
  <2>4. SetupOK /\ ChainInv
    BY <2>1 DEF Init, SetupOK, ChainInv, Ask, Steps
  <2>5. CaptureOK
    BY <2>1, <2>2 DEF Init, CaptureOK, Streams, Pictures
  <2> QED BY <2>3, <2>4, <2>5 DEF TypeOK
<1>2. TypeOK /\ ChainInv /\ [Next]_vars => TypeOK' /\ ChainInv'
  BY TypeStep
<1> QED BY <1>1, <1>2, PTL DEF Spec

\* Every field keeps its type.
THEOREM TypeCorrect == Spec => []TypeOK
BY ChainTyped, PTL

----------------------------------------------------------------------------
(* Streams outlive the callbacks that write to them *)

\* The PipeWire thread copies only while its loop runs and for a stream that is
\* connected, and the loop runs neither before start is done nor after stop has
\* joined it.
OutliveInv ==
    /\ pw # "idle" => loopStarted /\ busy \in connected
    /\ mpc \in Setup \union {"destroy", "close", "exited"} => ~loopStarted

\* A step keeps the streams under the callbacks.
LEMMA OutliveStep ==
    ASSUME TypeOK, ChainInv, OutliveInv, [Next]_vars
    PROVE  OutliveInv'
<1> USE DEF Fail, CallRequest, Subscribe, Refused, Created, Selected, Started,
            StartedWrongly, Open, OpenHalf, Proceed, Ready, Loop, TakeMonitor,
            TakeWindow, TakeFrame, StopLoop, DestroyStreams, CloseSessions,
            CopyFirst, CopySecond, ParamChanged, Process, Revoke, Respond, Interrupt
<1>0. /\ Ask \in {"create", "select", "start", "open"} /\ Of \in Streams
      /\ ~(Ask = "open" /\ Of = "window") => step + 1 \in 1 .. Len(Steps)
  BY Chain DEF TypeOK, SetupOK
<1>1. pw' # "idle" => loopStarted' /\ busy' \in connected'
  <2>1. CASE Open
    BY <2>1 DEF OutliveInv, Setup
  <2>2. CASE OpenHalf
    BY <2>2 DEF OutliveInv, Setup
  <2>3. CASE DestroyStreams
    BY <2>3 DEF OutliveInv
  <2>4. CASE StopLoop
    BY <2>4 DEF OutliveInv
  <2>5. CASE CopyFirst \/ CopySecond
    BY <2>5 DEF OutliveInv
  <2>6. ASSUME NEW s \in Streams, Process(s)
        PROVE  pw' # "idle" => loopStarted' /\ busy' \in connected'
    BY <2>6 DEF OutliveInv
  <2>7. CASE UNCHANGED <<loopStarted, pw, busy, connected>>
    BY <2>7 DEF OutliveInv
  <2> QED BY <2>1, <2>2, <2>3, <2>4, <2>5, <2>6, <2>7, Moves
<1>2. mpc' \in Setup \union {"destroy", "close", "exited"} => ~loopStarted'
  <2>1. CASE Open
    <3>1. Of = "window" => mpc' = "ready"
      BY <2>1
    <3> QED BY <2>1, <3>1 DEF Setup
  <2>2. CASE StopLoop
    BY <2>2
  <2>3. CASE UNCHANGED loopStarted
    <3>1. mpc' \in Setup => mpc \in Setup
      BY <2>3, Moves DEF Setup
    <3>2. mpc' \in {"destroy", "close", "exited"} =>
            StopLoop \/ mpc \in {"destroy", "close", "exited"}
      BY <2>3, Moves
    <3> QED BY <2>2, <2>3, <3>1, <3>2 DEF OutliveInv
  <2> QED BY <2>1, <2>2, <2>3, Moves
<1> QED BY <1>1, <1>2 DEF OutliveInv

\* stop joins the PipeWire thread before it destroys a stream, so a callback
\* never writes to a stream that is gone.
THEOREM CallbacksAreSafe == Spec => []StreamsOutliveCallbacks
<1>1. Init => OutliveInv
  <2> SUFFICES ASSUME Init PROVE OutliveInv
    OBVIOUS
  <2>1. ~loopStarted /\ pw = "idle"
    BY Zenon DEF Init
  <2> QED BY <2>1 DEF OutliveInv
<1>2. TypeOK /\ ChainInv /\ OutliveInv /\ [Next]_vars => OutliveInv'
  BY OutliveStep
<1>3. OutliveInv => StreamsOutliveCallbacks
  BY DEF OutliveInv, StreamsOutliveCallbacks
<1> QED BY <1>1, <1>2, <1>3, ChainTyped, PTL DEF Spec

----------------------------------------------------------------------------
(* An exited viewer leaves nothing at the portal *)

\* The portal has opened a session whose path start has not yet written down.
Unwritten ==
    /\ mpc \in {"subscribe", "wait"} /\ Ask = "create"
    /\ ~asked /\ result # "refused"

\* Only the main thread's own request is ever outstanding, and a session the
\* destructor would not know of exists only while start is about to write it
\* down, from which no path leads to the destructor.
PortalInv ==
    /\ asked => mpc \in {"subscribe", "wait"} /\ result = "none"
    /\ mpc = "subscribe" => result = "none"
    /\ sessions \subseteq IF Unwritten THEN sessionPaths \union {Of} ELSE sessionPaths
    /\ mpc \in {"close", "exited"} => connected = {}
    /\ mpc = "exited" => listed = {} /\ sessions = {}

\* A step leaves no session the destructor would not know of.
LEMMA PortalStep ==
    ASSUME TypeOK, ChainInv, PortalInv, [Next]_vars
    PROVE  PortalInv'
<1> USE DEF Fail, CallRequest, Subscribe, Refused, Created, Selected, Started,
            StartedWrongly, Open, OpenHalf, Proceed, Ready, Loop, TakeMonitor,
            TakeWindow, TakeFrame, StopLoop, DestroyStreams, CloseSessions,
            CopyFirst, CopySecond, ParamChanged, Process, Revoke, Respond, Interrupt
<1>1. asked' => mpc' \in {"subscribe", "wait"} /\ result' = "none"
  BY Moves DEF PortalInv, TypeOK, SetupOK
<1>2. mpc' = "subscribe" => result' = "none"
  BY Moves DEF PortalInv
<1>3. sessions' \subseteq
        (IF Unwritten THEN sessionPaths \union {Of} ELSE sessionPaths)'
  <2>1. CASE Created
    BY <2>1 DEF PortalInv, Unwritten
  <2>2. CASE Selected \/ Started \/ StartedWrongly
    BY <2>2 DEF PortalInv, Unwritten
  <2>3. CASE Open
    BY <2>3 DEF PortalInv, Unwritten
  <2>4. CASE CloseSessions
    BY <2>4 DEF PortalInv, Unwritten
  <2>5. CASE UNCHANGED <<step, sessionPaths>>
    <3>1. Ask' = Ask /\ Of' = Of
      BY <2>5 DEF Ask, Of
    <3>2. ASSUME NEW answer \in {"granted", "refused"}, Respond(answer)
          PROVE  sessions' \subseteq
                   (IF Unwritten THEN sessionPaths \union {Of} ELSE sessionPaths)'
      BY <3>1, <3>2 DEF PortalInv, Unwritten
    <3>3. CASE Fail \/ CallRequest \/ Subscribe \/ Refused \/ OpenHalf
      BY <3>1, <3>3 DEF PortalInv, Unwritten
    <3>4. CASE Ready \/ Loop \/ TakeMonitor \/ TakeWindow \/ StopLoop \/ DestroyStreams
      BY <3>1, <3>4 DEF PortalInv, Unwritten
    <3>5. CASE UNCHANGED <<mpc, asked, result>> /\ sessions' \subseteq sessions
      BY <2>5, <3>1, <3>5 DEF PortalInv, Unwritten
    <3>6. ASSUME NEW s \in Streams, ParamChanged(s) \/ Process(s) \/ Revoke(s)
          PROVE  UNCHANGED <<mpc, asked, result>> /\ sessions' \subseteq sessions
      BY <3>6
    <3>7. CopyFirst \/ CopySecond \/ Interrupt \/ UNCHANGED vars =>
            UNCHANGED <<mpc, asked, result>> /\ sessions' \subseteq sessions
      OBVIOUS
    <3> HIDE DEF Fail, CallRequest, Subscribe, Refused, Created, Selected, Started,
            StartedWrongly, Open, OpenHalf, Ready, Loop, TakeMonitor,
            TakeWindow, StopLoop, DestroyStreams, CloseSessions,
            CopyFirst, CopySecond, ParamChanged, Process, Revoke, Respond, Interrupt
    <3> QED BY <2>1, <2>2, <2>3, <2>4, <3>2, <3>3, <3>4, <3>5, <3>6, <3>7, Moves
  <2> QED BY <2>1, <2>2, <2>3, <2>4, <2>5, Moves
<1>4. mpc' \in {"close", "exited"} => connected' = {}
  BY Moves DEF PortalInv
<1>5. mpc' = "exited" => listed' = {} /\ sessions' = {}
  <2>1. CASE CloseSessions
    BY <2>1 DEF PortalInv, Unwritten
  <2>2. CASE mpc = "exited"
    BY <2>2, Moves DEF PortalInv
  <2>3. CASE mpc' # "exited"
    BY <2>3
  <2> QED BY <2>1, <2>2, <2>3, Moves
<1> QED BY <1>1, <1>2, <1>3, <1>4, <1>5 DEF PortalInv

\* However far start came, the destructor has closed every session the portal
\* opened, destroyed the streams and joined the thread when the viewer exits.
THEOREM ExitIsClean == Spec => []NothingLeft
<1>1. Init => PortalInv /\ OutliveInv
  <2> SUFFICES ASSUME Init PROVE PortalInv /\ OutliveInv
    OBVIOUS
  <2>1. ~loopStarted /\ ~asked
    BY Zenon DEF Init
  <2> QED BY <2>1 DEF Init, OutliveInv, PortalInv
<1>2. TypeOK /\ ChainInv /\ PortalInv /\ [Next]_vars => PortalInv'
  BY PortalStep
<1>3. TypeOK /\ ChainInv /\ OutliveInv /\ [Next]_vars => OutliveInv'
  BY OutliveStep
<1>4. PortalInv /\ OutliveInv => NothingLeft
  BY DEF PortalInv, OutliveInv, NothingLeft
<1> QED BY <1>1, <1>2, <1>3, <1>4, ChainTyped, PTL DEF Spec

----------------------------------------------------------------------------
(* The pictures taken are whole and go forward *)

HalfCopied(s) == pw = "second" /\ busy = s

\* What a stream holds: outside the lock both halves are of one picture, a
\* picture announced as ready is newer than the one shown, and the picture being
\* copied is newer than the one it replaces.
Mail(s) ==
    /\ shown[s][1] <= frame[s][2]
    /\ frame[s][2] <= sent[s]
    /\ pw # "idle" /\ busy = s => frame[s][2] < sent[s]
    /\ frame[s][1] = IF HalfCopied(s) THEN sent[s] ELSE frame[s][2]
    /\ s \in ready /\ ~HalfCopied(s) => shown[s][1] < frame[s][2]

MailInv == \A s \in Streams : Mail(s)

\* The numbers of the pictures of one stream.
LEMMA PicturesTyped ==
    ASSUME TypeOK, NEW s \in Streams
    PROVE  /\ shown[s][1] \in Nat /\ shown[s][2] \in Nat
           /\ frame[s][1] \in Nat /\ frame[s][2] \in Nat /\ sent[s] \in Nat
<1>1. /\ shown[s] \in Pictures \X Pictures /\ frame[s] \in Pictures \X Pictures
      /\ sent[s] \in Pictures
  BY DEF TypeOK, MainOK, CaptureOK
<1> QED BY <1>1 DEF Pictures

\* Taking a picture moves it from the mailbox to the screen.
LEMMA MailTaken ==
    ASSUME TypeOK, MailInv, NEW t \in Streams, NEW next, TakeFrame(t, next)
    PROVE  /\ MailInv'
           /\ t \in ready => /\ shown'[t][1] = shown'[t][2]
                             /\ shown'[t][1] > shown[t][1]
<1>1. shown \in [Streams -> Pictures \X Pictures]
  BY DEF TypeOK, MainOK
<1>2. UNCHANGED <<pw, busy, sent, frame>> /\ ~HalfCopied(t)
  BY DEF TakeFrame, HalfCopied
<1>3. CASE t \in ready
  <2>1. shown' = [shown EXCEPT ![t] = frame[t]] /\ ready' = ready \ {t}
    BY <1>3 DEF TakeFrame
  <2>2. shown'[t] = frame[t] /\ \A s \in Streams \ {t} : shown'[s] = shown[s]
    BY <1>1, <2>1
  <2>3. ASSUME NEW s \in Streams PROVE Mail(s)'
    <3>1. CASE s = t
      BY <1>2, <2>1, <2>2, <3>1, PicturesTyped DEF MailInv, Mail, HalfCopied
    <3>2. CASE s # t
      <4>1. shown'[s] = shown[s] /\ (s \in ready' <=> s \in ready)
        BY <2>1, <2>2, <3>2
      <4> QED BY <1>2, <4>1 DEF MailInv, Mail, HalfCopied
    <3> QED BY <3>1, <3>2
  <2> QED BY <1>2, <1>3, <2>2, <2>3, PicturesTyped DEF MailInv, Mail
<1>4. CASE t \notin ready
  BY <1>2, <1>4 DEF TakeFrame, MailInv, Mail, HalfCopied
<1> QED BY <1>3, <1>4

\* A step of the PipeWire thread, or of anybody else, keeps the mailboxes.
LEMMA MailStep ==
    ASSUME TypeOK, MailInv, [Next]_vars
    PROVE  MailInv'
<1>0. /\ frame \in [Streams -> Pictures \X Pictures] /\ sent \in [Streams -> Pictures]
      /\ busy \in Streams /\ sent[busy] \in Pictures
  BY DEF TypeOK, CaptureOK
<1>1. CASE TakeMonitor \/ TakeWindow
  BY <1>1, MailTaken DEF TakeMonitor, TakeWindow, Streams
<1>2. ASSUME NEW t \in Streams, Process(t) PROVE MailInv'
  <2>1. /\ sent'[t] = sent[t] + 1 /\ \A s \in Streams \ {t} : sent'[s] = sent[s]
        /\ UNCHANGED <<frame, shown, ready>> /\ pw = "idle"
        /\ pw' = "idle" \/ (pw' = "first" /\ busy' = t)
    BY <1>0, <1>2 DEF Process
  <2>2. ASSUME NEW s \in Streams PROVE Mail(s)'
    <3>1. CASE s = t
      BY <2>1, <3>1, PicturesTyped DEF MailInv, Mail, HalfCopied
    <3>2. CASE s # t
      BY <2>1, <3>2, PicturesTyped DEF MailInv, Mail, HalfCopied
    <3> QED BY <3>1, <3>2
  <2> QED BY <2>2 DEF MailInv
<1>3. CASE CopyFirst
  <2>1. /\ frame' = [frame EXCEPT ![busy][1] = sent[busy]]
        /\ UNCHANGED <<busy, sent, shown, ready>> /\ pw = "first" /\ pw' = "second"
    BY <1>3 DEF CopyFirst
  <2>2. /\ frame'[busy] = <<sent[busy], frame[busy][2]>>
        /\ \A s \in Streams \ {busy} : frame'[s] = frame[s]
    BY <1>0, <2>1, HalfReplaced
  <2>3. ASSUME NEW s \in Streams PROVE Mail(s)'
    <3>1. CASE s = busy
      BY <2>1, <2>2, <3>1, PicturesTyped DEF MailInv, Mail, HalfCopied
    <3>2. CASE s # busy
      BY <2>1, <2>2, <3>2, PicturesTyped DEF MailInv, Mail, HalfCopied
    <3> QED BY <3>1, <3>2
  <2> QED BY <2>3 DEF MailInv
<1>4. CASE CopySecond
  <2>1. /\ frame' = [frame EXCEPT ![busy][2] = sent[busy]] /\ ready' = ready \union {busy}
        /\ UNCHANGED <<busy, sent, shown>> /\ pw = "second" /\ pw' = "idle"
    BY <1>4 DEF CopySecond
  <2>2. /\ frame'[busy] = <<frame[busy][1], sent[busy]>>
        /\ \A s \in Streams \ {busy} : frame'[s] = frame[s]
    BY <1>0, <2>1, HalfReplaced
  <2>3. ASSUME NEW s \in Streams PROVE Mail(s)'
    <3>1. CASE s = busy
      BY <2>1, <2>2, <3>1, PicturesTyped DEF MailInv, Mail, HalfCopied
    <3>2. CASE s # busy
      BY <2>1, <2>2, <3>2, PicturesTyped DEF MailInv, Mail, HalfCopied
    <3> QED BY <3>1, <3>2
  <2> QED BY <2>3 DEF MailInv
<1>5. CASE UNCHANGED <<pw, busy, sent, frame, ready, shown>>
  BY <1>5 DEF MailInv, Mail, HalfCopied
<1>6. ASSUME NEW s \in Streams, ParamChanged(s) \/ Revoke(s) PROVE MailInv'
  BY <1>5, <1>6 DEF ParamChanged, Revoke
<1>7. ASSUME NEW answer \in {"granted", "refused"}, Respond(answer) PROVE MailInv'
  BY <1>5, <1>7 DEF Respond
<1>8. CASE \/ Fail \/ CallRequest \/ Subscribe \/ Refused \/ Created \/ Selected
           \/ Started \/ StartedWrongly \/ Open \/ OpenHalf
  BY <1>5, <1>8 DEF Fail, CallRequest, Subscribe, Refused, Created, Selected,
                    Started, StartedWrongly, Open, OpenHalf
<1>9. CASE Ready \/ Loop \/ StopLoop \/ DestroyStreams \/ CloseSessions \/ Interrupt
  BY <1>5, <1>9 DEF Ready, Loop, StopLoop, DestroyStreams, CloseSessions, Interrupt
<1> QED BY <1>1, <1>2, <1>3, <1>4, <1>5, <1>6, <1>7, <1>8, <1>9, Moves

\* takeFrame never yields two halves of different pictures, the same picture
\* twice or an older one, although the PipeWire thread copies in two steps and
\* may be between them whenever the drawing loop looks.
THEOREM PicturesGoForward == Spec => PicturesAdvance
<1>1. Init => MailInv
  BY DEF Init, Nothing, MailInv, Mail, HalfCopied
<1>2. TypeOK /\ MailInv /\ [Next]_vars => MailInv'
  BY MailStep
<1>3. TypeOK /\ MailInv => Advance
  BY MailTaken DEF Advance, Newer, TakeMonitor, TakeWindow, Streams
<1> QED BY <1>1, <1>2, <1>3, ChainTyped, PTL DEF Spec, PicturesAdvance
=============================================================================
