---------------------------- MODULE FrameDecode ----------------------------
(***************************************************************************)
(* processInboundFrame (src/src/RayneoApi.cpp): how an inbound frame       *)
(* becomes an event and a snapshot, while an application thread polls      *)
(* events and reads the snapshots with Rayneo_GetLastImu and               *)
(* Rayneo_GetDeviceInfo.  lastImu and lastInfo are plain structs that two  *)
(* threads share without a lock: a store and a load take two steps each,   *)
(* and a load may see a store half done.                                   *)
(*                                                                         *)
(* Frames are numbered in the order they are handled; the number stands    *)
(* for a frame's payload.  The tick a device-info reply carries is its own *)
(* field, because only that decides whether the reply is announced.        *)
(***************************************************************************)
EXTENDS Naturals, Sequences

CONSTANTS
    Ticks,       \* ticks a device-info reply may carry
    NoTick,      \* no tick yet
    MaxFrames    \* bound: frames handled

ASSUME DecodeAssumption == MaxFrames \in Nat /\ NoTick \notin Ticks

Snapshots == {"imu", "info"}

\* What a frame can be: an IMU sample, an ACK with device info (a value byte of
\* 0, or one the code does not know) or with one of the notification values, a
\* bare sleep or wake frame (logged), or one that is too short, lacks the 0x99
\* magic or has a type nobody handles.
Frame ==
    [type : {"imu", "notify", "log", "ignored"}] \union [type : {"info"}, tick : Ticks]

VARIABLES
    handled,    \* frames that entered processInboundFrame so far
    frame,      \* the frame being handled
    wpc,        \* its handler: "idle", "store", "half" (of a store), "emit"
    announce,   \* the local emit: does this frame get an event?
    last,       \* lastImu and lastInfo: the frame each half of them is from
    known,      \* lastInfo's tick, NoTick while lastInfo.valid is 0
    events,     \* events the application has not polled yet
    told,       \* history: the tick of the last DEVICE_INFO event
    getting,    \* the getter the application is inside of, or "none"
    seen,       \* history: newest frame whose event it polled, for each snapshot
    copy        \* the snapshot it read last, and seen when it began to

vars == <<handled, frame, wpc, announce, last, known, events, told,
          getting, seen, copy>>
reader == <<getting, seen, copy>>

Numbers == 0 .. MaxFrames
Halves == Numbers \X Numbers
Event == [type : {"imu", "notify", "log", "info"}, number : Numbers]

\* Every variable has its type.
TypeOK ==
    /\ handled \in Numbers
    /\ frame \in Frame
    /\ wpc \in {"idle", "store", "half", "emit"}
    /\ announce \in BOOLEAN
    /\ last \in [Snapshots -> Halves]
    /\ known \in Ticks \union {NoTick}
    /\ events \in Seq(Event)
    /\ told \in Ticks \union {NoTick}
    /\ getting \in Snapshots \union {"none"}
    /\ seen \in [Snapshots -> Numbers]
    /\ copy \in [of : Snapshots, since : Numbers, body : Halves]

Init ==
    /\ handled = 0
    /\ frame = [type |-> "ignored"]
    /\ wpc = "idle"
    /\ announce = FALSE
    /\ last = [s \in Snapshots |-> <<0, 0>>]
    /\ known = NoTick
    /\ events = <<>>
    /\ told = NoTick
    /\ getting = "none"
    /\ seen = [s \in Snapshots |-> 0]
    /\ copy = [of |-> "imu", since |-> 0, body |-> <<0, 0>>]

----------------------------------------------------------------------------
(* processInboundFrame *)

\* Samples and device info are stored first, notifications and log frames only
\* emit, the rest is dropped.
Dispatch(f) ==
    CASE f.type \in Snapshots -> "store"
      [] f.type \in {"notify", "log"} -> "emit"
      [] f.type = "ignored" -> "idle"

Receive(f) ==
    /\ wpc = "idle" /\ handled < MaxFrames
    /\ handled' = handled + 1
    /\ frame' = f
    /\ announce' = TRUE
    /\ wpc' = Dispatch(f)
    /\ UNCHANGED <<last, known, events, told, reader>>

\* A careless StoreImu queues the event before the sample is stored.
StoreImuLate ==
    /\ wpc = "store" /\ frame.type = "imu"
    /\ events' = Append(events, [type |-> "imu", number |-> handled])
    /\ announce' = FALSE
    /\ wpc' = "half"
    /\ UNCHANGED <<handled, frame, last, known, told, reader>>

StoreImu ==
    /\ wpc = "store" /\ frame.type = "imu"
    /\ last' = [last EXCEPT !["imu"][1] = handled]
    /\ wpc' = "half"
    /\ UNCHANGED <<handled, frame, announce, known, events, told, reader>>

\* A careless StoreInfo compares the tick only once lastInfo is valid.
StoreInfoFirstSilent ==
    /\ wpc = "store" /\ frame.type = "info"
    /\ announce' = (known # NoTick /\ frame.tick # known)
    /\ known' = frame.tick
    /\ last' = [last EXCEPT !["info"][1] = handled]
    /\ wpc' = "half"
    /\ UNCHANGED <<handled, frame, events, told, reader>>

\* bool emit = !lastInfo.valid || lastInfo.tick != info.tick: decided before the
\* reply is stored, which happens in any case.
StoreInfo ==
    /\ wpc = "store" /\ frame.type = "info"
    /\ announce' = (frame.tick # known)
    /\ known' = frame.tick
    /\ last' = [last EXCEPT !["info"][1] = handled]
    /\ wpc' = "half"
    /\ UNCHANGED <<handled, frame, events, told, reader>>

\* A careless StoreRest leaves an unannounced frame in no state the handler knows.
StoreRestForgets ==
    /\ wpc = "half"
    /\ last' = [last EXCEPT ![frame.type][2] = handled]
    /\ wpc' = IF announce THEN "emit" ELSE "silent"
    /\ UNCHANGED <<handled, frame, announce, known, events, told, reader>>

StoreRest ==
    /\ wpc = "half"
    /\ last' = [last EXCEPT ![frame.type][2] = handled]
    /\ wpc' = IF announce THEN "emit" ELSE "idle"
    /\ UNCHANGED <<handled, frame, announce, known, events, told, reader>>

Emit ==
    /\ wpc = "emit"
    /\ events' = Append(events, [type |-> frame.type, number |-> handled])
    /\ told' = IF frame.type = "info" THEN frame.tick ELSE told
    /\ wpc' = "idle"
    /\ UNCHANGED <<handled, frame, announce, last, known, reader>>

----------------------------------------------------------------------------
(* The application: PollEvent, then GetLastImu or GetDeviceInfo *)

Poll ==
    /\ getting = "none" /\ events # <<>>
    /\ events' = Tail(events)
    /\ seen' = [s \in Snapshots |->
                  IF Head(events).type = s THEN Head(events).number ELSE seen[s]]
    /\ UNCHANGED <<handled, frame, wpc, announce, last, known, told, getting, copy>>

GetFirst(s) ==
    /\ getting = "none"
    /\ getting' = s
    /\ copy' = [of |-> s, since |-> seen[s], body |-> <<last[s][1], 0>>]
    /\ UNCHANGED <<handled, frame, wpc, announce, last, known, events, told, seen>>

GetRest ==
    /\ getting # "none"
    /\ copy' = [copy EXCEPT !.body[2] = last[getting][2]]
    /\ getting' = "none"
    /\ UNCHANGED <<handled, frame, wpc, announce, last, known, events, told, seen>>

----------------------------------------------------------------------------
Next ==
    \/ \E f \in Frame : Receive(f)
    \/ StoreImu
    \/ StoreInfo
    \/ StoreRest
    \/ Emit
    \/ Poll
    \/ \E s \in Snapshots : GetFirst(s)
    \/ GetRest

Spec == Init /\ [][Next]_vars

----------------------------------------------------------------------------
\* Between frames, the tick of the device info a getter returns is the one the
\* last DEVICE_INFO event was about: no reply with a new tick is stored silently,
\* whatever samples and notifications come between.  And none is announced twice:
\* a reply that is about to be has another tick than the one announced before.
InfoAnnounced ==
    /\ wpc = "idle" => told = known
    /\ wpc = "emit" /\ frame.type = "info" => frame.tick # told

\* Who has polled the event of a sample or of device info and then asks for the
\* snapshot gets nothing older, although snapshot and queue are not locked
\* together: the snapshot is stored before the event is queued.
SnapshotCatchesUp ==
    /\ copy.body[1] >= copy.since
    /\ getting = "none" => copy.body[2] >= copy.since
=============================================================================
