----------------------------- MODULE RoundTrip -----------------------------
(***************************************************************************)
(* Rayneo_RoundTrip (src/src/RayneoApi.cpp): a caller clears haveNewFrame, *)
(* sends a command and waits on rtCv until the worker has stored a frame.  *)
(* The worker copies every inbound frame, whatever it is, into lastFrame   *)
(* under rtMtx and sets the flag; the callers' clearing takes no lock.     *)
(*                                                                         *)
(* A frame is copied in two halves, so that a reader without the lock could *)
(* see a torn one, and frames are numbered in the order they are handled.  *)
(* The event callback runs on the worker and may call RoundTrip itself.    *)
(* Worker stands for whichever thread handles libusb's events; that one may *)
(* be a caller inside the synchronous transfer of SendRaw, which does in   *)
(* one thread, hence in fewer orders, what two threads do here.            *)
(***************************************************************************)
EXTENDS Naturals

CONSTANTS
    Callers,      \* application threads
    Worker,       \* the thread that handles inbound frames
    NoThread,     \* nobody holds rtMtx
    MaxFrames     \* bound: frames the device sends

ASSUME RoundTripAssumption ==
    /\ Worker \notin Callers
    /\ NoThread \notin Callers \union {Worker}
    /\ MaxFrames \in Nat

VARIABLES
    haveNewFrame,  \* RayneoContext__::haveNewFrame
    lastFrame,     \* RayneoContext__::lastFrame, the frame each half is from
    rtMtx,         \* the holder of RayneoContext__::rtMtx
    wpc,           \* where the worker is in processInboundFrame
    pc,            \* where each caller is in RoundTrip
    result,        \* what the last call returned: "ok", "io", "timeout", "none"
    outFrame,      \* what it wrote to outFrame
    arrived,       \* history: frames whose flag has been stored
    asked          \* history: arrived when the caller cleared the flag

vars == <<haveNewFrame, lastFrame, rtMtx, wpc, pc, result, outFrame, arrived, asked>>

Threads == Callers \union {Worker}

\* Every field has its type.
TypeOK ==
    /\ haveNewFrame \in BOOLEAN
    /\ lastFrame \in Nat \X Nat
    /\ rtMtx \in Threads \union {NoThread}
    /\ wpc \in {"events", "half", "copied", "locked", "notify", "callback"}
    /\ pc \in [Threads -> {"idle", "send", "lock", "wait", "relock", "expired", "copy"}]
    /\ result \in [Threads -> {"none", "ok", "io", "timeout"}]
    /\ outFrame \in [Threads -> Nat \X Nat]
    /\ arrived \in Nat
    /\ asked \in [Threads -> Nat]

Init ==
    /\ haveNewFrame = FALSE
    /\ lastFrame = <<0, 0>>
    /\ rtMtx = NoThread
    /\ wpc = "events"
    /\ pc = [t \in Threads |-> "idle"]
    /\ result = [t \in Threads |-> "none"]
    /\ outFrame = [t \in Threads |-> <<0, 0>>]
    /\ arrived = 0
    /\ asked = [t \in Threads |-> 0]

caller == <<pc, result, outFrame, asked>>
worker == <<lastFrame, wpc, arrived>>

Goto(t, point) == pc' = [pc EXCEPT ![t] = point]

\* A thread can run RoundTrip: a caller always, the worker inside its callback.
MayCall(t) == t = Worker => wpc = "callback"

----------------------------------------------------------------------------
(* processInboundFrame, up to the event it emits *)

FrameArrives ==
    /\ wpc = "events" /\ arrived < MaxFrames
    /\ rtMtx = NoThread
    /\ rtMtx' = Worker
    /\ wpc' = "locked"
    /\ UNCHANGED <<haveNewFrame, lastFrame, arrived, caller>>

CopyFirst ==
    /\ wpc = "locked"
    /\ lastFrame' = <<arrived + 1, lastFrame[2]>>
    /\ wpc' = "half"
    /\ UNCHANGED <<haveNewFrame, rtMtx, arrived, caller>>

CopySecond ==
    /\ wpc = "half"
    /\ lastFrame' = <<lastFrame[1], arrived + 1>>
    /\ wpc' = "copied"
    /\ UNCHANGED <<haveNewFrame, rtMtx, arrived, caller>>

StoreFlag ==
    /\ wpc = "copied"
    /\ haveNewFrame' = TRUE
    /\ arrived' = arrived + 1
    /\ rtMtx' = NoThread
    /\ wpc' = "notify"
    /\ UNCHANGED <<lastFrame, caller>>

\* notify_all: every waiting call re-checks, once it gets the lock.
NotifyAll ==
    /\ wpc = "notify"
    /\ wpc' = "callback"
    /\ pc' = [t \in Threads |-> IF pc[t] = "wait" THEN "relock" ELSE pc[t]]
    /\ UNCHANGED <<haveNewFrame, lastFrame, rtMtx, arrived, result, outFrame, asked>>

\* The event callback is over.
CallbackReturns ==
    /\ wpc = "callback" /\ pc[Worker] = "idle"
    /\ wpc' = "events"
    /\ UNCHANGED <<haveNewFrame, lastFrame, rtMtx, arrived, caller>>

----------------------------------------------------------------------------
(* Rayneo_RoundTrip *)

\* Mutant: a flag left over from an earlier frame is not cleared.
ResetNothing(t) ==
    /\ pc[t] = "idle" /\ MayCall(t)
    /\ asked' = [asked EXCEPT ![t] = arrived]
    /\ result' = [result EXCEPT ![t] = "none"]
    /\ Goto(t, "send")
    /\ UNCHANGED <<haveNewFrame, rtMtx, worker, outFrame>>

\* ctx->haveNewFrame.store(false), without rtMtx.
Reset(t) ==
    /\ pc[t] = "idle" /\ MayCall(t)
    /\ haveNewFrame' = FALSE
    /\ asked' = [asked EXCEPT ![t] = arrived]
    /\ result' = [result EXCEPT ![t] = "none"]
    /\ Goto(t, "send")
    /\ UNCHANGED <<rtMtx, worker, outFrame>>

\* Mutant: a failed send reported with a result nobody knows.
SendFailsOddly(t) ==
    /\ pc[t] = "send"
    /\ result' = [result EXCEPT ![t] = "failed"]
    /\ Goto(t, "idle")
    /\ UNCHANGED <<haveNewFrame, rtMtx, worker, outFrame, asked>>

SendFails(t) ==
    /\ pc[t] = "send"
    /\ result' = [result EXCEPT ![t] = "io"]
    /\ Goto(t, "idle")
    /\ UNCHANGED <<haveNewFrame, rtMtx, worker, outFrame, asked>>

SendWorks(t) ==
    /\ pc[t] = "send"
    /\ Goto(t, "lock")
    /\ UNCHANGED <<haveNewFrame, rtMtx, worker, result, outFrame, asked>>

\* Mutant: a call whose time is over goes back to sleep.
CheckAgain(t) ==
    /\ pc[t] \in {"lock", "relock", "expired"}
    /\ rtMtx = NoThread
    /\ rtMtx' = IF haveNewFrame THEN t ELSE rtMtx
    /\ Goto(t, IF haveNewFrame THEN "copy" ELSE "wait")
    /\ UNCHANGED <<haveNewFrame, worker, result, outFrame, asked>>

\* With the lock held, the predicate of wait_for decides: copy the frame, go
\* (back) to sleep, or give up when the time is over.
Check(t) ==
    /\ pc[t] \in {"lock", "relock", "expired"}
    /\ rtMtx = NoThread
    /\ IF haveNewFrame
         THEN /\ rtMtx' = t
              /\ Goto(t, "copy")
              /\ result' = result
         ELSE /\ rtMtx' = rtMtx
              /\ Goto(t, IF pc[t] = "expired" THEN "idle" ELSE "wait")
              /\ result' = IF pc[t] = "expired"
                             THEN [result EXCEPT ![t] = "timeout"] ELSE result
    /\ UNCHANGED <<haveNewFrame, worker, outFrame, asked>>

Expire(t) ==
    /\ pc[t] = "wait"
    /\ Goto(t, "expired")
    /\ UNCHANGED <<haveNewFrame, rtMtx, worker, result, outFrame, asked>>

Copy(t) ==
    /\ pc[t] = "copy"
    /\ outFrame' = [outFrame EXCEPT ![t] = lastFrame]
    /\ result' = [result EXCEPT ![t] = "ok"]
    /\ rtMtx' = NoThread
    /\ Goto(t, "idle")
    /\ UNCHANGED <<haveNewFrame, worker, asked>>

----------------------------------------------------------------------------
Inbound == CopyFirst \/ CopySecond \/ StoreFlag \/ NotifyAll \/ CallbackReturns
Call(t) == SendFails(t) \/ SendWorks(t) \/ Check(t) \/ Copy(t)

Next ==
    \/ FrameArrives \/ Inbound
    \/ \E t \in Threads : Reset(t) \/ Call(t) \/ Expire(t)

Spec == Init /\ [][Next]_vars

\* The worker finishes a frame it began, calls run (rtMtx is taken infinitely
\* often by everyone who wants it) and timeouts fire; no frame has to arrive.
FairSpec ==
    /\ Spec
    /\ WF_vars(Inbound)
    /\ \A t \in Threads : SF_vars(Call(t)) /\ WF_vars(Expire(t))

----------------------------------------------------------------------------
Returned(t) == pc[t] = "idle" /\ result[t] = "ok"

\* rtMtx keeps the worker's copy and a caller's copy apart: a returned frame is
\* one frame, not halves of two.
WholeFrame ==
    \A t \in Threads : Returned(t) => outFrame[t][1] = outFrame[t][2]

\* A returned frame was stored after the call cleared the flag, even though
\* several callers clear it and none of them locks.
FreshFrame ==
    \A t \in Threads : Returned(t) => outFrame[t][1] > asked[t]

\* Only the worker stores frames, so a call from the event callback is never
\* answered: it blocks the very thread it waits for.
CallbackUnanswered == result[Worker] # "ok"

\* A call never sleeps beside a stored frame without a notify_all on its way:
\* the flag is stored under the lock the sleeper checked it under.
SleeperIsNotified ==
    \A t \in Threads : pc[t] = "wait" /\ haveNewFrame => wpc = "notify"

\* Why these hold: who holds rtMtx, what lastFrame contains at each step of the
\* copy, and what a set flag means to a call under way.
LockInv ==
    /\ rtMtx = Worker <=> wpc \in {"locked", "half", "copied"}
    /\ \A t \in Callers : pc[t] = "copy" <=> rtMtx = t
CopyInv ==
    lastFrame = << IF wpc \in {"half", "copied"} THEN arrived + 1 ELSE arrived,
                   IF wpc = "copied" THEN arrived + 1 ELSE arrived >>
CallInv ==
    \A t \in Threads :
        /\ asked[t] <= arrived
        /\ pc[t] # "idle" /\ haveNewFrame => asked[t] < arrived
        /\ pc[t] = "copy" => asked[t] < arrived
WorkerCallInv ==
    pc[Worker] # "idle" => wpc = "callback" /\ ~haveNewFrame /\ pc[Worker] # "copy"

\* A returned frame is whole and newer than its call, the callback is never
\* answered, and nobody sleeps beside a frame.  Inductive.
RoundTripInv ==
    /\ LockInv /\ CopyInv /\ CallInv /\ WorkerCallInv
    /\ WholeFrame /\ FreshFrame /\ CallbackUnanswered /\ SleeperIsNotified

\* Every call returns: no caller, and not the worker, waits for ever.
CallReturns == \A t \in Threads : pc[t] # "idle" ~> pc[t] = "idle"
=============================================================================
