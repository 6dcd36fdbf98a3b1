------------------------- MODULE RoundTrip_proofs --------------------------
(***************************************************************************)
(* A frame returned by Rayneo_RoundTrip is whole and newer than the call,  *)
(* for any number of callers and frames.                                   *)
(***************************************************************************)
EXTENDS RoundTrip, TLAPS

USE DEF vars, caller, worker, Threads, Goto, MayCall
USE RoundTripAssumption

\* Every field keeps its type.
THEOREM TypeCorrect == Spec => []TypeOK
<1> USE DEF TypeOK
<1>1. Init => TypeOK
  <2> SUFFICES ASSUME Init PROVE TypeOK
    OBVIOUS
  <2>1. /\ haveNewFrame \in BOOLEAN /\ arrived \in Nat
        /\ rtMtx \in Threads \union {NoThread}
        /\ wpc \in {"events", "half", "copied", "locked", "notify", "callback"}
    BY DEF Init
  <2>2. lastFrame \in Nat \X Nat /\ outFrame \in [Threads -> Nat \X Nat]
    BY DEF Init
  <2>3. /\ asked \in [Threads -> Nat]
        /\ result \in [Threads -> {"none", "ok", "io", "timeout"}]
    BY DEF Init
  <2>4. pc \in [Threads -> {"idle", "send", "lock", "wait", "relock", "expired", "copy"}]
    BY DEF Init
  <2> QED BY <2>1, <2>2, <2>3, <2>4
<1>2. TypeOK /\ [Next]_vars => TypeOK'
  <2> SUFFICES ASSUME TypeOK, [Next]_vars PROVE TypeOK'
    OBVIOUS
  <2>1. CASE FrameArrives
    BY <2>1 DEF FrameArrives
  <2>2. CASE CopyFirst
    BY <2>2 DEF CopyFirst
  <2>3. CASE CopySecond
    BY <2>3 DEF CopySecond
  <2>4. CASE StoreFlag
    BY <2>4 DEF StoreFlag
  <2>5. CASE NotifyAll
    BY <2>5 DEF NotifyAll
  <2>6. CASE CallbackReturns
    BY <2>6 DEF CallbackReturns
  <2>7. ASSUME NEW t \in Threads, SendFails(t) PROVE TypeOK'
    BY <2>7 DEF SendFails
  <2>8. ASSUME NEW t \in Threads, SendWorks(t) PROVE TypeOK'
    BY <2>8 DEF SendWorks
  <2>9. ASSUME NEW t \in Threads, Check(t) PROVE TypeOK'
    BY <2>9 DEF Check
  <2>10. ASSUME NEW t \in Threads, Expire(t) PROVE TypeOK'
    BY <2>10 DEF Expire
  <2>11. ASSUME NEW t \in Threads, Copy(t) PROVE TypeOK'
    BY <2>11 DEF Copy
  <2>12. ASSUME NEW t \in Threads, Reset(t) PROVE TypeOK'
    BY <2>12 DEF Reset
  <2>13. CASE UNCHANGED vars
    BY <2>13
  <2> QED
    BY <2>1, <2>2, <2>3, <2>4, <2>5, <2>6, <2>7, <2>8, <2>9, <2>10, <2>11,
       <2>12, <2>13 DEF Next, Inbound, Call
<1> QED BY <1>1, <1>2, PTL DEF Spec

\* RoundTripInv is an invariant: rtMtx separates the copies, and a set flag means
\* that the newest frame came after every call under way.
THEOREM RoundTripSafe == Spec => []RoundTripInv
<1> USE DEF RoundTripInv, LockInv, CopyInv, CallInv, WorkerCallInv, WholeFrame,
            FreshFrame, CallbackUnanswered, SleeperIsNotified, Returned
<1>1. Init => RoundTripInv
  BY DEF Init
<1>2. TypeOK /\ RoundTripInv /\ [Next]_vars => RoundTripInv'
  <2> SUFFICES ASSUME TypeOK, RoundTripInv, [Next]_vars PROVE RoundTripInv'
    OBVIOUS
  <2> USE DEF TypeOK
  <2>1. CASE FrameArrives
    BY <2>1 DEF FrameArrives
  <2>2. CASE CopyFirst
    BY <2>2 DEF CopyFirst
  <2>3. CASE CopySecond
    BY <2>3 DEF CopySecond
  <2>4. CASE StoreFlag
    BY <2>4 DEF StoreFlag
  <2>5. CASE NotifyAll
    BY <2>5 DEF NotifyAll
  <2>6. CASE CallbackReturns
    BY <2>6 DEF CallbackReturns
  <2>7. ASSUME NEW t \in Threads, SendFails(t) PROVE RoundTripInv'
    BY <2>7 DEF SendFails
  <2>8. ASSUME NEW t \in Threads, SendWorks(t) PROVE RoundTripInv'
    BY <2>8 DEF SendWorks
  <2>9. ASSUME NEW t \in Threads, Check(t) PROVE RoundTripInv'
    BY <2>9 DEF Check
  <2>10. ASSUME NEW t \in Threads, Expire(t) PROVE RoundTripInv'
    BY <2>10 DEF Expire
  <2>11. ASSUME NEW t \in Threads, Copy(t) PROVE RoundTripInv'
    BY <2>11 DEF Copy
  <2>12. ASSUME NEW t \in Threads, Reset(t) PROVE RoundTripInv'
    BY <2>12 DEF Reset
  <2>13. CASE UNCHANGED vars
    BY <2>13
  <2> QED
    BY <2>1, <2>2, <2>3, <2>4, <2>5, <2>6, <2>7, <2>8, <2>9, <2>10, <2>11,
       <2>12, <2>13 DEF Next, Inbound, Call
<1> QED BY <1>1, <1>2, TypeCorrect, PTL DEF Spec

\* A returned frame is one frame, not halves of two.
THEOREM Whole == Spec => []WholeFrame
<1>1. RoundTripInv => WholeFrame
  BY DEF RoundTripInv
<1> QED BY RoundTripSafe, <1>1, PTL

\* A returned frame was stored after the call began.
THEOREM Fresh == Spec => []FreshFrame
<1>1. RoundTripInv => FreshFrame
  BY DEF RoundTripInv
<1> QED BY RoundTripSafe, <1>1, PTL

\* No call sleeps beside a stored frame without a notify_all on its way.
THEOREM Notified == Spec => []SleeperIsNotified
<1>1. RoundTripInv => SleeperIsNotified
  BY DEF RoundTripInv
<1> QED BY RoundTripSafe, <1>1, PTL
=============================================================================
