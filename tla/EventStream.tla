---------------------------- MODULE EventStream ----------------------------
(***************************************************************************)
(* What the polling side of the SDK promises, without threads or locks: a  *)
(* stream of numbered events, of which the reader sees a strictly          *)
(* increasing selection.  An event is skipped only when Window newer ones  *)
(* are waiting, and only the oldest one is.                                *)
(***************************************************************************)
EXTENDS Naturals

CONSTANT Window    \* how many undelivered events are kept

VARIABLES
    sent,   \* number of the newest event
    gone,   \* events up to this number are delivered or skipped
    last    \* the event delivered last, 0 before the first

svars == <<sent, gone, last>>

Init == sent = 0 /\ gone = 0 /\ last = 0

Send ==
    /\ sent' = sent + 1
    /\ gone' = IF sent - gone >= Window THEN gone + 1 ELSE gone
    /\ last' = last

Deliver ==
    /\ gone < sent
    /\ gone' = gone + 1
    /\ last' = gone + 1
    /\ sent' = sent

Next == Send \/ Deliver
Spec == Init /\ [][Next]_svars
=============================================================================
