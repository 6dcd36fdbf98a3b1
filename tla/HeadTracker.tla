---------------------------- MODULE HeadTracker ----------------------------
(***************************************************************************)
(* The viewer's head tracker, class Tracker of                             *)
(* src/examples/pinned_viewport/main.cpp: the calibration that needs the   *)
(* head still, the R key that starts it again, and which samples the gyro  *)
(* integration counts.  The angles themselves are floating point: q_ is    *)
(* level, or some turn away from it.                                       *)
(*                                                                         *)
(* A sample is "fast" (the gyro shows motion), "gentle" (it counts as      *)
(* still, its rate does not) or "slow" (the rate is in the dead zone).     *)
(***************************************************************************)
EXTENDS ViewerState

VARIABLES
    calibrated,          \* calibrated_
    calibrationSamples,  \* calibrationSamples_
    stillSamples,        \* stillSamples_
    level,               \* is q_ the identity?
    quiet                \* history: still samples in a row since recentering

tracker == <<calibrated, calibrationSamples, stillSamples, level, quiet>>

Tracking == mode = "demo"
Speeds == {"fast", "gentle", "slow"}

\* Every variable has its type.
TypeOK ==
    /\ calibrated \in BOOLEAN /\ level \in BOOLEAN
    /\ calibrationSamples \in 0 .. CalibrationLength
    /\ stillSamples \in 0 .. StillLength + 1
    /\ quiet \in 0 .. CalibrationLength

Init ==
    /\ calibrated = FALSE /\ level = TRUE
    /\ calibrationSamples = 0 /\ stillSamples = 0
    /\ quiet = 0

\* The R key.
Recenter ==
    /\ Tracking /\ phase = "events"
    /\ calibrated' = FALSE /\ level' = TRUE
    /\ calibrationSamples' = 0 /\ stillSamples' = 0
    /\ quiet' = 0
    /\ UNCHANGED <<viewer, now>>

Sampled(speed) ==
    /\ Tracking /\ phase = "frame"
    /\ quiet' = IF speed = "fast" THEN 0 ELSE AtMost(CalibrationLength, quiet + 1)
    /\ UNCHANGED <<viewer, now>>

\* Mutant of Calibrate: motion does not start the calibration again.
CalibrateThroughMotion(speed) ==
    /\ Sampled(speed) /\ ~calibrated
    /\ calibrationSamples' = calibrationSamples + IF speed = "fast" THEN 0 ELSE 1
    /\ calibrated' = (calibrationSamples' >= CalibrationLength)
    /\ UNCHANGED <<stillSamples, level>>

\* A sample before the calibration: motion starts it again.
Calibrate(speed) ==
    /\ Sampled(speed) /\ ~calibrated
    /\ calibrationSamples' = IF speed = "fast" THEN 0 ELSE calibrationSamples + 1
    /\ calibrated' = (calibrationSamples' >= CalibrationLength)
    /\ UNCHANGED <<stillSamples, level>>

\* A sample after it: long stillness stops the integration altogether.
Still(speed) == IF speed = "fast" THEN 0 ELSE AtMost(StillLength + 1, stillSamples + 1)
Counts(speed) == speed # "slow" /\ Still(speed) <= StillLength
Update(speed) ==
    /\ Sampled(speed) /\ calibrated
    /\ stillSamples' = Still(speed)
    /\ level' = (level /\ ~Counts(speed))
    /\ UNCHANGED <<calibrated, calibrationSamples>>

Sample == \E speed \in Speeds : Calibrate(speed) \/ Update(speed)

----------------------------------------------------------------------------
(* What the tracker promises. *)

\* The tracker moves the view only after a calibration in one unbroken run of
\* still samples since the start, the last motion or the last recentering.
CalibrationIsStill ==
    /\ calibrated \/ calibrationSamples <= quiet
    /\ calibrated => calibrationSamples = CalibrationLength
    /\ ~calibrated => level /\ stillSamples = 0
=============================================================================
