------------------------------ MODULE MCViewer ------------------------------
EXTENDS Viewer

\* Turned right, on the way back from there, and straight ahead.  With both
\* signs of a single angle the grid would be four times as large.
HeadAngles == {-20, -12, 0}
=============================================================================
