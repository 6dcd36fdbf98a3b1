--------------------------- MODULE MCFrameDecode ---------------------------
EXTENDS FrameDecode, TLC

\* Ticks are only compared for equality: two of them, interchangeable.
TickSymmetry == Permutations(Ticks)
=============================================================================
